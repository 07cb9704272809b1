------------------------------- MODULE Research -------------------------------
(***************************************************************************)
(* The research jobs of server.mjs and the workspace file they live in.    *)
(*                                                                         *)
(* POST /api/research/jobs makes a job of several stages, saves it and     *)
(* runs it; every stage asks paid sources and a model, and its end is      *)
(* written to the file before the next one starts.  Deploys restart the    *)
(* server at any moment: the next process reads the file, puts what was    *)
(* under way back into the queue and finishes it, one job at a time, and   *)
(* gives a job up that was interrupted too often.                          *)
(*                                                                         *)
(* The file is written whole, to a temporary name that is then renamed,    *)
(* and the writes form a queue: each takes its picture of the state when   *)
(* its turn comes.  A write that fails is only logged; whoever waited for  *)
(* it goes on as if it had succeeded.                                      *)
(*                                                                         *)
(* Abstracted: what a stage finds (it ends, or it throws), the rest of the *)
(* workspace (people who may be removed from the queue stand for it), the  *)
(* list's limit of a hundred jobs, the order of the jobs taken up again.   *)
(***************************************************************************)
EXTENDS Naturals, Sequences, FiniteSets

CONSTANTS
  Job,          \* ids of research jobs, used once
  Prospect,     \* people in the seller's queue
  Stages,       \* researchStageDefinitions: how many stages there are
  MaxResumes,   \* MAX_RESEARCH_RESUMES
  Desk,         \* a request that writes the file and is not a job
  MaxCrashes,   \* bound: restarts
  MaxLost       \* bound: writes that fail

Stage == 1 .. Stages

ASSUME ResearchAssumption ==
  /\ Stages \in Nat \ {0}
  /\ MaxResumes \in Nat /\ MaxCrashes \in Nat /\ MaxLost \in Nat
  /\ Desk \notin Job

VARIABLES
  jobs,         \* state.researchJobs
  here,         \* state.prospects: who is still in the queue
  file,         \* the workspace file: the jobs and the people it holds
  queue,        \* stateWriteChain: who waits for a write, in order
  writing,      \* writes under way, each with its picture of the state
  at,           \* where the code that runs each job is
  waiting,      \* jobs resumeInterruptedResearch has still to take up
  resuming,     \* it is in the middle of one
  paid,         \* how often each stage of each job was started
  crashes, lost \* restarts and failed writes so far

saveVars  == <<file, queue, writing>>
countVars == <<paid, crashes, lost>>
researchVars == <<jobs, here, saveVars, at, waiting, resuming, countVars>>

-----------------------------------------------------------------------------
(* Jobs.                                                                    *)

Live == {"queued", "running"}
NoJob == [st |-> "none", of |-> CHOOSE q \in Prospect : TRUE,
          resumes |-> 0, stages |-> [s \in Stage |-> "pending"]]
NewJob(q) == [NoJob EXCEPT !.st = "queued", !.of = q]

\* slip: a job still in the queue is not looked for
HasRunningJob(q) == \E j \in Job : jobs[j].of = q /\ jobs[j].st = "running"

HasJob(q) == \E j \in Job : jobs[j].of = q /\ jobs[j].st \in Live

Interrupted(job) ==
  [s \in Stage |-> IF job.stages[s] = "running" THEN "pending" ELSE job.stages[s]]

\* slip: a job taken up again starts from its first stage
FromTheStart(job) ==
  IF job.st \notin Live THEN job
  ELSE IF job.resumes < MaxResumes
       THEN [job EXCEPT !.st = "queued", !.resumes = @ + 1,
                        !.stages = [s \in Stage |-> "pending"]]
       ELSE [job EXCEPT !.st = "failed", !.resumes = @ + 1]

\* slips: no job is given up; a job is left as the file has it
NeverGivenUp(job) ==
  IF job.st \notin Live THEN job
  ELSE [job EXCEPT !.st = "queued", !.resumes = @ + 1, !.stages = Interrupted(job)]
LeftAsItWas(job) == job

\* what a restart makes of a job in the file
Restored(job) ==
  IF job.st \notin Live THEN job
  ELSE IF job.resumes < MaxResumes
       THEN [job EXCEPT !.st = "queued", !.resumes = @ + 1, !.stages = Interrupted(job)]
       ELSE [job EXCEPT !.st = "failed", !.resumes = @ + 1,
                        !.stages = [s \in Stage |-> IF job.stages[s] = "running"
                                                    THEN "failed" ELSE job.stages[s]]]

\* what is not complete, and what of it comes first
Left(job) == {s \in Stage : job.stages[s] # "complete"}
First(job) == CHOOSE s \in Left(job) : \A t \in Left(job) : s <= t

-----------------------------------------------------------------------------
(* The file.                                                                *)

Picture == [jobs |-> jobs, here |-> here]

\* slip: writes are not kept apart
Unqueued == TRUE

TurnToWrite == writing = {}

\* where the code goes on once its write has ended
After == [posted |-> "start", marking |-> "work", saving |-> "next", final |-> "none"]

GoesOn(who) ==
  IF who = Desk THEN UNCHANGED <<at, resuming>>
  ELSE /\ at' = [at EXCEPT ![who] = After[@]]
       /\ resuming' = IF at[who] = "final" /\ resuming = who THEN Desk ELSE resuming

BeginWrite ==
  /\ queue # <<>> /\ TurnToWrite
  /\ writing' = writing \cup {[who |-> Head(queue), is |-> Picture]}
  /\ queue' = Tail(queue)
  /\ UNCHANGED <<jobs, here, file, at, waiting, resuming, countVars>>

\* rename: the whole new version, or the whole old one
EndWrite(w) ==
  /\ w \in writing
  /\ writing' = writing \ {w}
  /\ file' = w.is
  /\ GoesOn(w.who)
  /\ UNCHANGED <<jobs, here, queue, waiting, countVars>>

WriteFails(w) ==
  /\ w \in writing /\ lost < MaxLost
  /\ writing' = writing \ {w}
  /\ lost' = lost + 1
  /\ GoesOn(w.who)
  /\ UNCHANGED <<jobs, here, file, queue, waiting, paid, crashes>>

-----------------------------------------------------------------------------
(* One job.                                                                 *)

Save(who) == queue' = Append(queue, who)

Put(j, job) == jobs' = [jobs EXCEPT ![j] = job]
GoTo(j, place) == at' = [at EXCEPT ![j] = place]

Saved(j) == GoTo(j, "posted") /\ Save(j)

Post(j, q) ==
  /\ jobs[j].st = "none" /\ q \in here /\ ~HasJob(q)
  /\ Put(j, NewJob(q)) /\ Saved(j)
  /\ UNCHANGED <<here, file, writing, waiting, resuming, countVars>>

\* to the next stage that is not complete, or to the end
Continue(j, job) ==
  /\ IF Left(job) = {}
     THEN Put(j, [job EXCEPT !.st = "complete"]) /\ GoTo(j, "final")
     ELSE Put(j, [job EXCEPT !.st = "running", !.stages[First(job)] = "running"])
          /\ GoTo(j, "marking")
  /\ Save(j)
  /\ UNCHANGED <<here, file, writing, waiting, resuming, countVars>>

Start(j) == at[j] = "start" /\ jobs[j].of \in here /\ Continue(j, jobs[j])

NobodyLeft(j) ==
  /\ at[j] = "start" /\ jobs[j].of \notin here
  /\ Put(j, [jobs[j] EXCEPT !.st = "failed"]) /\ GoTo(j, "final") /\ Save(j)
  /\ UNCHANGED <<here, file, writing, waiting, resuming, countVars>>

NextStage(j) == at[j] = "next" /\ Continue(j, jobs[j])

\* the sources are asked, and paid
Work(j) ==
  /\ at[j] = "work"
  /\ paid' = [paid EXCEPT ![j][First(jobs[j])] = @ + 1]
  /\ GoTo(j, "asked")
  /\ UNCHANGED <<jobs, here, saveVars, waiting, resuming, crashes, lost>>

Found(j) ==
  /\ at[j] = "asked"
  /\ Put(j, [jobs[j] EXCEPT !.stages[First(jobs[j])] = "complete"])
  /\ GoTo(j, "saving") /\ Save(j)
  /\ UNCHANGED <<here, file, writing, waiting, resuming, countVars>>

Throws(j) ==
  /\ at[j] = "asked"
  /\ Put(j, [jobs[j] EXCEPT !.st = "failed", !.stages[First(jobs[j])] = "failed"])
  /\ GoTo(j, "final") /\ Save(j)
  /\ UNCHANGED <<here, file, writing, waiting, resuming, countVars>>

-----------------------------------------------------------------------------
(* Restarts, and the seller.                                                *)

TakeUp(j) ==
  /\ resuming = Desk /\ j \in waiting
  /\ waiting' = waiting \ {j}
  /\ IF jobs[j].st = "queued"
     THEN resuming' = j /\ GoTo(j, "start")
     ELSE UNCHANGED <<resuming, at>>
  /\ UNCHANGED <<jobs, here, saveVars, countVars>>

Restart ==
  /\ crashes < MaxCrashes
  /\ crashes' = crashes + 1
  /\ jobs' = [j \in Job |-> Restored(file.jobs[j])]
  /\ here' = file.here
  /\ queue' = <<>> /\ writing' = {}
  /\ at' = [j \in Job |-> "none"]
  /\ waiting' = {j \in Job : jobs'[j].st = "queued"}
  /\ resuming' = Desk
  /\ UNCHANGED <<file, paid, lost>>

RemoveProspect(q) ==
  /\ q \in here
  /\ here' = here \ {q}
  /\ Save(Desk)
  /\ UNCHANGED <<jobs, file, writing, at, waiting, resuming, countVars>>

-----------------------------------------------------------------------------

ResearchInit ==
  /\ jobs = [j \in Job |-> NoJob] /\ here = Prospect
  /\ file = Picture
  /\ queue = <<>> /\ writing = {}
  /\ at = [j \in Job |-> "none"]
  /\ waiting = {} /\ resuming = Desk
  /\ paid = [j \in Job |-> [s \in Stage |-> 0]]
  /\ crashes = 0 /\ lost = 0

Runs(j) == Start(j) \/ NobodyLeft(j) \/ NextStage(j) \/ Work(j) \/ Found(j)

Writes == BeginWrite \/ \E w \in writing : EndWrite(w)

ResearchNext ==
  \/ \E j \in Job : Runs(j) \/ Throws(j) \/ TakeUp(j)
  \/ \E j \in Job, q \in Prospect : Post(j, q)
  \/ Writes
  \/ \E w \in writing : WriteFails(w)
  \/ \E q \in Prospect : RemoveProspect(q)
  \/ Restart

ResearchSpec == ResearchInit /\ [][ResearchNext]_researchVars

\* A process that stays up runs its callbacks; every request of a stage has a
\* time-out, so that its work ends, one way or the other.
ResearchFairSpec ==
  /\ ResearchSpec
  /\ \A j \in Job : WF_researchVars(Runs(j)) /\ WF_researchVars(TakeUp(j))
  /\ WF_researchVars(Writes)
-----------------------------------------------------------------------------
(* What must hold.                                                          *)

Jobs == [st : Live \cup {"none", "complete", "failed"}, of : Prospect \cup {NoJob.of},
         resumes : 0 .. MaxResumes + 1,
         stages : [Stage -> {"pending", "running", "complete", "failed"}]]
Files == [jobs : [Job -> Jobs], here : SUBSET Prospect]

\* The shape of the state; no job is taken up more often than it may be.
ResearchTypeOK ==
  /\ jobs \in [Job -> Jobs] /\ here \subseteq Prospect
  /\ file \in Files
  /\ queue \in Seq(Job \cup {Desk})
  /\ writing \subseteq [who : Job \cup {Desk}, is : Files]
  /\ at \in [Job -> {"none", "start", "next", "work", "asked"} \cup DOMAIN After]
  /\ waiting \subseteq Job /\ resuming \in Job \cup {Desk}
  /\ paid \in [Job -> [Stage -> Nat]]
  /\ crashes \in Nat /\ lost \in Nat

\* However often the button is pressed and the server restarted, a person has
\* one job at a time (server.mjs:2799).
OneJobEach ==
  \A i, j \in Job : /\ jobs[i].st \in Live /\ jobs[j].st \in Live
                     /\ jobs[i].of = jobs[j].of
                    => i = j

\* each time a stage of j was paid for after the first time
Again(j) == UNION {{s} \X (2 .. paid[j][s]) : s \in Stage}

\* An interruption costs the one stage that was in flight (server.mjs:5548):
\* the stages paid for again are no more than the times the job was taken up
\* again, plus the writes that failed.
CrashCostsOneStage == \A j \in Job : Cardinality(Again(j)) <= jobs[j].resumes + lost

\* A job that brings the server down does not spend money for ever
\* (server.mjs:5570).
CrashLoopEnds ==
  \A j \in Job, s \in Stage : paid[j][s] <= MaxResumes + 1 + lost

\* Once the request is answered, no restart loses the job.
AnsweredIsKept ==
  lost = 0 => \A j \in Job : jobs[j].st # "none" /\ at[j] # "posted"
                              => file.jobs[j].st # "none"

\* What a restart costs: the stage in flight, not without end, and never a job whose
\* request was answered.
RestartCost == CrashCostsOneStage /\ CrashLoopEnds /\ AnsweredIsKept

\* The file never goes back to an older picture (server.mjs:5875): a stage it
\* holds as complete stays complete.
FileNeverBack ==
  [][\A j \in Job, s \in Stage :
       file.jobs[j].stages[s] = "complete" => file'.jobs[j].stages[s] = "complete"]_researchVars

\* Restarts or not, every job ends, and nobody has to press the button again.
JobEnds == \A j \in Job : jobs[j].st \in Live ~> jobs[j].st \notin Live

=============================================================================

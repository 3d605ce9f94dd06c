-------------------------- MODULE ReleasePipeline --------------------------
(***************************************************************************)
(* The release of the two npm packages: the runs of the Release workflow   *)
(* (release.yml) on main, their attempts and steps, and the runs of the    *)
(* Release automation workflow (release-automation.yml) that tell the      *)
(* deployment repository what happened, on the evidence                    *)
(* release-publication.py reads.                                           *)
(*                                                                         *)
(* A commit is its number on main; a release commit merges a Release       *)
(* Please PR, and the version it releases is the commit's number.          *)
(* GitHub's part (queues of a concurrency group, reruns, registry) and     *)
(* Release Please are external and do what the workflows rely on.          *)
(***************************************************************************)
EXTENDS Naturals

CONSTANTS
  MaxPushes,     \* bound: commits on main
  MaxReruns,     \* bound: reruns of runs of either workflow
  MaxFailures    \* bound: steps that fail for a reason outside the workflow

ASSUME BoundsAssumption ==
  MaxPushes \in Nat /\ MaxReruns \in Nat /\ MaxFailures \in Nat

Commits == 1 .. MaxPushes
Attempts == 1 .. MaxReruns + 1
Packages == {"proto", "event"}

VARIABLES
  head,        \* number of commits on main
  merged,      \* commits that merge a Release Please PR
  tagged,      \* those with a GitHub release and its tag
  registry,    \* <<package, version>> pairs published
  attempt,     \* per commit, attempts of its Release run
  step,        \* per commit, the next step of the run, or "none" or "done"
  created,     \* per commit, the run's outputs: the version to publish, 0 none
  conclusion,  \* per commit, the run's conclusion, "none" until it completes
  job,         \* per commit and attempt, conclusion of the publish job
  runs,        \* concurrency group of the Release runs: who runs, who waits
  pushes,      \* the same for notifications of pushes
  completions, \* the same for notifications of completed Release runs
  over,        \* per completion, how many of its notifications are over
  again,       \* per commit, reruns of notifications of its run's success
  note,        \* what the running notification has read so far
  announced,   \* per version, how often the discovery was told of it
  maintained,  \* the head of main when PR maintenance was last told
  reruns,      \* reruns of any run so far
  failures     \* steps that failed so far

github == <<head, merged, tagged, registry>>
release == <<attempt, step, created, conclusion, job, reruns>>
told == <<announced, maintained>>
notifications == <<completions, over>>
vars == <<github, release, runs, pushes, notifications, again, note, told, failures>>

-----------------------------------------------------------------------------
(* Concurrency groups: one run runs, one waits, a newer one takes the place *)
(* of the one that waits.                                                   *)

Results == {"success", "failure", "cancelled"}
Entry == [run : 0 .. MaxPushes, conclusion : Results \cup {"none"}]
Nobody == [run |-> 0, conclusion |-> "none"]
For(c) == [run |-> c, conclusion |-> "none"]
Completion(c, result) == [run |-> c, conclusion |-> result]
Events == [run : Commits, conclusion : Results]

(* Mutant: nobody waits while another runs. *)
EnterIdle(g, entry) == IF g.running = Nobody THEN [g EXCEPT !.running = entry] ELSE g

Enter(g, entry) ==
  IF g.running = Nobody THEN [g EXCEPT !.running = entry]
                        ELSE [g EXCEPT !.pending = entry]
Idle == [running |-> Nobody, pending |-> Nobody]
Leave(g) == [running |-> g.pending, pending |-> Nobody]

Running(c) == runs.running = For(c)

(* The notification of a completion is over: it ended, or lost its place.  *)
WithOver(e) == IF e = Nobody THEN over ELSE [over EXCEPT ![e] = @ + 1]

Notify(e) ==
  /\ completions' = Enter(completions, e)
  /\ over' = WithOver(completions.pending)

(* The run of commit c is queued.  The one whose place it takes completes  *)
(* as cancelled, and that completion is an event too.                      *)
Displaced == runs.pending

QueuedRuns(c) == Enter(runs, For(c))
NotifyDisplaced ==
  IF Displaced = Nobody THEN UNCHANGED notifications
  ELSE Notify(Completion(Displaced.run, "cancelled"))
ConclusionsWhenQueued(c) ==
  [d \in Commits |-> IF d = c THEN "none"
                     ELSE IF For(d) = Displaced THEN "cancelled"
                     ELSE conclusion[d]]

-----------------------------------------------------------------------------
NoNote == [step |-> "none", attempt |-> 0, published |-> FALSE]

Init ==
  /\ head = 0 /\ merged = {} /\ tagged = {} /\ registry = {}
  /\ attempt = [c \in Commits |-> 0]
  /\ step = [c \in Commits |-> "none"]
  /\ created = [c \in Commits |-> 0]
  /\ conclusion = [c \in Commits |-> "none"]
  /\ job = [c \in Commits |-> [a \in Attempts |-> "none"]]
  /\ runs = Idle /\ pushes = Idle /\ completions = Idle
  /\ note = NoNote
  /\ over = [e \in Events |-> 0] /\ again = [c \in Commits |-> 0]
  /\ announced = [c \in Commits |-> 0] /\ maintained = 0 /\ reruns = 0 /\ failures = 0

(* A push to main triggers both workflows.  The bot that maintains release *)
(* PRs opens none while a merged one has no release.                       *)
Push ==
  /\ head < MaxPushes
  /\ LET c == head + 1 IN
     /\ head' = c
     /\ \/ merged' = merged
        \/ merged = tagged /\ merged' = merged \cup {c}
     /\ attempt' = [attempt EXCEPT ![c] = 1]
     /\ step' = [step EXCEPT ![c] = "release"]
     /\ conclusion' = ConclusionsWhenQueued(c)
     /\ runs' = QueuedRuns(c)
     /\ NotifyDisplaced
     /\ pushes' = Enter(pushes, For(c))
  /\ UNCHANGED <<tagged, registry, created, job, reruns, again, note, told, failures>>

(* Someone reruns a completed run, which enters the group again.  Only     *)
(* what failed: a release job that succeeded keeps its outputs.            *)
Asked == reruns < MaxReruns /\ reruns' = reruns + 1

Rerun(c) ==
  /\ conclusion[c] # "none"
  /\ Asked
  /\ attempt' = [attempt EXCEPT ![c] = @ + 1]
  /\ conclusion' = ConclusionsWhenQueued(c)
  /\ runs' = QueuedRuns(c)
  /\ NotifyDisplaced
  /\ UNCHANGED <<github, job, pushes, again, note, told, failures>>

RerunFailed(c) ==
  /\ conclusion[c] # "success"
  /\ step' = [step EXCEPT ![c] = IF created[c] = 0 THEN "release" ELSE "setup"]
  /\ UNCHANGED created
  /\ Rerun(c)

RerunAll(c) ==
  /\ step' = [step EXCEPT ![c] = "release"]
  /\ created' = [created EXCEPT ![c] = 0]
  /\ Rerun(c)

-----------------------------------------------------------------------------
(* The steps of a run of the Release workflow. *)

At(c, s) == Running(c) /\ step[c] = s

Goes(c, s) ==
  /\ step' = [step EXCEPT ![c] = s]
  /\ UNCHANGED <<attempt, conclusion, job, reruns, runs, notifications>>

Ends(c, result, published) ==
  /\ step' = [step EXCEPT ![c] = "done"]
  /\ conclusion' = [conclusion EXCEPT ![c] = result]
  /\ job' = [job EXCEPT ![c][attempt[c]] = published]
  /\ runs' = Leave(runs)
  /\ Notify(Completion(c, result))
  /\ UNCHANGED <<attempt, reruns>>

Fault == failures < MaxFailures /\ failures' = failures + 1

(* Mutant: a run makes the release of its own commit only. *)
ReleaseOwn(c) ==
  /\ At(c, "release")
  /\ tagged' = tagged \cup (merged \cap {c})
  /\ IF c \in merged \ tagged
     THEN created' = [created EXCEPT ![c] = c] /\ Goes(c, "setup")
     ELSE Ends(c, "success", "skipped") /\ UNCHANGED created
  /\ UNCHANGED <<head, merged, registry, pushes, again, note, told, failures>>

(* Mutant: the run goes on before the release has its tag. *)
ReleaseUntagged(c) ==
  /\ At(c, "release")
  /\ \/ \E v \in merged \ tagged :
          created' = [created EXCEPT ![c] = v] /\ Goes(c, "setup")
     \/ merged = tagged /\ Ends(c, "success", "skipped") /\ UNCHANGED created
  /\ UNCHANGED <<github, pushes, again, note, told, failures>>

(* Release Please releases the merged PR that has no release yet, whoever  *)
(* pushed the commit of this run.                                          *)
ReleasePlease(c) ==
  /\ At(c, "release")
  /\ tagged' = merged
  /\ \/ \E v \in merged \ tagged :
          created' = [created EXCEPT ![c] = v] /\ Goes(c, "setup")
     \/ merged = tagged /\ Ends(c, "success", "skipped") /\ UNCHANGED created
  /\ UNCHANGED <<head, merged, registry, pushes, again, note, told, failures>>

(* The job fails, with its release made or not, and loses its outputs. *)
ReleasePleaseFails(c) ==
  /\ At(c, "release")
  /\ tagged' \in {tagged, merged}
  /\ Fault /\ Ends(c, "failure", "skipped")
  /\ UNCHANGED <<head, merged, registry, created, pushes, again, note, told>>

(* Mutant: the event package first. *)
SetUpEventFirst(c) ==
  /\ At(c, "setup")
  /\ \/ Goes(c, "event") /\ UNCHANGED failures
     \/ Fault /\ Ends(c, "failure", "failure")
  /\ UNCHANGED <<github, created, pushes, again, note, told>>

SetUp(c) ==
  /\ At(c, "setup")
  /\ \/ Goes(c, "proto") /\ UNCHANGED failures
     \/ Fault /\ Ends(c, "failure", "failure")
  /\ UNCHANGED <<github, created, pushes, again, note, told>>

(* pnpm publish of a version the registry has fails; a call that fails may *)
(* have published all the same.                                            *)
Publish(c, p, next) ==
  /\ At(c, p)
  /\ IF <<p, created[c]>> \in registry
     THEN Ends(c, "failure", "failure") /\ UNCHANGED <<registry, failures>>
     ELSE \/ /\ registry' = registry \cup {<<p, created[c]>>}
             /\ Goes(c, next) /\ UNCHANGED failures
          \/ /\ registry' \in {registry, registry \cup {<<p, created[c]>>}}
             /\ Fault /\ Ends(c, "failure", "failure")
  /\ UNCHANGED <<head, merged, tagged, created, pushes, again, note, told>>

PublishProto(c) == Publish(c, "proto", "event")
PublishEvent(c) == Publish(c, "event", "verify")

Complete(v) == {<<"proto", v>>, <<"event", v>>} \subseteq registry

Verify(c) ==
  /\ At(c, "verify")
  /\ \/ LET result == IF Complete(created[c]) THEN "success" ELSE "failure"
        IN  Ends(c, result, result) /\ UNCHANGED failures
     \/ Fault /\ Ends(c, "failure", "failure")
  /\ UNCHANGED <<github, created, pushes, again, note, told>>

-----------------------------------------------------------------------------
(* The Release automation workflow: on a push, PR maintenance is told.     *)
(* The job goes on after the call, which matters if another notification   *)
(* of a push comes meanwhile, and is left out if none can.                 *)
Told(g) == [g EXCEPT !.running.conclusion = "success"]

Maintain ==
  /\ \E c \in Commits : pushes.running = For(c)
  /\ \/ /\ maintained' = head /\ UNCHANGED failures
        /\ \/ pushes' = Leave(pushes)
           \/ (head < MaxPushes \/ reruns < MaxReruns) /\ pushes' = Told(pushes)
     \/ /\ Fault /\ maintained' \in {maintained, head}
        /\ pushes' = Leave(pushes)
  /\ UNCHANGED <<github, release, runs, notifications, again, note, announced>>

MaintainEnds ==
  /\ pushes.running.conclusion # "none"
  /\ pushes' = Leave(pushes)
  /\ UNCHANGED <<github, release, runs, notifications, again, note, told, failures>>

(* On a completed Release run c, unless the job's condition skips it.      *)
Notified == completions.running.run
Dismiss ==
  /\ completions' = Leave(completions)
  /\ over' = WithOver(completions.running)
  /\ note' = NoNote

Skip ==
  /\ completions.running \notin {Nobody, Completion(Notified, "success")}
  /\ Dismiss
  /\ UNCHANGED <<github, release, runs, pushes, again, told, failures>>

(* The script reads the run as it is now, whatever attempt that is, ...    *)
ReadRun ==
  /\ completions.running = Completion(Notified, "success")
  /\ note.step = "none"
  /\ IF conclusion[Notified] = "success"
     THEN note' = [NoNote EXCEPT !.step = "release", !.attempt = attempt[Notified]]
          /\ UNCHANGED notifications
     ELSE Dismiss
  /\ UNCHANGED <<github, release, runs, pushes, again, told, failures>>

(* ... then the latest release, ... *)
IsLatest(c) == c \in tagged /\ \A v \in tagged : v <= c

ReadRelease ==
  /\ note.step = "release"
  /\ IF IsLatest(Notified)
     THEN note' = [note EXCEPT !.step = "jobs"] /\ UNCHANGED notifications
     ELSE Dismiss
  /\ UNCHANGED <<github, release, runs, pushes, again, told, failures>>

(* ... then the jobs of every attempt.                                     *)
(* Mutant: the jobs of the attempt that was read are not asked for. *)
LatestJobSucceeded(current, jobs) ==
  \E latest \in jobs : /\ \A j \in jobs : j.attempt <= latest.attempt
                       /\ latest.conclusion = "success"

(* Mutant: a skipped job counts by the success of an earlier attempt. *)
AnyJobSucceeded(current, jobs) == \E j \in jobs : j.conclusion = "success"

PublisherJobsSucceeded(current, jobs) ==
  /\ \A j \in jobs : j.attempt = current => j.conclusion = "success"
  /\ \E latest \in jobs : /\ \A j \in jobs : j.attempt <= latest.attempt
                          /\ latest.conclusion = "success"

(* The jobs the API lists; of an attempt whose publish job has not ended,  *)
(* it may list the job, without a conclusion, or not.                      *)
Jobs(c, unended) ==
  {[attempt |-> a, conclusion |-> job[c][a]] :
     a \in {a \in Attempts : a <= attempt[c] /\ (job[c][a] # "none" \/ unended)}}

ReadJobs ==
  /\ note.step = "jobs"
  /\ \E unended \in BOOLEAN :
       note' = [note EXCEPT !.step = "tell",
                  !.published = PublisherJobsSucceeded(note.attempt, Jobs(Notified, unended))]
  /\ UNCHANGED <<github, release, runs, pushes, notifications, again, told, failures>>

(* Maintenance is told of the tagged release, then discovery of what was   *)
(* published; when the first call fails the second is not made.            *)
Announced == [announced EXCEPT ![Notified] = @ + 1]

Tell ==
  /\ note.step = "tell"
  /\ Dismiss
  /\ maintained' = head
  /\ announced' = IF note.published THEN Announced ELSE announced
  /\ UNCHANGED <<github, release, runs, pushes, again, failures>>

(* Any step of the notification fails; the first of the two calls of Tell  *)
(* may have been made, or both: a call that fails may have arrived.        *)
NoteFails ==
  /\ completions.running = Completion(Notified, "success")
  /\ \/ UNCHANGED told
     \/ /\ note.step = "tell"
        /\ maintained' = head
        /\ announced' \in {announced, IF note.published THEN Announced ELSE announced}
  /\ Fault /\ Dismiss
  /\ UNCHANGED <<github, release, runs, pushes, again>>

(* Someone reruns a notification that is over, which enters its group with *)
(* the event it was made for.                                              *)
RerunMaintenance(c) ==
  /\ c <= head /\ c \notin {pushes.running.run, pushes.pending.run}
  /\ Asked
  /\ pushes' = Enter(pushes, For(c))
  /\ UNCHANGED <<github, attempt, step, created, conclusion, job, runs,
                 notifications, again, note, told, failures>>

RerunNotification(e) ==
  /\ over[e] > 0
  /\ Asked
  /\ completions' = Enter(completions, e)
  /\ over' = [WithOver(completions.pending) EXCEPT ![e] = @ - 1]
  /\ again' = IF e.conclusion = "success" THEN [again EXCEPT ![e.run] = @ + 1] ELSE again
  /\ UNCHANGED <<github, attempt, step, created, conclusion, job, runs,
                 pushes, note, told, failures>>

-----------------------------------------------------------------------------
RunStep(c) ==
  \/ ReleasePlease(c) \/ ReleasePleaseFails(c) \/ SetUp(c)
  \/ PublishProto(c) \/ PublishEvent(c) \/ Verify(c)

NoteStep == Maintain \/ MaintainEnds \/ Skip \/ ReadRun \/ ReadRelease \/ ReadJobs \/ Tell

Next ==
  \/ Push
  \/ \E c \in Commits : RerunFailed(c) \/ RerunAll(c) \/ RunStep(c) \/ RerunMaintenance(c)
  \/ NoteStep \/ NoteFails \/ \E e \in Events : RerunNotification(e)

Spec == Init /\ [][Next]_vars

(* GitHub runs what is queued; people rerun what failed or was cancelled.  *)
FairSpec ==
  /\ Spec
  /\ WF_vars(NoteStep)
  /\ \A c \in Commits : WF_vars(RunStep(c)) /\ WF_vars(RerunFailed(c))

-----------------------------------------------------------------------------
TypeOK ==
  /\ head \in 0 .. MaxPushes
  /\ merged \subseteq 1 .. head
  /\ tagged \subseteq merged
  /\ registry \subseteq Packages \X tagged
  /\ reruns \in 0 .. MaxReruns
  /\ attempt \in [Commits -> 0 .. reruns + 1]
  /\ step \in [Commits -> {"none", "release", "setup", "verify", "done"} \cup Packages]
  /\ created \in [Commits -> {0} \cup tagged]
  /\ conclusion \in [Commits -> Results \cup {"none"}]
  /\ job \in [Commits -> [Attempts -> Results \cup {"skipped", "none"}]]
  /\ {runs, pushes, completions} \subseteq [running : Entry, pending : Entry]
  /\ note \in [step : {"none", "release", "jobs", "tell"}, attempt : 0 .. reruns + 1,
                published : BOOLEAN]
  /\ over \in [Events -> Nat] /\ again \in [Commits -> 0 .. reruns]
  /\ announced \in [Commits -> Nat]
  /\ maintained \in 0 .. head
  /\ failures \in 0 .. MaxFailures

(* Discovery is told only of versions both packages of which are on the    *)
(* registry: what the notification reads at three moments, while runs are  *)
(* rerun and later releases are made, is evidence of this release.         *)
EvidenceIsPublication == \A v \in Commits : announced[v] > 0 => Complete(v)

(* The pipeline keeps the promise to consumers: tag, geul-proto, geul-event *)
(* in this order, and a version announced once, and not more than once more *)
(* for each time someone reruns the notification of it.                     *)
Promise == INSTANCE Publication WITH Versions <- Commits
ImplementsPublication == Promise!Spec

(* As long as no step fails, there is no end to the moments at which every *)
(* merged release is published, although its own run may lose its place in *)
(* the queue to a later push or a rerun.                                   *)
PublishedUnlessFailed ==
  []<>(failures > 0 \/ \A v \in merged : Complete(v))

(* As long as no step fails, PR maintenance comes to be told of the last   *)
(* push, although notifications replace each other.                        *)
MaintainedUnlessFailed ==
  []<>(failures > 0 \/ maintained = head)

(* README, Release: "Merging the next Release Please PR triggers           *)
(* publication in dependency order."  With failed runs rerun, merging leads *)
(* to both packages, as long as some run may still be rerun.               *)
EveryReleasePublished ==
  \A v \in Commits : v \in merged ~>
    (Complete(v) \/ reruns = MaxReruns)
=============================================================================

------------------------ MODULE ReleasePipelineProofs ------------------------
(***************************************************************************)
(* Proofs about the release pipeline for any number of pushes, reruns and  *)
(* failing steps.                                                          *)
(*                                                                         *)
(* EvidenceIsPublication is not inductive: a notification reads the run,   *)
(* the latest release and the jobs one after the other, and the run may be *)
(* rerun, for another release, between two of its reads.  Inductive is     *)
(* PipelineInv: what a successful publish job of commit c's run says       *)
(* (SuccessIsPublication), that one release is outstanding at a time       *)
(* (ReleasedInOrder), and what a notification knows after each read        *)
(* (NoteTrue).                                                             *)
(***************************************************************************)
EXTENDS ReleasePipeline, TLAPS

(* Who is in the Release group is a run of its own that has not completed. *)
Queued(c) == c \in 1 .. head /\ conclusion[c] = "none" /\ attempt[c] >= 1

QueueOK ==
  /\ runs.running = Nobody => runs.pending = Nobody
  /\ runs.running # Nobody => runs.running # runs.pending
  /\ \A e \in {runs.running, runs.pending} : e # Nobody => e = For(e.run) /\ Queued(e.run)
  /\ \A e \in {completions.running, completions.pending} : e # Nobody => e \in Events

(* Commits that are not pushed yet have no history. *)
FutureBlank ==
  \A c \in Commits : c > head =>
    /\ attempt[c] = 0 /\ created[c] = 0 /\ conclusion[c] = "none"
    /\ \A a \in Attempts : job[c][a] = "none"

ReleasedInOrder == \A c, r \in merged : r < c => r \in tagged

(* A run publishes its own commit's version or a later one. *)
CreatedOK ==
  \A c \in Commits :
    /\ step[c] \in {"setup", "verify"} \cup Packages => created[c] # 0
    /\ c \in merged /\ created[c] # 0 => created[c] >= c

JobOf(c, a) == job[c][a]

SuccessIsPublication ==
  \A c \in Commits :
    /\ conclusion[c] = "success" => attempt[c] >= 1 /\ JobOf(c, attempt[c]) # "none"
    /\ \A a \in Attempts : JobOf(c, a) = "success" /\ c \in merged =>
         Complete(c) \/ \E r \in tagged : r > c

NoteTrue ==
  note.step # "none" =>
    /\ Notified \in Commits
    /\ completions.running = Completion(Notified, "success")
    /\ note.attempt \in Attempts
    /\ JobOf(Notified, note.attempt) # "none"
    /\ \/ attempt[Notified] > note.attempt
       \/ attempt[Notified] = note.attempt /\ conclusion[Notified] = "success"
    /\ note.step = "jobs" /\ JobOf(Notified, note.attempt) = "success" => Complete(Notified)
    /\ note.step = "tell" /\ note.published => Complete(Notified)

PipelineInv ==
  /\ TypeOK
  /\ QueueOK /\ FutureBlank /\ ReleasedInOrder /\ CreatedOK
  /\ SuccessIsPublication /\ NoteTrue /\ EvidenceIsPublication

-----------------------------------------------------------------------------
LEMMA NobodyType == Nobody \in Entry /\ NoNote.step = "none"
BY BoundsAssumption DEF Nobody, Entry, NoNote

LEMMA EnterType ==
  ASSUME NEW g \in [running : Entry, pending : Entry], NEW e \in Entry
  PROVE  /\ Enter(g, e) \in [running : Entry, pending : Entry]
         /\ Enter(g, e).running \in {g.running, e}
         /\ Enter(g, e).pending \in {g.pending, e}
         /\ g.running # Nobody => Enter(g, e).running = g.running /\ Enter(g, e).pending = e
         /\ g.running = Nobody => Enter(g, e).running = e /\ Enter(g, e).pending = g.pending
BY DEF Enter

LEMMA LeaveType ==
  ASSUME NEW g \in [running : Entry, pending : Entry]
  PROVE  /\ Leave(g) \in [running : Entry, pending : Entry]
         /\ Leave(g).running = g.pending /\ Leave(g).pending = Nobody
BY NobodyType DEF Leave

LEMMA EventType ==
  ASSUME NEW c \in Commits, NEW result \in Results
  PROVE  Completion(c, result) \in Events /\ Events \subseteq Entry
BY BoundsAssumption DEF Completion, Events, Entry, Commits

(* A notification that is over is counted, and no other. *)
LEMMA OverType ==
  ASSUME over \in [Events -> Nat], NEW e, e # Nobody => e \in Events
  PROVE  /\ WithOver(e) \in [Events -> Nat]
         /\ \A d \in Events : d # e => WithOver(e)[d] = over[d]
BY DEF WithOver

(* A notification that is queued leaves the one that runs where it is.      *)
LEMMA NotifyType ==
  ASSUME TypeOK, QueueOK, NEW e \in Events, Notify(e)
  PROVE  /\ completions' \in [running : Entry, pending : Entry] /\ over' \in [Events -> Nat]
         /\ \A d \in {completions'.running, completions'.pending} : d # Nobody => d \in Events
         /\ completions.running # Nobody => completions'.running = completions.running
<1>1. e \in Entry /\ completions \in [running : Entry, pending : Entry]
  BY BoundsAssumption DEF TypeOK, Events, Entry, Commits
<1>2. over' \in [Events -> Nat]
  BY OverType DEF Notify, TypeOK, QueueOK
<1> QED
  BY <1>1, <1>2, EnterType DEF Notify, QueueOK

LEMMA InitInv == Init => PipelineInv
<1> SUFFICES ASSUME Init PROVE PipelineInv
  OBVIOUS
<1> USE BoundsAssumption DEF Init
<1>1. TypeOK
  <2>1. Nobody \in Entry
    BY DEF Nobody, Entry
  <2>2. /\ merged \subseteq 1 .. head /\ tagged \subseteq merged
        /\ registry \subseteq Packages \X tagged
        /\ announced \in [Commits -> Nat] /\ maintained \in 0 .. head
        /\ over \in [Events -> Nat] /\ again \in [Commits -> 0 .. reruns]
        /\ head \in 0 .. MaxPushes /\ failures \in 0 .. MaxFailures /\ reruns \in 0 .. MaxReruns
    OBVIOUS
  <2>3. /\ attempt \in [Commits -> 0 .. reruns + 1]
        /\ created \in [Commits -> {0} \cup tagged]
        /\ job \in [Commits -> [Attempts -> Results \cup {"skipped", "none"}]]
    OBVIOUS
  <2>4. /\ step \in [Commits -> {"none", "release", "setup", "verify", "done"} \cup Packages]
        /\ conclusion \in [Commits -> Results \cup {"none"}]
    OBVIOUS
  <2>5. {runs, pushes, completions} \subseteq [running : Entry, pending : Entry]
    BY <2>1 DEF Idle
  <2>6. note \in [step : {"none", "release", "jobs", "tell"}, attempt : 0 .. reruns + 1,
                  published : BOOLEAN]
    BY DEF NoNote
  <2> QED
    BY <2>2, <2>3, <2>4, <2>5, <2>6 DEF TypeOK
<1>2. QueueOK /\ NoteTrue
  BY DEF QueueOK, NoteTrue, Idle, Nobody, NoNote
<1>3. FutureBlank /\ ReleasedInOrder /\ EvidenceIsPublication
  BY DEF FutureBlank, ReleasedInOrder, EvidenceIsPublication
<1>4. CreatedOK /\ SuccessIsPublication
  BY DEF CreatedOK, SuccessIsPublication, JobOf, Packages
<1> QED
  BY <1>1, <1>2, <1>3, <1>4 DEF PipelineInv

-----------------------------------------------------------------------------
(* What a run that enters the Release group leaves behind.                  *)
LEMMA Queueing ==
  ASSUME TypeOK, QueueOK, NEW c \in Commits,
         runs.running # For(c),
         runs' = QueuedRuns(c),
         NotifyDisplaced,
         conclusion' = ConclusionsWhenQueued(c),
         head' \in Nat, head <= head', c <= head',
         attempt'[c] >= 1,
         \A d \in Commits \ {c} : attempt'[d] = attempt[d]
  PROVE  /\ QueueOK'
         /\ {runs', completions'} \subseteq [running : Entry, pending : Entry]
         /\ over' \in [Events -> Nat]
         /\ conclusion' \in [Commits -> Results \cup {"none"}]
         /\ conclusion'[c] = "none"
         /\ completions.running # Nobody => completions'.running = completions.running
         /\ \A d \in Commits \ {c} :
              conclusion'[d] # conclusion[d] =>
                conclusion[d] = "none" /\ conclusion'[d] = "cancelled" /\ d <= head
<1> DEFINE Group == [running : Entry, pending : Entry]
<1>1. runs \in Group /\ completions \in Group /\ For(c) \in Entry /\ For(c) # Nobody
  BY BoundsAssumption DEF TypeOK, For, Entry, Nobody, Commits
<1>2. Displaced # Nobody => /\ Displaced = For(Displaced.run) /\ Displaced.run \in 1 .. head
                           /\ conclusion[Displaced.run] = "none"
  BY <1>1 DEF QueueOK, Displaced, Queued
<1>3. Displaced # Nobody => Completion(Displaced.run, "cancelled") \in Events
  <2>1. Displaced # Nobody => Displaced.run \in Commits
    BY <1>2, BoundsAssumption DEF TypeOK, Commits
  <2> QED
    BY <2>1, EventType DEF Results
<1>4. /\ runs' \in Group /\ completions' \in Group /\ over' \in [Events -> Nat]
      /\ \A e \in {completions'.running, completions'.pending} : e # Nobody => e \in Events
      /\ completions.running # Nobody => completions'.running = completions.running
  <2>1. runs' \in Group
    BY <1>1, EnterType DEF QueuedRuns
  <2>2. CASE Displaced = Nobody
    BY <2>1, <2>2 DEF NotifyDisplaced, notifications, TypeOK, QueueOK
  <2>3. CASE Displaced # Nobody
    <3>1. Notify(Completion(Displaced.run, "cancelled"))
      BY <2>3 DEF NotifyDisplaced
    <3> QED
      BY <1>3, <2>1, <2>3, <3>1, NotifyType
  <2> QED
    BY <2>2, <2>3
<1>5. conclusion' \in [Commits -> Results \cup {"none"}] /\ conclusion'[c] = "none"
  BY DEF TypeOK, ConclusionsWhenQueued, Results
<1>6. \A d \in Commits \ {c} :
        conclusion'[d] # conclusion[d] =>
          conclusion[d] = "none" /\ conclusion'[d] = "cancelled" /\ d <= head /\ For(d) = Displaced
  <2> SUFFICES ASSUME NEW d \in Commits \ {c}, conclusion'[d] # conclusion[d]
               PROVE  conclusion[d] = "none" /\ conclusion'[d] = "cancelled" /\ d <= head /\ For(d) = Displaced
    OBVIOUS
  <2>1. For(d) = Displaced /\ conclusion'[d] = "cancelled"
    BY DEF ConclusionsWhenQueued
  <2>2. Displaced # Nobody /\ Displaced.run = d
    BY <2>1 DEF For, Nobody, Commits
  <2> QED
    BY <1>2, <2>1, <2>2 DEF TypeOK
<1>7. QueueOK'
  <2>1. runs'.running # Nobody /\ runs'.running # runs'.pending
    BY <1>1, EnterType DEF QueueOK, QueuedRuns
  <2>2. Queued(c)'
    BY <1>5 DEF Queued, Commits
  <2>3. \A e \in {runs'.running, runs'.pending} : e \in {runs.running, Nobody, For(c)}
    BY <1>1, EnterType DEF QueueOK, QueuedRuns
  <2>4. \A d \in Nat : runs.running = For(d) /\ Queued(d) => Queued(d)'
    <3> SUFFICES ASSUME NEW d \in Nat, runs.running = For(d), Queued(d)
                 PROVE  Queued(d)'
      OBVIOUS
    <3>1. runs.running # Nobody /\ d # c /\ d \in Commits /\ head \in Nat
      BY BoundsAssumption DEF Queued, TypeOK, Commits, For, Nobody
    <3>2. For(d) # Displaced
      BY <3>1 DEF QueueOK, Displaced
    <3>3. conclusion'[d] = conclusion[d] /\ attempt'[d] = attempt[d]
      BY <3>1, <3>2, <1>6
    <3> QED
      BY <3>1, <3>3 DEF Queued
  <2>5. \A e \in {runs'.running, runs'.pending} : e # Nobody => e = For(e.run) /\ Queued(e.run)'
    <3> SUFFICES ASSUME NEW e \in {runs'.running, runs'.pending}, e # Nobody
                 PROVE  e = For(e.run) /\ Queued(e.run)'
      OBVIOUS
    <3>1. CASE e = For(c)
      BY <3>1, <2>2 DEF For
    <3>2. CASE e = runs.running
      BY <3>2, <2>4, <1>1 DEF QueueOK, Entry
    <3> QED
      BY <3>1, <3>2, <2>3
  <2> QED
    BY <1>4, <2>1, <2>5 DEF QueueOK
<1> QED
  BY <1>4, <1>5, <1>6, <1>7

(* What a run of the Release workflow that ends leaves behind.              *)
LEMMA Ending ==
  ASSUME TypeOK, QueueOK, NEW c \in Commits, Running(c),
         NEW result \in {"success", "failure"},
         NEW published \in {"success", "failure", "skipped"},
         Ends(c, result, published), head' = head
  PROVE  /\ QueueOK'
         /\ {runs', completions'} \subseteq [running : Entry, pending : Entry]
         /\ over' \in [Events -> Nat]
         /\ step' \in [Commits -> {"none", "release", "setup", "verify", "done"} \cup Packages]
         /\ conclusion' \in [Commits -> Results \cup {"none"}]
         /\ job' \in [Commits -> [Attempts -> Results \cup {"skipped", "none"}]]
         /\ c <= head /\ conclusion[c] = "none" /\ attempt[c] \in Attempts
         /\ step'[c] = "done" /\ conclusion'[c] = result /\ job'[c][attempt[c]] = published
         /\ \A d \in Commits \ {c} : step'[d] = step[d] /\ conclusion'[d] = conclusion[d]
         /\ \A d \in Commits, a \in Attempts :
              d # c \/ a # attempt[c] => job'[d][a] = job[d][a]
         /\ completions.running # Nobody => completions'.running = completions.running
<1> USE DEF Ends
<1> DEFINE Group == [running : Entry, pending : Entry]
<1>1. runs \in Group /\ Completion(c, result) \in Events
  BY EventType DEF TypeOK, Results
<1>2. runs.running # Nobody /\ runs.running.run = c
  BY DEF Running, For, Nobody, Commits
<1>3. Queued(c)
  BY <1>2 DEF QueueOK
<1>4. c <= head /\ conclusion[c] = "none" /\ attempt[c] \in Attempts
  <2>1. attempt[c] \in 0 .. reruns + 1 /\ reruns \in 0 .. MaxReruns
    BY DEF TypeOK
  <2> QED
    BY <1>3, <2>1, BoundsAssumption DEF Queued, Attempts, TypeOK
<1>5. /\ step' \in [Commits -> {"none", "release", "setup", "verify", "done"} \cup Packages]
      /\ step'[c] = "done" /\ \A d \in Commits \ {c} : step'[d] = step[d]
  BY DEF TypeOK
<1>6. /\ conclusion' \in [Commits -> Results \cup {"none"}]
      /\ conclusion'[c] = result /\ \A d \in Commits \ {c} : conclusion'[d] = conclusion[d]
  BY DEF TypeOK, Results
<1>7. /\ job' \in [Commits -> [Attempts -> Results \cup {"skipped", "none"}]]
      /\ job'[c][attempt[c]] = published
      /\ \A d \in Commits, a \in Attempts :
           d # c \/ a # attempt[c] => job'[d][a] = job[d][a]
  BY <1>4 DEF TypeOK, Results
<1>8. /\ runs' \in Group /\ completions' \in Group /\ over' \in [Events -> Nat]
      /\ \A e \in {completions'.running, completions'.pending} : e # Nobody => e \in Events
      /\ completions.running # Nobody => completions'.running = completions.running
  BY <1>1, LeaveType, NotifyType
<1>9. QueueOK'
  <2>1. runs'.running = runs.pending /\ runs'.pending = Nobody
    BY <1>1, LeaveType
  <2>2. \A e \in {runs'.running, runs'.pending} : e # Nobody => e = For(e.run) /\ Queued(e.run)'
    <3> SUFFICES ASSUME runs.pending # Nobody
                 PROVE  runs.pending = For(runs.pending.run) /\ \A d \in Nat : d = runs.pending.run => Queued(d)'
      BY <2>1, <1>1 DEF Entry
    <3>1. runs.pending = For(runs.pending.run) /\ Queued(runs.pending.run)
      BY DEF QueueOK
    <3>2. runs.pending.run # c /\ runs.pending.run \in Commits
      BY <1>2, <3>1, BoundsAssumption DEF QueueOK, Running, Queued, TypeOK, Commits
    <3> QED
      BY <3>1, <3>2, <1>6 DEF Queued
  <2> QED
    BY <1>8, <2>1, <2>2 DEF QueueOK
<1> QED
  BY <1>4, <1>5, <1>6, <1>7, <1>8, <1>9

(* What a notification knows stays true: a job changes only while its run  *)
(* is running, and a run that is rerun has a later attempt.                 *)
LEMMA NoteStays ==
  ASSUME TypeOK, FutureBlank, NoteTrue, note' = note,
         completions.running # Nobody => completions'.running = completions.running,
         registry \subseteq registry',
         NoteTrue /\ note.step # "none" =>
           /\ job'[Notified][note.attempt] = job[Notified][note.attempt]
           /\ \/ attempt'[Notified] > note.attempt
              \/ attempt'[Notified] = attempt[Notified]
                 /\ conclusion'[Notified] = conclusion[Notified]
  PROVE  NoteTrue'
<1> SUFFICES ASSUME note.step # "none" PROVE NoteTrue'
  BY DEF NoteTrue
<1>1. completions.running # Nobody
  BY DEF NoteTrue, Completion, Nobody
<1>2. completions'.running = completions.running
  BY <1>1
<1>3. Notified' = Notified
  BY <1>2 DEF Notified
<1>4. \A v : Complete(v) => Complete(v)'
  BY DEF Complete
<1>5. \/ attempt'[Notified] > note.attempt
      \/ attempt'[Notified] = note.attempt /\ conclusion'[Notified] = "success"
  BY DEF NoteTrue
<1> QED
  BY <1>2, <1>3, <1>4, <1>5 DEF NoteTrue, JobOf

(* A run that ends keeps the invariant, whatever it released or published  *)
(* while ending, if its publish job tells the truth.                        *)
LEMMA EndKeepsInv ==
  ASSUME PipelineInv, NEW c \in Commits, Running(c),
         NEW result \in {"success", "failure"},
         NEW published \in {"success", "failure", "skipped"},
         Ends(c, result, published),
         UNCHANGED <<head, merged, created, pushes, again, note, announced, maintained>>,
         tagged \subseteq tagged', tagged' \subseteq merged,
         registry \subseteq registry', registry' \subseteq Packages \X tagged',
         failures' \in 0 .. MaxFailures,
         published = "success" /\ c \in merged => Complete(c) \/ \E r \in tagged : r > c
  PROVE  PipelineInv'
<1> USE DEF PipelineInv
<1>1. /\ QueueOK'
      /\ {runs', completions'} \subseteq [running : Entry, pending : Entry]
      /\ over' \in [Events -> Nat]
      /\ step' \in [Commits -> {"none", "release", "setup", "verify", "done"} \cup Packages]
      /\ conclusion' \in [Commits -> Results \cup {"none"}]
      /\ job' \in [Commits -> [Attempts -> Results \cup {"skipped", "none"}]]
      /\ c <= head /\ conclusion[c] = "none" /\ attempt[c] \in Attempts
      /\ step'[c] = "done" /\ conclusion'[c] = result /\ job'[c][attempt[c]] = published
      /\ \A d \in Commits \ {c} : step'[d] = step[d] /\ conclusion'[d] = conclusion[d]
      /\ \A d \in Commits, a \in Attempts :
           d # c \/ a # attempt[c] => job'[d][a] = job[d][a]
      /\ completions.running # Nobody => completions'.running = completions.running
  BY Ending
<1>2. attempt' = attempt /\ reruns' = reruns
  BY DEF Ends
<1>3. TypeOK'
  <2>1. /\ head' \in 0 .. MaxPushes /\ merged' \subseteq 1 .. head' /\ reruns' \in 0 .. MaxReruns
        /\ attempt' \in [Commits -> 0 .. reruns' + 1]
        /\ created' \in [Commits -> {0} \cup tagged']
        /\ maintained' \in 0 .. head' /\ announced' \in [Commits -> Nat]
        /\ again' \in [Commits -> 0 .. reruns']
        /\ pushes' \in [running : Entry, pending : Entry]
        /\ note' \in [step : {"none", "release", "jobs", "tell"}, attempt : 0 .. reruns' + 1,
                       published : BOOLEAN]
    BY <1>2 DEF TypeOK
  <2> QED
    BY <1>1, <2>1 DEF TypeOK
<1>4. FutureBlank'
  <2>1. \A d \in Commits : d > head => d # c
    BY <1>1 DEF TypeOK, Commits
  <2>2. \A d \in Commits : d > head =>
          conclusion'[d] = conclusion[d] /\ \A a \in Attempts : job'[d][a] = job[d][a]
    BY <1>1, <2>1
  <2> QED
    BY <1>2, <2>2 DEF FutureBlank
<1>5. ReleasedInOrder'
  BY DEF ReleasedInOrder
<1>6. CreatedOK'
  BY <1>1 DEF CreatedOK, Packages
<1>7. SuccessIsPublication'
  <2>1. \A v : Complete(v) => Complete(v)'
    BY DEF Complete
  <2>2. \A d \in Commits : conclusion'[d] = "success" =>
          attempt'[d] >= 1 /\ job'[d][attempt'[d]] # "none"
    <3> SUFFICES ASSUME NEW d \in Commits, conclusion'[d] = "success"
                 PROVE  attempt[d] >= 1 /\ job'[d][attempt[d]] # "none"
      BY <1>2
    <3>1. CASE d = c
      BY <3>1, <1>1 DEF Attempts
    <3>2. CASE d # c
      <4>1. attempt[d] >= 1 /\ job[d][attempt[d]] # "none"
        BY <3>2, <1>1 DEF SuccessIsPublication, JobOf
      <4>2. attempt[d] \in Attempts
        BY <4>1, BoundsAssumption DEF TypeOK, Attempts
      <4> QED
        BY <3>2, <4>1, <4>2, <1>1
    <3> QED
      BY <3>1, <3>2
  <2>3. \A d \in Commits, a \in Attempts : job'[d][a] = "success" /\ d \in merged =>
          Complete(d)' \/ \E r \in tagged' : r > d
    BY <1>1, <2>1 DEF SuccessIsPublication, JobOf
  <2> QED
    BY <2>2, <2>3 DEF SuccessIsPublication, JobOf
<1>8. NoteTrue'
  <2>1. NoteTrue /\ note.step # "none" =>
          /\ job'[Notified][note.attempt] = job[Notified][note.attempt]
          /\ \/ attempt[Notified] > note.attempt
             \/ conclusion'[Notified] = conclusion[Notified]
    <3> SUFFICES ASSUME NoteTrue, note.step # "none"
                 PROVE  /\ job'[Notified][note.attempt] = job[Notified][note.attempt]
                        /\ \/ attempt[Notified] > note.attempt
                           \/ conclusion'[Notified] = conclusion[Notified]
      OBVIOUS
    <3>1. /\ Notified \in Commits /\ note.attempt \in Attempts
          /\ \/ attempt[Notified] > note.attempt
             \/ attempt[Notified] = note.attempt /\ conclusion[Notified] = "success"
      BY DEF NoteTrue
    <3>2. Notified # c \/ note.attempt # attempt[c]
      BY <3>1, <1>1 DEF Attempts
    <3>3. CASE Notified # c
      BY <3>1, <3>3, <1>1
    <3>4. CASE Notified = c
      <4>1. attempt[Notified] > note.attempt
        BY <3>1, <3>4, <1>1
      <4>2. job'[Notified][note.attempt] = job[Notified][note.attempt]
        BY <3>1, <3>2, <3>4, <1>1
      <4> QED
        BY <4>1, <4>2
    <3> QED
      BY <3>3, <3>4
  <2> QED
    BY <1>1, <1>2, <2>1, NoteStays
<1>9. EvidenceIsPublication'
  BY DEF EvidenceIsPublication, Complete
<1> QED
  BY <1>1, <1>3, <1>4, <1>5, <1>6, <1>7, <1>8, <1>9

(* So does one that goes on to its next step. *)
LEMMA GoingKeepsInv ==
  ASSUME PipelineInv, NEW c \in Commits, Running(c),
         NEW s \in {"setup", "verify"} \cup Packages, Goes(c, s),
         UNCHANGED <<head, merged, pushes, again, note, announced, maintained, failures>>,
         tagged \subseteq tagged', tagged' \subseteq merged,
         registry \subseteq registry', registry' \subseteq Packages \X tagged',
         created' \in [Commits -> {0} \cup tagged'],
         \A d \in Commits \ {c} : created'[d] = created[d],
         created'[c] # 0, c \in merged => created'[c] >= c
  PROVE  PipelineInv'
<1> USE DEF PipelineInv, Goes, notifications
<1>1. c <= head
  <2>1. Queued(runs.running.run) /\ runs.running.run = c
    BY DEF QueueOK, Running, For, Nobody, Commits
  <2> QED
    BY <2>1 DEF Queued, TypeOK
<1>2. /\ step' \in [Commits -> {"none", "release", "setup", "verify", "done"} \cup Packages]
      /\ \A d \in Commits \ {c} : step'[d] = step[d]
  BY DEF TypeOK
<1>3. TypeOK'
  <2>1. /\ head' \in 0 .. MaxPushes /\ merged' \subseteq 1 .. head' /\ reruns' \in 0 .. MaxReruns
        /\ attempt' \in [Commits -> 0 .. reruns' + 1]
        /\ conclusion' \in [Commits -> Results \cup {"none"}]
        /\ job' \in [Commits -> [Attempts -> Results \cup {"skipped", "none"}]]
        /\ maintained' \in 0 .. head' /\ announced' \in [Commits -> Nat] /\ failures' \in 0 .. MaxFailures
        /\ over' \in [Events -> Nat] /\ again' \in [Commits -> 0 .. reruns']
        /\ {runs', pushes', completions'} \subseteq [running : Entry, pending : Entry]
        /\ note' \in [step : {"none", "release", "jobs", "tell"}, attempt : 0 .. reruns' + 1,
                       published : BOOLEAN]
    BY DEF TypeOK
  <2> QED
    BY <1>2, <2>1 DEF TypeOK
<1>4. QueueOK'
  BY DEF QueueOK, Queued
<1>5. FutureBlank'
  <2>1. \A d \in Commits : d > head => d # c
    BY <1>1 DEF TypeOK, Commits
  <2> QED
    BY <2>1 DEF FutureBlank
<1>6. ReleasedInOrder'
  BY DEF ReleasedInOrder
<1>7. CreatedOK'
  BY <1>2 DEF CreatedOK
<1>8. SuccessIsPublication' /\ EvidenceIsPublication'
  BY DEF SuccessIsPublication, EvidenceIsPublication, JobOf, Complete
<1>9. NoteTrue'
  BY NoteStays
<1> QED
  BY <1>3, <1>4, <1>5, <1>6, <1>7, <1>8, <1>9

-----------------------------------------------------------------------------
LEMMA RunStepInv ==
  ASSUME PipelineInv, NEW c \in Commits, RunStep(c)
  PROVE  PipelineInv'
<1>1. TypeOK /\ ReleasedInOrder /\ CreatedOK
  BY DEF PipelineInv
<1>2. registry \subseteq Packages \X tagged /\ tagged \subseteq merged
      /\ failures \in 0 .. MaxFailures
      /\ created \in [Commits -> {0} \cup tagged]
      /\ \A v \in merged : v \in Nat /\ v # 0
  BY <1>1, BoundsAssumption DEF TypeOK
<1>3. Fault => failures' \in 0 .. MaxFailures
  BY <1>2, BoundsAssumption DEF Fault
<1>4. ASSUME step[c] \in {"setup", "verify"} \cup Packages
      PROVE  created[c] \in tagged /\ created[c] # 0 /\ (c \in merged => created[c] >= c)
  BY <1>1, <1>2, <1>4 DEF CreatedOK
<1>5. CASE ReleasePlease(c)
  <2>1. ASSUME NEW v \in merged \ tagged, created' = [created EXCEPT ![c] = v], Goes(c, "setup")
        PROVE  PipelineInv'
    <3>1. v \in Nat /\ v # 0
      BY <1>2, <2>1
    <3>2. c \in merged => v >= c
      BY <1>1, <2>1, <3>1 DEF ReleasedInOrder, Commits
    <3>3. created' \in [Commits -> {0} \cup tagged'] /\ created'[c] = v
          /\ \A d \in Commits \ {c} : created'[d] = created[d]
      BY <1>2, <1>5, <2>1 DEF ReleasePlease
    <3>4. registry' \subseteq Packages \X tagged'
      BY <1>2, <1>5 DEF ReleasePlease
    <3> QED
      BY <1>2, <1>5, <2>1, <3>1, <3>2, <3>3, <3>4, GoingKeepsInv
         DEF ReleasePlease, At, told
  <2>2. ASSUME Ends(c, "success", "skipped"), created' = created
        PROVE  PipelineInv'
    BY <1>2, <1>5, <2>2, EndKeepsInv DEF ReleasePlease, At, told
  <2> QED
    BY <1>5, <2>1, <2>2 DEF ReleasePlease
<1>6. CASE ReleasePleaseFails(c)
  <2>1. tagged \subseteq tagged' /\ tagged' \subseteq merged /\ registry' \subseteq Packages \X tagged'
    BY <1>2, <1>6 DEF ReleasePleaseFails
  <2> QED
    BY <1>3, <1>6, <2>1, EndKeepsInv DEF ReleasePleaseFails, At, told
<1>7. CASE SetUp(c)
  <2>1. CASE Goes(c, "proto") /\ UNCHANGED failures
    <3>1. created[c] # 0 /\ (c \in merged => created[c] >= c)
      BY <1>4, <1>7 DEF SetUp, At
    <3> QED
      BY <1>2, <1>7, <2>1, <3>1, GoingKeepsInv DEF SetUp, At, github, told, Packages
  <2>2. CASE Fault /\ Ends(c, "failure", "failure")
    BY <1>2, <1>3, <1>7, <2>2, EndKeepsInv DEF SetUp, At, github, told
  <2> QED
    BY <1>7, <2>1, <2>2 DEF SetUp
<1>8. ASSUME NEW p \in Packages, NEW next \in {"event", "verify"}, Publish(c, p, next)
      PROVE  PipelineInv'
  <2>1. created[c] \in tagged /\ created[c] # 0 /\ (c \in merged => created[c] >= c)
    BY <1>4, <1>8 DEF Publish, At
  <2>2. registry' \in {registry, registry \cup {<<p, created[c]>>}}
    BY <1>8 DEF Publish
  <2>3. registry \subseteq registry' /\ registry' \subseteq Packages \X tagged'
    BY <1>2, <1>8, <2>1, <2>2 DEF Publish
  <2>4. CASE Goes(c, next) /\ UNCHANGED failures
    BY <1>2, <1>8, <2>1, <2>3, <2>4, GoingKeepsInv DEF Publish, At, told, Packages
  <2>5. CASE Ends(c, "failure", "failure") /\ failures' \in 0 .. MaxFailures
    BY <1>2, <1>8, <2>3, <2>5, EndKeepsInv DEF Publish, At, told
  <2> QED
    BY <1>2, <1>3, <1>8, <2>4, <2>5 DEF Publish
<1>9. CASE Verify(c)
  <2>1. created[c] \in tagged /\ (c \in merged => created[c] >= c)
    BY <1>4, <1>9 DEF Verify, At
  <2>2. Complete(created[c]) /\ c \in merged => Complete(c) \/ \E r \in tagged : r > c
    <3>1. created[c] \in Nat
      BY <1>2, <2>1
    <3> QED
      BY <2>1, <3>1 DEF Commits
  <2>3. CASE Complete(created[c]) /\ Ends(c, "success", "success") /\ UNCHANGED failures
    BY <1>2, <1>9, <2>2, <2>3, EndKeepsInv DEF Verify, At, github, told
  <2>4. CASE Ends(c, "failure", "failure") /\ failures' \in 0 .. MaxFailures
    BY <1>2, <1>9, <2>4, EndKeepsInv DEF Verify, At, github, told
  <2> QED
    BY <1>2, <1>3, <1>9, <2>3, <2>4 DEF Verify
<1> QED
  BY <1>5, <1>6, <1>7, <1>8, <1>9 DEF RunStep, PublishProto, PublishEvent, Packages

(* A run that is queued: by a push (of commit c, for the first time) or by *)
(* a rerun.                                                                 *)
LEMMA QueueingKeepsInv ==
  ASSUME PipelineInv, NEW c \in Commits,
         runs.running # For(c),
         runs' = QueuedRuns(c), NotifyDisplaced,
         conclusion' = ConclusionsWhenQueued(c),
         head' \in {head, c}, head <= head', c <= head', head' <= MaxPushes,
         merged' = merged \/ (merged = tagged /\ c = head + 1 /\ head' = c /\ merged' = merged \cup {c}),
         attempt' = [attempt EXCEPT ![c] = attempt[c] + 1], attempt'[c] <= reruns' + 1,
         reruns <= reruns', reruns' \in 0 .. MaxReruns,
         step' \in [Commits -> {"none", "release", "setup", "verify", "done"} \cup Packages],
         \A d \in Commits \ {c} : step'[d] = step[d] /\ created'[d] = created[d],
         created' \in [Commits -> {0} \cup tagged], created'[c] \in {0, created[c]},
         step'[c] = "release" \/ (step'[c] = "setup" /\ created'[c] # 0),
         UNCHANGED <<tagged, registry, job, again, note, told, failures>>,
         pushes' \in [running : Entry, pending : Entry]
  PROVE  PipelineInv'
<1> USE DEF PipelineInv
<1>1. /\ head \in Nat /\ attempt \in [Commits -> Nat] /\ reruns \in Nat /\ c \in Nat
      /\ merged \subseteq 1 .. head
  BY BoundsAssumption DEF TypeOK, Commits
<1>2. attempt'[c] = attempt[c] + 1 /\ \A d \in Commits \ {c} : attempt'[d] = attempt[d]
  BY <1>1
<1>3. /\ QueueOK'
      /\ {runs', completions'} \subseteq [running : Entry, pending : Entry]
      /\ over' \in [Events -> Nat]
      /\ conclusion' \in [Commits -> Results \cup {"none"}]
      /\ conclusion'[c] = "none"
      /\ completions.running # Nobody => completions'.running = completions.running
      /\ \A d \in Commits \ {c} :
           conclusion'[d] # conclusion[d] =>
             conclusion[d] = "none" /\ conclusion'[d] = "cancelled" /\ d <= head
  BY <1>1, <1>2, Queueing
<1>4. TypeOK'
  <2>1. attempt' \in [Commits -> 0 .. reruns' + 1]
    BY <1>1, <1>2 DEF TypeOK
  <2>2. head' \in 0 .. MaxPushes /\ merged' \subseteq 1 .. head' /\ tagged' \subseteq merged'
    <3>1. CASE merged' = merged
      BY <1>1, <3>1 DEF TypeOK, Commits
    <3>2. CASE head' = c /\ c = head + 1 /\ merged' = merged \cup {c}
      BY <1>1, <3>2 DEF TypeOK, Commits
    <3> QED
      BY <3>1, <3>2
  <2>3. maintained' \in 0 .. head'
    BY <1>1 DEF TypeOK, told
  <2>4. note' \in [step : {"none", "release", "jobs", "tell"}, attempt : 0 .. reruns' + 1,
                   published : BOOLEAN]
    BY <1>1 DEF TypeOK
  <2>5. /\ registry' \subseteq Packages \X tagged'
        /\ created' \in [Commits -> {0} \cup tagged']
        /\ job' \in [Commits -> [Attempts -> Results \cup {"skipped", "none"}]]
        /\ announced' \in [Commits -> Nat] /\ failures' \in 0 .. MaxFailures
    BY DEF TypeOK, told
  <2>6. again' \in [Commits -> 0 .. reruns']
    BY <1>1 DEF TypeOK
  <2> QED
    BY <1>3, <2>1, <2>2, <2>3, <2>4, <2>5, <2>6 DEF TypeOK
<1>5. FutureBlank'
  <2>1. \A d \in Commits : d > head' => d # c /\ d > head
    BY <1>1 DEF Commits
  <2>2. \A d \in Commits : d > head' => conclusion'[d] = conclusion[d]
    BY <1>3, <1>1, <2>1 DEF Commits
  <2> QED
    BY <2>1, <2>2 DEF FutureBlank
<1>6. ReleasedInOrder'
  <2>1. CASE merged' = merged
    BY <2>1 DEF ReleasedInOrder
  <2>2. CASE merged = tagged /\ c = head + 1 /\ merged' = merged \cup {c}
    <3>1. \A d, r \in merged' : r < d => r \in merged
      BY <1>1, <2>2
    <3> QED
      BY <2>2, <3>1 DEF ReleasedInOrder
  <2> QED
    BY <2>1, <2>2
<1>7. c \in merged' /\ c \notin merged =>
        created'[c] = 0 /\ \A a \in Attempts : job'[c][a] = "none"
  BY <1>1 DEF FutureBlank
<1>8. CreatedOK'
  <2>1. \A d \in Commits : d # c => (d \in merged' => d \in merged)
    OBVIOUS
  <2>2. \A d \in Commits \ {c} :
          /\ step'[d] \in {"setup", "verify"} \cup Packages => created'[d] # 0
          /\ d \in merged' /\ created'[d] # 0 => created'[d] >= d
    BY <2>1 DEF CreatedOK
  <2>3. /\ step'[c] \in {"setup", "verify"} \cup Packages => created'[c] # 0
        /\ c \in merged' /\ created'[c] # 0 => created'[c] >= c
    BY <1>7 DEF CreatedOK, Packages
  <2> QED
    BY <2>2, <2>3 DEF CreatedOK
<1>9. SuccessIsPublication'
  <2>1. \A d \in Commits : conclusion'[d] = "success" =>
          attempt'[d] >= 1 /\ job'[d][attempt'[d]] # "none"
    BY <1>2, <1>3 DEF SuccessIsPublication, JobOf
  <2>2. \A d \in Commits, a \in Attempts : job'[d][a] = "success" /\ d \in merged' =>
          Complete(d)' \/ \E r \in tagged' : r > d
    BY <1>7 DEF SuccessIsPublication, JobOf, Complete
  <2> QED
    BY <2>1, <2>2 DEF SuccessIsPublication, JobOf
<1>10. NoteTrue'
  <2>1. ASSUME NoteTrue, note.step # "none"
        PROVE  \/ attempt'[Notified] > note.attempt
               \/ attempt'[Notified] = attempt[Notified]
                  /\ conclusion'[Notified] = conclusion[Notified]
    <3>1. /\ Notified \in Commits /\ note.attempt \in Nat
          /\ \/ attempt[Notified] > note.attempt
             \/ attempt[Notified] = note.attempt /\ conclusion[Notified] = "success"
      BY <2>1 DEF NoteTrue, Attempts
    <3>2. CASE Notified = c
      BY <3>1, <3>2, <1>1, <1>2
    <3>3. CASE Notified # c
      BY <3>1, <3>3, <1>2, <1>3
    <3> QED
      BY <3>2, <3>3
  <2> QED
    BY <1>3, <2>1, NoteStays
<1>11. EvidenceIsPublication'
  BY DEF EvidenceIsPublication, Complete, told
<1> QED
  BY <1>3, <1>4, <1>5, <1>6, <1>8, <1>9, <1>10, <1>11

LEMMA PushInv == PipelineInv /\ Push => PipelineInv'
<1> SUFFICES ASSUME PipelineInv, Push PROVE PipelineInv'
  OBVIOUS
<1> DEFINE c == head + 1
<1>1. /\ c \in Commits /\ head \in Nat /\ c <= MaxPushes
      /\ runs.running \in Entry /\ pushes \in [running : Entry, pending : Entry]
      /\ attempt \in [Commits -> Nat] /\ reruns \in 0 .. MaxReruns
  BY BoundsAssumption DEF PipelineInv, TypeOK, Push, Commits
<1>2. runs.running # For(c) /\ created[c] = 0 /\ attempt[c] = 0
  BY <1>1 DEF PipelineInv, QueueOK, Queued, FutureBlank, For, Nobody
<1>3. pushes' \in [running : Entry, pending : Entry]
  <2>1. For(c) \in Entry
    BY <1>1 DEF For, Entry
  <2> QED
    BY <1>1, <2>1, EnterType DEF Push
<1>4. /\ attempt' = [attempt EXCEPT ![c] = attempt[c] + 1] /\ attempt'[c] <= reruns' + 1
      /\ reruns' = reruns /\ created' = created
  <2>1. attempt' = [attempt EXCEPT ![c] = 1] /\ reruns' = reruns /\ created' = created
    BY DEF Push
  <2>2. attempt[c] + 1 = 1
    BY <1>2
  <2>3. attempt'[c] = 1
    BY <1>1, <2>1
  <2>4. 1 <= reruns' + 1
    BY <1>1, <2>1
  <2> QED
    BY <2>1, <2>2, <2>3, <2>4, Zenon
<1>5. /\ step' \in [Commits -> {"none", "release", "setup", "verify", "done"} \cup Packages]
      /\ created' \in [Commits -> {0} \cup tagged]
      /\ step'[c] = "release" /\ \A d \in Commits \ {c} : step'[d] = step[d]
  <2>1. step' = [step EXCEPT ![c] = "release"] /\ created' = created
    BY DEF Push
  <2>2. /\ step \in [Commits -> {"none", "release", "setup", "verify", "done"} \cup Packages]
        /\ created \in [Commits -> {0} \cup tagged]
    BY DEF PipelineInv, TypeOK
  <2> QED
    BY <1>1, <2>1, <2>2
<1>6. /\ runs' = QueuedRuns(c) /\ NotifyDisplaced
      /\ conclusion' = ConclusionsWhenQueued(c) /\ head' = c
      /\ merged' = merged \/ (merged = tagged /\ merged' = merged \cup {c})
      /\ UNCHANGED <<tagged, registry, job, again, note, told, failures>>
  <2>1. runs' = QueuedRuns(c) /\ NotifyDisplaced
    BY Zenon DEF Push
  <2>2. conclusion' = ConclusionsWhenQueued(c) /\ head' = c
    BY Zenon DEF Push
  <2>3. merged' = merged \/ (merged = tagged /\ merged' = merged \cup {c})
    BY DEF Push
  <2>4. UNCHANGED <<tagged, registry, job, again, note, told, failures>>
    BY DEF Push, told
  <2> QED
    BY <2>1, <2>2, <2>3, <2>4
<1>7. c \in Commits /\ head' \in {head, c} /\ head <= head' /\ c <= head' /\ head' <= MaxPushes
      /\ reruns <= reruns' /\ reruns' \in 0 .. MaxReruns
  BY <1>1, <1>4, <1>6
<1>8. /\ \A d \in Commits \ {c} : step'[d] = step[d] /\ created'[d] = created[d]
      /\ created'[c] \in {0, created[c]} /\ c = head + 1
  BY <1>4, <1>5
<1> HIDE DEF c
<1>9. merged' = merged \/ (merged = tagged /\ c = head + 1 /\ head' = c /\ merged' = merged \cup {c})
  BY <1>6, <1>8
<1> QED
  BY <1>2, <1>3, <1>4, <1>5, <1>6, <1>7, <1>8, <1>9, QueueingKeepsInv

LEMMA RerunInv ==
  ASSUME PipelineInv, NEW c \in Commits, RerunFailed(c) \/ RerunAll(c)
  PROVE  PipelineInv'
<1>1. Rerun(c)
  BY DEF RerunFailed, RerunAll
<1>2. /\ head \in 0 .. MaxPushes /\ reruns \in 0 .. MaxReruns
      /\ attempt \in [Commits -> 0 .. reruns + 1]
      /\ step \in [Commits -> {"none", "release", "setup", "verify", "done"} \cup Packages]
      /\ created \in [Commits -> {0} \cup tagged]
      /\ pushes \in [running : Entry, pending : Entry]
  BY DEF PipelineInv, TypeOK
<1>3. conclusion[c] # "none" /\ c <= head
  BY <1>1, <1>2 DEF Rerun, PipelineInv, FutureBlank, Commits
<1>4. runs.running # For(c)
  <2> SUFFICES ASSUME runs.running = For(c) PROVE FALSE
    OBVIOUS
  <2>1. runs.running # Nobody /\ runs.running.run = c
    BY DEF For, Nobody, Commits
  <2> QED
    BY <1>3, <2>1 DEF PipelineInv, QueueOK, Queued
<1>5. /\ runs' = QueuedRuns(c) /\ NotifyDisplaced
      /\ conclusion' = ConclusionsWhenQueued(c)
      /\ attempt' = [attempt EXCEPT ![c] = attempt[c] + 1]
      /\ UNCHANGED <<tagged, registry, job, again, note, told, failures>>
      /\ UNCHANGED <<head, merged, pushes>>
  BY <1>1 DEF Rerun, github
<1>6. reruns' = reruns + 1 /\ reruns' \in 0 .. MaxReruns /\ reruns <= reruns'
  BY <1>1, <1>2, BoundsAssumption DEF Rerun, Asked
<1>7. attempt'[c] <= reruns' + 1
  <2>1. attempt'[c] = attempt[c] + 1
    BY <1>2, <1>5
  <2> QED
    BY <1>2, <1>6, <2>1
<1>8. head' \in {head, c} /\ head <= head' /\ c <= head' /\ head' <= MaxPushes
  BY <1>2, <1>3, <1>5, BoundsAssumption
<1>9. /\ step' \in [Commits -> {"none", "release", "setup", "verify", "done"} \cup Packages]
      /\ created' \in [Commits -> {0} \cup tagged] /\ created'[c] \in {0, created[c]}
      /\ \A d \in Commits \ {c} : step'[d] = step[d] /\ created'[d] = created[d]
      /\ step'[c] = "release" \/ (step'[c] = "setup" /\ created'[c] # 0)
  <2>1. CASE RerunFailed(c)
    <3>1. step' = [step EXCEPT ![c] = IF created[c] = 0 THEN "release" ELSE "setup"]
          /\ created' = created
      BY <2>1 DEF RerunFailed
    <3> QED
      BY <1>2, <3>1
  <2>2. CASE RerunAll(c)
    <3>1. step' = [step EXCEPT ![c] = "release"] /\ created' = [created EXCEPT ![c] = 0]
      BY <2>2 DEF RerunAll
    <3> QED
      BY <1>2, <3>1
  <2> QED
    BY <2>1, <2>2
<1>10. pushes' \in [running : Entry, pending : Entry]
  BY <1>2, <1>5
<1> QED
  BY <1>4, <1>5, <1>6, <1>7, <1>8, <1>9, <1>10, QueueingKeepsInv

-----------------------------------------------------------------------------
(* The notification reads; what it has read holds when it tells.            *)
LEMMA NoteStepInv == PipelineInv /\ (NoteStep \/ NoteFails) => PipelineInv'
<1> SUFFICES ASSUME PipelineInv, NoteStep \/ NoteFails PROVE PipelineInv'
  OBVIOUS
<1> USE DEF PipelineInv
<1> DEFINE Group == [running : Entry, pending : Entry]
<1>1. pushes \in Group /\ completions \in Group /\ Nobody \in Entry
      /\ head \in 0 .. MaxPushes /\ maintained \in 0 .. head /\ failures \in 0 .. MaxFailures
      /\ announced \in [Commits -> Nat] /\ over \in [Events -> Nat]
      /\ note \in [step : {"none", "release", "jobs", "tell"}, attempt : 0 .. reruns + 1,
                    published : BOOLEAN]
  BY NobodyType DEF TypeOK
<1>2. UNCHANGED <<github, release, runs, again>>
  BY DEF NoteStep, NoteFails, Maintain, MaintainEnds, Skip, ReadRun, ReadRelease, ReadJobs, Tell
<1>3. failures' \in 0 .. MaxFailures
  <2>1. failures' = failures \/ Fault
    BY DEF NoteStep, NoteFails, Maintain, MaintainEnds, Skip, ReadRun, ReadRelease, ReadJobs, Tell
  <2> QED
    BY <1>1, <2>1, BoundsAssumption DEF Fault
<1>4. pushes' \in Group
  <2>1. pushes' \in {pushes, Leave(pushes), Told(pushes)}
    BY DEF NoteStep, NoteFails, Maintain, MaintainEnds, Skip, ReadRun, ReadRelease, ReadJobs, Tell
  <2>2. Told(pushes) \in Group
    BY <1>1 DEF Told, Entry, Results
  <2> QED
    BY <1>1, <2>1, <2>2, LeaveType
<1>5. completions' \in {completions, Leave(completions)} /\ over' \in {over, WithOver(completions.running)}
  BY DEF NoteStep, NoteFails, Maintain, MaintainEnds, Skip, ReadRun, ReadRelease, ReadJobs, Tell,
         Dismiss, notifications
<1>6. /\ completions' \in Group /\ over' \in [Events -> Nat]
      /\ \A e \in {completions'.running, completions'.pending} : e # Nobody => e \in Events
  <2>1. WithOver(completions.running) \in [Events -> Nat]
    BY <1>1, OverType DEF QueueOK
  <2> QED
    BY <1>1, <1>5, <2>1, LeaveType DEF QueueOK
<1>7. maintained' \in 0 .. head'
  <2>1. maintained' \in {maintained, head}
    BY DEF NoteStep, NoteFails, Maintain, MaintainEnds, Skip, ReadRun, ReadRelease, ReadJobs, Tell, told
  <2> QED
    BY <1>1, <1>2, <2>1, BoundsAssumption DEF github
<1>8. QueueOK'
  BY <1>2, <1>6 DEF QueueOK, Queued, github, release
<1>9. /\ FutureBlank' /\ ReleasedInOrder' /\ CreatedOK' /\ SuccessIsPublication'
      /\ \A v : Complete(v)' = Complete(v)
  BY <1>2 DEF FutureBlank, ReleasedInOrder, CreatedOK, SuccessIsPublication, JobOf, Complete,
              github, release
<1>10. ASSUME announced' = announced /\ NoteTrue'
             /\ note' \in [step : {"none", "release", "jobs", "tell"}, attempt : 0 .. reruns + 1,
                           published : BOOLEAN]
       PROVE  PipelineInv'
  <2>1. TypeOK'
    BY <1>1, <1>2, <1>3, <1>4, <1>6, <1>7, <1>10 DEF TypeOK, github, release
  <2>2. EvidenceIsPublication'
    BY <1>9, <1>10 DEF EvidenceIsPublication
  <2> QED
    BY <1>8, <1>9, <1>10, <2>1, <2>2
<1>11. NoNote \in [step : {"none", "release", "jobs", "tell"}, attempt : 0 .. reruns + 1,
                    published : BOOLEAN]
  BY DEF NoNote, TypeOK
<1>12. CASE Dismiss /\ announced' = announced
  <2>1. NoteTrue'
    BY <1>12, NobodyType DEF Dismiss, NoteTrue
  <2> QED
    BY <1>10, <1>11, <1>12, <2>1 DEF Dismiss
<1>13. CASE Maintain
  BY <1>1, <1>2, <1>10, <1>13, NoteStays DEF Maintain, github, release, notifications
<1>14. CASE Skip
  BY <1>12, <1>14 DEF Skip, told
<1>15. ASSUME note.step = "tell", Dismiss,
              announced' \in {announced, IF note.published THEN Announced ELSE announced}
       PROVE  PipelineInv'
  <2>1. Notified \in Commits /\ (note.published => Complete(Notified))
    BY <1>15 DEF NoteTrue
  <2>2. CASE note.published /\ announced' = Announced
    <3>1. announced' = [announced EXCEPT ![Notified] = announced[Notified] + 1]
      BY <2>2 DEF Announced
    <3>2. announced' \in [Commits -> Nat]
      BY <1>1, <2>1, <3>1
    <3>3. EvidenceIsPublication'
      <4>1. \A v \in Commits : v # Notified => announced'[v] = announced[v]
        BY <1>1, <3>1
      <4> QED
        BY <1>9, <2>1, <2>2, <4>1 DEF EvidenceIsPublication
    <3>4. TypeOK'
      BY <1>1, <1>2, <1>3, <1>4, <1>6, <1>7, <1>11, <1>15, <3>2 DEF TypeOK, github, release, Dismiss
    <3>5. NoteTrue'
      BY <1>15, NobodyType DEF Dismiss, NoteTrue
    <3> QED
      BY <1>8, <1>9, <3>3, <3>4, <3>5
  <2> QED
    BY <1>12, <1>15, <2>2
<1>16. CASE ReadRun
  <2>1. CASE conclusion[Notified] = "success"
    <3> DEFINE n == [NoNote EXCEPT !.step = "release", !.attempt = attempt[Notified]]
    <3>1. note' = n /\ completions' = completions /\ over' = over
          /\ completions.running = Completion(Notified, "success") /\ announced' = announced
      BY <1>16, <2>1 DEF ReadRun, told, notifications
    <3>2. Notified \in Commits
      <4>1. completions.running # Nobody
        BY <3>1 DEF Completion, Nobody
      <4> QED
        BY <4>1 DEF QueueOK, Notified, Events
    <3>3. attempt[Notified] \in 1 .. reruns + 1 /\ JobOf(Notified, attempt[Notified]) # "none"
      BY <2>1, <3>2 DEF SuccessIsPublication, TypeOK
    <3>4. attempt[Notified] \in Attempts
      BY <3>3, BoundsAssumption DEF Attempts, TypeOK
    <3>5. n.step = "release" /\ n.attempt = attempt[Notified]
          /\ n \in [step : {"none", "release", "jobs", "tell"}, attempt : 0 .. reruns + 1,
                    published : BOOLEAN]
      <4>1. attempt[Notified] \in 0 .. reruns + 1
        BY <3>3, BoundsAssumption DEF TypeOK
      <4> QED
        BY <1>11, <4>1
    <3>6. Notified' = Notified /\ job' = job /\ attempt' = attempt /\ conclusion' = conclusion
      BY <1>2, <3>1 DEF Notified, release
    <3>7. NoteTrue'
      BY <2>1, <3>1, <3>2, <3>3, <3>4, <3>5, <3>6 DEF NoteTrue, JobOf
    <3> QED
      BY <1>10, <3>1, <3>3, <3>5, <3>7
  <2>2. CASE conclusion[Notified] # "success"
    BY <1>12, <1>16, <2>2 DEF ReadRun, told
  <2> QED
    BY <2>1, <2>2
<1>17. CASE ReadRelease
  <2>1. CASE IsLatest(Notified)
    <3>1. note' = [note EXCEPT !.step = "jobs"] /\ completions' = completions
          /\ announced' = announced /\ note.step = "release"
      BY <1>17, <2>1 DEF ReadRelease, told, notifications
    <3>2. note'.step = "jobs" /\ note'.attempt = note.attempt
          /\ note' \in [step : {"none", "release", "jobs", "tell"}, attempt : 0 .. reruns + 1,
                        published : BOOLEAN]
      BY <1>1, <3>1
    <3>3. JobOf(Notified, note.attempt) = "success" => Complete(Notified)
      <4>1. Notified \in tagged /\ tagged \subseteq merged /\ \A v \in tagged : v <= Notified
            /\ tagged \subseteq Nat /\ Notified \in Commits /\ note.attempt \in Attempts
        BY <2>1, <3>1, BoundsAssumption DEF IsLatest, TypeOK, NoteTrue
      <4>2. \A r \in tagged : ~(r > Notified)
        BY <4>1
      <4> QED
        BY <4>1, <4>2 DEF SuccessIsPublication
    <3>4. Notified' = Notified /\ job' = job /\ attempt' = attempt /\ conclusion' = conclusion
      BY <1>2, <3>1 DEF Notified, release
    <3>5. NoteTrue'
      BY <1>9, <3>1, <3>2, <3>3, <3>4 DEF NoteTrue, JobOf
    <3> QED
      BY <1>10, <3>1, <3>2, <3>5
  <2>2. CASE ~IsLatest(Notified)
    BY <1>12, <1>17, <2>2 DEF ReadRelease, told
  <2> QED
    BY <2>1, <2>2
<1>18. CASE ReadJobs
  <2>1. PICK unended \in BOOLEAN :
          note' = [note EXCEPT !.step = "tell",
                     !.published = PublisherJobsSucceeded(note.attempt, Jobs(Notified, unended))]
    BY <1>18 DEF ReadJobs
  <2>2. note.step = "jobs" /\ completions' = completions /\ announced' = announced
    BY <1>18 DEF ReadJobs, told, notifications
  <2> DEFINE told1 == PublisherJobsSucceeded(note.attempt, Jobs(Notified, unended))
  <2>3. told1 \in BOOLEAN
    BY DEF PublisherJobsSucceeded
  <2>4. note'.step = "tell" /\ note'.attempt = note.attempt /\ note'.published = told1
        /\ note' \in [step : {"none", "release", "jobs", "tell"}, attempt : 0 .. reruns + 1,
                      published : BOOLEAN]
    BY <1>1, <2>1, <2>3
  <2>5. told1 => Complete(Notified)
    <3> SUFFICES ASSUME told1 PROVE Complete(Notified)
      OBVIOUS
    <3>1. /\ Notified \in Commits /\ note.attempt \in Attempts
          /\ JobOf(Notified, note.attempt) # "none" /\ note.attempt <= attempt[Notified]
      BY <2>2 DEF NoteTrue, TypeOK, Attempts
    <3>2. [attempt |-> note.attempt, conclusion |-> job[Notified][note.attempt]]
            \in Jobs(Notified, unended)
      BY <3>1 DEF Jobs, JobOf
    <3>3. job[Notified][note.attempt] = "success"
      BY <3>2 DEF PublisherJobsSucceeded
    <3> QED
      BY <2>2, <3>3 DEF NoteTrue, JobOf
  <2>6. Notified' = Notified /\ job' = job /\ attempt' = attempt /\ conclusion' = conclusion
    BY <1>2, <2>2 DEF Notified, release
  <2>7. NoteTrue'
    BY <1>9, <2>2, <2>4, <2>5, <2>6 DEF NoteTrue, JobOf
  <2> QED
    BY <1>10, <2>2, <2>4, <2>7
<1>19. CASE Tell \/ NoteFails
  BY <1>12, <1>15, <1>19 DEF Tell, NoteFails, told
<1>20. CASE MaintainEnds
  BY <1>1, <1>2, <1>10, <1>20, NoteStays DEF MaintainEnds, github, release, told, notifications
<1> QED
  BY <1>13, <1>14, <1>16, <1>17, <1>18, <1>19, <1>20 DEF NoteStep

(* A notification that is queued again changes nothing of what is known.    *)
LEMMA RerunNoteInv ==
  ASSUME PipelineInv,
         (\E c \in Commits : RerunMaintenance(c)) \/ (\E e \in Events : RerunNotification(e))
  PROVE  PipelineInv'
<1> USE DEF PipelineInv
<1>1. /\ pushes \in [running : Entry, pending : Entry]
      /\ completions \in [running : Entry, pending : Entry]
      /\ over \in [Events -> Nat] /\ again \in [Commits -> 0 .. reruns]
      /\ reruns \in 0 .. MaxReruns
  BY DEF TypeOK
<1>2. /\ UNCHANGED <<head, merged, tagged, registry, attempt, step, created, conclusion, job>>
      /\ UNCHANGED <<runs, note, announced, maintained, failures>>
      /\ reruns' = reruns + 1 /\ reruns' \in 0 .. MaxReruns
  BY <1>1, BoundsAssumption DEF RerunMaintenance, RerunNotification, Asked, github, told
<1>3. /\ pushes' \in [running : Entry, pending : Entry]
      /\ completions' \in [running : Entry, pending : Entry]
      /\ over' \in [Events -> Nat] /\ again' \in [Commits -> 0 .. reruns']
      /\ \A d \in {completions'.running, completions'.pending} : d # Nobody => d \in Events
      /\ completions.running # Nobody => completions'.running = completions.running
  <2>1. again \in [Commits -> 0 .. reruns']
    BY <1>1, <1>2, BoundsAssumption
  <2>2. ASSUME NEW c \in Commits, RerunMaintenance(c)
        PROVE  <1>3!1 /\ <1>3!2 /\ <1>3!3 /\ <1>3!4 /\ <1>3!5
    <3>1. For(c) \in Entry
      BY BoundsAssumption DEF For, Entry, Commits
    <3>2. pushes' \in [running : Entry, pending : Entry]
      BY <1>1, <2>2, <3>1, EnterType DEF RerunMaintenance
    <3> QED
      BY <1>1, <2>1, <2>2, <3>2 DEF RerunMaintenance, notifications, QueueOK
  <2>3. ASSUME NEW e \in Events, RerunNotification(e)
        PROVE  <1>3!1 /\ <1>3!2 /\ <1>3!3 /\ <1>3!4 /\ <1>3!5
    <3>1. e \in Entry /\ e.run \in Commits
      BY BoundsAssumption DEF Events, Entry, Commits
    <3>2. completions' = Enter(completions, e) /\ pushes' = pushes
      BY <2>3 DEF RerunNotification
    <3>3. over' \in [Events -> Nat]
      <4>1. WithOver(completions.pending) \in [Events -> Nat]
        BY <1>1, OverType DEF QueueOK
      <4>2. over[e] > 0 /\ WithOver(completions.pending)[e] \in Nat \ {0}
        BY <1>1, <2>3 DEF RerunNotification, WithOver
      <4>3. over' = [WithOver(completions.pending) EXCEPT ![e] = WithOver(completions.pending)[e] - 1]
        BY <2>3 DEF RerunNotification
      <4> HIDE DEF WithOver
      <4>4. WithOver(completions.pending)[e] - 1 \in Nat
        BY <4>2
      <4> QED
        BY <4>1, <4>3, <4>4
    <3>4. again' \in [Commits -> 0 .. reruns']
      <4>1. again[e.run] + 1 \in 0 .. reruns'
        BY <1>1, <1>2, <3>1, BoundsAssumption
      <4>2. again' = again \/ again' = [again EXCEPT ![e.run] = again[e.run] + 1]
        BY <2>3 DEF RerunNotification
      <4> QED
        BY <2>1, <4>1, <4>2
    <3> QED
      BY <1>1, <3>1, <3>2, <3>3, <3>4, EnterType DEF QueueOK
  <2> QED
    BY <2>2, <2>3
<1>4. TypeOK'
  <2>1. /\ attempt' \in [Commits -> 0 .. reruns' + 1]
        /\ note' \in [step : {"none", "release", "jobs", "tell"}, attempt : 0 .. reruns' + 1,
                       published : BOOLEAN]
    BY <1>1, <1>2, BoundsAssumption DEF TypeOK
  <2> QED
    BY <1>2, <1>3, <2>1 DEF TypeOK
<1>5. QueueOK'
  BY <1>2, <1>3 DEF QueueOK, Queued
<1>6. NoteTrue'
  BY <1>2, <1>3, NoteStays
<1>7. FutureBlank' /\ ReleasedInOrder' /\ CreatedOK' /\ SuccessIsPublication' /\ EvidenceIsPublication'
  BY <1>2 DEF FutureBlank, ReleasedInOrder, CreatedOK, SuccessIsPublication, EvidenceIsPublication,
              JobOf, Complete
<1> QED
  BY <1>4, <1>5, <1>6, <1>7

-----------------------------------------------------------------------------
LEMMA NextInv == PipelineInv /\ [Next]_vars => PipelineInv'
<1> SUFFICES ASSUME PipelineInv, [Next]_vars PROVE PipelineInv'
  OBVIOUS
<1>1. CASE UNCHANGED vars
  BY <1>1 DEF PipelineInv, TypeOK, QueueOK, Queued, FutureBlank, ReleasedInOrder, CreatedOK,
              SuccessIsPublication, NoteTrue, EvidenceIsPublication, JobOf, Complete, Notified,
              vars, github, release, told, notifications
<1>2. CASE Next
  BY <1>2, PushInv, RerunInv, RunStepInv, NoteStepInv, RerunNoteInv DEF Next
<1> QED
  BY <1>1, <1>2

(* Every state the pipeline reaches satisfies the invariant. *)
LEMMA Invariance == Spec => []PipelineInv
BY InitInv, NextInv, PTL DEF Spec

(* The queues, runs, jobs and notifications are what the workflows expect: *)
(* a run published is one whose commit was released, maintenance is never  *)
(* told of a push that did not happen.                                     *)
THEOREM TypeCorrect == Spec => []TypeOK
<1>1. PipelineInv => TypeOK
  BY DEF PipelineInv
<1> QED
  BY <1>1, Invariance, PTL

(* release-publication.py: whatever is rerun between its three reads, the  *)
(* discovery is told only of versions both packages of which are published. *)
THEOREM EvidenceIsPublished == Spec => []EvidenceIsPublication
<1>1. PipelineInv => EvidenceIsPublication
  BY DEF PipelineInv
<1> QED
  BY <1>1, Invariance, PTL

-------------------------------------------------------------------------------
(***************************************************************************)
(* The release pipeline implements the promise of Publication, for any     *)
(* number of pushes, reruns and failing steps.                             *)
(*                                                                         *)
(* PipelineInv says that what is announced is published; besides, that     *)
(* geul-proto is out before geul-event is published (ProtoFirst) and that  *)
(* a version is announced no more often than once and once for each rerun  *)
(* of a notification of it, which is a matter of the successful            *)
(* completions that wait to be told of.  Commit c's run completes with     *)
(* success and a publish job of its own version at most once: before, no   *)
(* completion of c waits, nor is one over that may be asked for again      *)
(* (UnreleasedFresh, OwnReleaseFresh), afterwards what was announced and   *)
(* what waits is one more than what was asked for again (PublishedSingle), *)
(* and a completion that comes from a rerun of the run finds a skipped job *)
(* (NoteFirst).                                                            *)
(***************************************************************************)

Success(c) == Completion(c, "success")

(* How many notifications of c's success run or wait. *)
InQueue(c) == (IF completions.running = Success(c) THEN 1 ELSE 0)
              + (IF completions.pending = Success(c) THEN 1 ELSE 0)

(* Nothing was told of c, nothing waits to be, nothing can be asked again. *)
Fresh(c) == InQueue(c) = 0 /\ over[Success(c)] = 0 /\ announced[c] = 0

(* One thing was told of c, or waits to be, besides what was asked again.  *)
Single(c) == announced[c] + InQueue(c) <= 1 + again[c]

(* One thing may be told of c. *)
Due(c) == announced[c] <= again[c]

ProtoFirst ==
  \A c \in Commits : step[c] \in {"event", "verify"} => <<"proto", created[c]>> \in registry

UnreleasedFresh ==
  \A c \in Commits : c > head \/ c \in merged \ tagged => Fresh(c) /\ conclusion[c] # "success"

OwnReleaseFresh ==
  \A c \in merged : created[c] = c /\ conclusion[c] # "success" => Fresh(c)

PublishedSingle ==
  \A c \in Commits : IsLatest(c) /\ conclusion[c] = "success" /\ JobOf(c, attempt[c]) = "success"
                       => Single(c)

(* What the notification is about to announce may be announced. *)
NoteFirst ==
  note.step # "none" =>
    /\ note.step = "release" /\ IsLatest(Notified) /\ JobOf(Notified, note.attempt) = "success"
         => Due(Notified)
    /\ note.step = "jobs" /\ JobOf(Notified, note.attempt) = "success" => Due(Notified)
    /\ note.step = "tell" /\ note.published => Due(Notified)

OnceInv == ProtoFirst /\ UnreleasedFresh /\ OwnReleaseFresh /\ PublishedSingle /\ NoteFirst

Group == [running : Entry, pending : Entry]

-----------------------------------------------------------------------------
LEMMA InvTypes ==
  ASSUME PipelineInv
  PROVE  /\ head \in Nat /\ head <= MaxPushes
         /\ merged \subseteq 1 .. head /\ merged \subseteq Commits /\ tagged \subseteq merged
         /\ registry \subseteq Packages \X tagged
         /\ created \in [Commits -> {0} \cup tagged]
         /\ conclusion \in [Commits -> Results \cup {"none"}]
         /\ completions \in Group /\ runs \in Group
         /\ announced \in [Commits -> Nat] /\ again \in [Commits -> Nat]
         /\ over \in [Events -> Nat]
         /\ \A e \in {completions.running, completions.pending} : e # Nobody => e \in Events
         /\ Commits \subseteq Nat
<1>1. again \in [Commits -> 0 .. reruns] /\ reruns \in Nat
  BY BoundsAssumption DEF PipelineInv, TypeOK
<1>2. again \in [Commits -> Nat]
  BY <1>1
<1>3. /\ completions \in Group /\ runs \in Group
      /\ announced \in [Commits -> Nat] /\ over \in [Events -> Nat]
      /\ \A e \in {completions.running, completions.pending} : e # Nobody => e \in Events
  BY DEF PipelineInv, TypeOK, QueueOK, Group
<1>4. /\ head \in 0 .. MaxPushes /\ merged \subseteq 1 .. head /\ tagged \subseteq merged
      /\ registry \subseteq Packages \X tagged
      /\ created \in [Commits -> {0} \cup tagged]
      /\ conclusion \in [Commits -> Results \cup {"none"}]
  BY DEF PipelineInv, TypeOK
<1>5. head \in Nat /\ head <= MaxPushes /\ merged \subseteq Commits /\ Commits \subseteq Nat
  BY <1>4, BoundsAssumption DEF Commits
<1> QED
  BY <1>2, <1>3, <1>4, <1>5

LEMMA SuccessTyped ==
  ASSUME NEW c \in Commits
  PROVE  /\ Success(c) # Nobody /\ Success(c) \in Entry /\ Success(c) \in Events
         /\ \A d \in Commits : Success(d) = Success(c) => d = c
         /\ \A d, r : Completion(d, r) = Success(c) => d = c /\ r = "success"
BY BoundsAssumption DEF Success, Completion, Nobody, Entry, Events, Commits, Results

(* A notification that enters takes the place of the one that waits. *)
LEMMA EnterQueue ==
  ASSUME completions \in Group, NEW c \in Commits, NEW e \in Events,
         completions' = Enter(completions, e)
  PROVE  /\ InQueue(c) \in 0 .. 2 /\ InQueue(c)' \in 0 .. 2
         /\ e # Success(c) => InQueue(c)' <= InQueue(c)
         /\ InQueue(c)' <= InQueue(c) + 1
<1>1. e \in Entry
  BY BoundsAssumption DEF Events, Entry, Commits
<1>2. /\ completions.running # Nobody =>
           completions'.running = completions.running /\ completions'.pending = e
      /\ completions.running = Nobody =>
           completions'.running = e /\ completions'.pending = completions.pending
  BY <1>1, EnterType DEF Group
<1>3. InQueue(c) \in 0 .. 2 /\ InQueue(c)' \in 0 .. 2
  BY DEF InQueue
<1>4. CASE completions.running # Nobody
  BY <1>2, <1>3, <1>4 DEF InQueue
<1>5. CASE completions.running = Nobody
  BY <1>2, <1>3, <1>5, SuccessTyped DEF InQueue
<1> QED
  BY <1>3, <1>4, <1>5

LEMMA EnterStays ==
  ASSUME NEW e, completions' = Enter(completions, e), completions \in Group,
         completions.running # Nobody
  PROVE  completions'.running = completions.running
BY DEF Enter, Group

(* One that leaves makes room. *)
LEMMA LeaveQueue ==
  ASSUME completions \in Group, NEW c \in Commits, completions' = Leave(completions)
  PROVE  /\ InQueue(c) \in 0 .. 2 /\ InQueue(c)' \in 0 .. 2
         /\ InQueue(c)' <= InQueue(c)
         /\ completions.running = Success(c) => InQueue(c)' + 1 = InQueue(c)
<1>1. completions'.running = completions.pending /\ completions'.pending = Nobody
  BY LeaveType DEF Group
<1>2. Success(c) # Nobody
  BY SuccessTyped
<1> QED
  BY <1>1, <1>2 DEF InQueue

(* What does not enter a success of c leaves c as it was. *)
LEMMA QueueStays ==
  ASSUME PipelineInv, NEW c \in Commits, announced'[c] = announced[c], again'[c] = again[c],
         \/ UNCHANGED notifications
         \/ completions' = Leave(completions) /\ over' = WithOver(completions.running)
         \/ \E e \in Events : e # Success(c) /\ Notify(e)
  PROVE  (Fresh(c) => Fresh(c)') /\ (Single(c) => Single(c)')
<1>1. /\ completions \in Group /\ over \in [Events -> Nat]
      /\ announced[c] \in Nat /\ again[c] \in Nat /\ Success(c) \in Events
      /\ \A e \in {completions.running, completions.pending} : e # Nobody => e \in Events
  BY InvTypes, SuccessTyped
<1>2. InQueue(c) \in 0 .. 2 /\ InQueue(c)' \in 0 .. 2
  BY DEF InQueue
<1>3. ASSUME InQueue(c) = 0
      PROVE  completions.running # Success(c) /\ completions.pending # Success(c)
  BY <1>3 DEF InQueue
<1>4. InQueue(c)' <= InQueue(c) /\ (InQueue(c) = 0 => over'[Success(c)] = over[Success(c)])
  <2>1. CASE UNCHANGED notifications
    BY <1>2, <2>1 DEF notifications, InQueue
  <2>2. CASE completions' = Leave(completions) /\ over' = WithOver(completions.running)
    BY <1>1, <1>3, <2>2, LeaveQueue, OverType
  <2>3. CASE \E e \in Events : e # Success(c) /\ Notify(e)
    BY <1>1, <1>3, <2>3, EnterQueue, OverType DEF Notify
  <2> QED
    BY <2>1, <2>2, <2>3
<1> QED
  BY <1>1, <1>2, <1>4 DEF Fresh, Single

(* A version becomes the latest when its release is made. *)
LEMMA BecomesLatest ==
  ASSUME tagged \subseteq merged, merged \subseteq Nat, tagged' \in {tagged, merged},
         NEW c, c \in tagged', \A v \in tagged' : v <= c
  PROVE  IsLatest(c) \/ c \in merged \ tagged
BY DEF IsLatest

(* What a notification has read of its run, and whether it is to be told,  *)
(* stays as it is while runs go on.                                        *)
LEMMA NoteFirstStays ==
  ASSUME PipelineInv, PipelineInv', OnceInv, note' = note, announced' = announced,
         \A d \in Commits : again[d] <= again'[d],
         completions.running # Nobody => completions'.running = completions.running,
         note.step # "none" => job'[Notified][note.attempt] = job[Notified][note.attempt],
         tagged' \in {tagged, merged}
  PROVE  NoteFirst'
<1> SUFFICES ASSUME note.step # "none" PROVE NoteFirst'
  BY DEF NoteFirst
<1>1. /\ Notified \in Commits /\ completions.running = Success(Notified)
  BY DEF PipelineInv, NoteTrue, Success
<1>2. Notified' = Notified
  BY <1>1, SuccessTyped DEF Notified
<1>3. (Due(Notified) => Due(Notified)') /\ JobOf(Notified, note.attempt)' = JobOf(Notified, note.attempt)
  <2>1. announced[Notified] \in Nat /\ again[Notified] \in Nat /\ again'[Notified] \in Nat
    <3>1. again \in [Commits -> 0 .. reruns] /\ again' \in [Commits -> 0 .. reruns']
          /\ reruns \in 0 .. MaxReruns /\ reruns' \in 0 .. MaxReruns
      BY DEF PipelineInv, TypeOK
    <3> QED
      BY <1>1, <3>1, InvTypes
  <2>2. again[Notified] <= again'[Notified]
    BY <1>1
  <2> QED
    BY <1>2, <2>1, <2>2 DEF Due, JobOf
<1>4. IsLatest(Notified)' => IsLatest(Notified) \/ Notified \in merged \ tagged
  <2>1. IsLatest(Notified)' => Notified \in tagged' /\ \A v \in tagged' : v <= Notified
    BY <1>2 DEF IsLatest
  <2> QED
    BY <2>1, InvTypes, BecomesLatest
<1>5. Notified \notin merged \ tagged
  BY <1>1 DEF OnceInv, UnreleasedFresh, Fresh, InQueue
<1> QED
  BY <1>2, <1>3, <1>4, <1>5 DEF OnceInv, NoteFirst

-----------------------------------------------------------------------------
(* A run that goes on: it may have made the release of a version, or        *)
(* published geul-proto.                                                    *)
LEMMA OnceGoing ==
  ASSUME PipelineInv, PipelineInv', OnceInv, NEW c \in Commits,
         NEW s \in {"setup", "verify"} \cup Packages, Goes(c, s),
         UNCHANGED <<head, merged, again, note, announced>>,
         tagged' \in {tagged, merged}, registry \subseteq registry',
         \A d \in Commits \ {c} : created'[d] = created[d],
         created'[c] = created[c] \/ created'[c] \in merged \ tagged,
         s \in {"event", "verify"} => <<"proto", created'[c]>> \in registry'
  PROVE  OnceInv'
<1>1. /\ completions' = completions /\ over' = over /\ conclusion' = conclusion /\ job' = job
      /\ attempt' = attempt /\ step' = [step EXCEPT ![c] = s]
  BY DEF Goes, notifications
<1>2. \A d : Fresh(d)' = Fresh(d) /\ Single(d)' = Single(d)
  BY <1>1 DEF Fresh, Single, InQueue
<1>3. tagged \subseteq merged /\ merged \subseteq Nat /\ merged \subseteq Commits
  BY InvTypes
<1>4. ProtoFirst'
  <2>1. step \in [Commits -> {"none", "release", "setup", "verify", "done"} \cup Packages]
    BY DEF PipelineInv, TypeOK
  <2> QED
    BY <1>1, <2>1 DEF OnceInv, ProtoFirst
<1>5. UnreleasedFresh'
  BY <1>1, <1>2, <1>3 DEF OnceInv, UnreleasedFresh
<1>6. OwnReleaseFresh'
  <2> SUFFICES ASSUME NEW d \in merged, created'[d] = d, conclusion[d] # "success"
               PROVE  Fresh(d)
    BY <1>1, <1>2 DEF OwnReleaseFresh
  <2>1. CASE created'[d] = created[d]
    BY <2>1 DEF OnceInv, OwnReleaseFresh
  <2>2. CASE d \in merged \ tagged
    BY <1>3, <2>2 DEF OnceInv, UnreleasedFresh
  <2> QED
    BY <1>3, <2>1, <2>2
<1>7. PublishedSingle'
  <2> SUFFICES ASSUME NEW d \in Commits, IsLatest(d)', conclusion[d] = "success",
                      JobOf(d, attempt[d]) = "success"
               PROVE  Single(d)
    BY <1>1, <1>2 DEF PublishedSingle, JobOf
  <2>1. IsLatest(d) \/ d \in merged \ tagged
    BY <1>3, BecomesLatest DEF IsLatest
  <2> QED
    BY <2>1 DEF OnceInv, PublishedSingle, UnreleasedFresh
<1>8. NoteFirst'
  BY <1>1, InvTypes, NoteFirstStays
<1> QED
  BY <1>4, <1>5, <1>6, <1>7, <1>8 DEF OnceInv

(* A run that ends.  If it ends well, it is not of a release still to be    *)
(* made, and if it published the latest release, that is its own.           *)
LEMMA OnceEnding ==
  ASSUME PipelineInv, PipelineInv', OnceInv, NEW c \in Commits, Running(c),
         NEW result \in {"success", "failure"},
         NEW published \in {"success", "failure", "skipped"},
         Ends(c, result, published),
         UNCHANGED <<head, merged, created, again, note, announced>>,
         tagged' \in {tagged, merged}, registry \subseteq registry',
         result = "success" => tagged' = tagged /\ c \notin merged \ tagged,
         published = "success" /\ IsLatest(c) => c \in merged /\ created[c] = c
  PROVE  OnceInv'
<1>1. /\ c <= head /\ conclusion[c] = "none" /\ attempt[c] \in Attempts
      /\ step'[c] = "done" /\ conclusion'[c] = result /\ job'[c][attempt[c]] = published
      /\ \A d \in Commits \ {c} : step'[d] = step[d] /\ conclusion'[d] = conclusion[d]
      /\ \A d \in Commits, a \in Attempts :
           d # c \/ a # attempt[c] => job'[d][a] = job[d][a]
      /\ completions.running # Nobody => completions'.running = completions.running
  BY Ending DEF PipelineInv
<1>2. attempt' = attempt /\ Notify(Completion(c, result))
  BY DEF Ends
<1>3. /\ tagged \subseteq merged /\ merged \subseteq Nat /\ merged \subseteq Commits
      /\ completions \in Group /\ Completion(c, result) \in Events /\ head \in Nat
      /\ Commits \subseteq Nat
      /\ announced \in [Commits -> Nat] /\ again \in [Commits -> Nat]
  BY InvTypes, EventType DEF Results
<1>4. ASSUME NEW d \in Commits, d # c \/ result # "success"
      PROVE  (Fresh(d) => Fresh(d)') /\ (Single(d) => Single(d)')
  <2>1. Completion(c, result) # Success(d)
    BY <1>4, SuccessTyped
  <2> QED
    BY <1>2, <1>3, <2>1, QueueStays
<1>5. ProtoFirst'
  BY <1>1 DEF OnceInv, ProtoFirst
<1>6. UnreleasedFresh'
  <2> SUFFICES ASSUME NEW d \in Commits, d > head \/ d \in merged \ tagged'
               PROVE  Fresh(d)' /\ conclusion'[d] # "success"
    BY DEF UnreleasedFresh
  <2>1. Fresh(d) /\ conclusion[d] # "success"
    BY <1>3 DEF OnceInv, UnreleasedFresh
  <2>2. d # c \/ result # "success"
    BY <1>1, <1>3
  <2> QED
    BY <1>1, <1>4, <2>1, <2>2
<1>7. OwnReleaseFresh'
  <2> SUFFICES ASSUME NEW d \in merged, created[d] = d, conclusion'[d] # "success"
               PROVE  Fresh(d)'
    BY DEF OwnReleaseFresh
  <2>1. conclusion[d] # "success" /\ (d # c \/ result # "success") /\ d \in Commits
    BY <1>1, <1>3
  <2> QED
    BY <1>4, <2>1 DEF OnceInv, OwnReleaseFresh
<1>8. PublishedSingle'
  <2> SUFFICES ASSUME NEW d \in Commits, IsLatest(d)', conclusion'[d] = "success",
                      JobOf(d, attempt[d])' = "success"
               PROVE  Single(d)'
    BY <1>2 DEF PublishedSingle, JobOf
  <2>1. CASE d # c
    <3>1. attempt[d] \in Attempts
      <4>1. attempt[d] >= 1 /\ attempt[d] \in 0 .. reruns + 1 /\ reruns \in 0 .. MaxReruns
        BY <1>1, <2>1 DEF PipelineInv, TypeOK, SuccessIsPublication
      <4> QED
        BY <4>1, BoundsAssumption DEF Attempts
    <3>2. conclusion[d] = "success" /\ JobOf(d, attempt[d]) = "success"
      BY <1>1, <1>2, <2>1, <3>1 DEF JobOf
    <3>3. IsLatest(d) \/ d \in merged \ tagged
      BY <1>3, BecomesLatest DEF IsLatest
    <3> QED
      BY <1>4, <2>1, <3>2, <3>3 DEF OnceInv, PublishedSingle, UnreleasedFresh
  <2>2. CASE d = c
    <3>1. result = "success" /\ published = "success" /\ IsLatest(c)
      BY <1>1, <1>2, <2>2 DEF JobOf, IsLatest
    <3>2. Fresh(c)
      BY <1>1, <3>1 DEF OnceInv, OwnReleaseFresh
    <3>3. InQueue(c)' \in 0 .. 2 /\ InQueue(c)' <= InQueue(c) + 1
      BY <1>2, <1>3, EnterQueue DEF Notify
    <3>4. announced[c] = 0 /\ InQueue(c) = 0 /\ again[c] \in Nat
      BY <1>3, <3>2 DEF Fresh
    <3> QED
      BY <2>2, <3>3, <3>4 DEF Single
  <2> QED
    BY <2>1, <2>2
<1>9. NoteFirst'
  <2>1. ASSUME note.step # "none"
        PROVE  job'[Notified][note.attempt] = job[Notified][note.attempt]
    <3>1. /\ Notified \in Commits /\ note.attempt \in Attempts
          /\ \/ attempt[Notified] > note.attempt
             \/ attempt[Notified] = note.attempt /\ conclusion[Notified] = "success"
      BY <2>1 DEF PipelineInv, NoteTrue
    <3>2. Notified # c \/ note.attempt # attempt[c]
      BY <1>1, <3>1 DEF Attempts
    <3> QED
      BY <1>1, <3>1, <3>2
  <2> QED
    BY <1>1, <1>3, <2>1, NoteFirstStays
<1> QED
  BY <1>5, <1>6, <1>7, <1>8, <1>9 DEF OnceInv

(* A run that is queued, by a push or a rerun.  What was displaced completes *)
(* as cancelled; a rerun keeps its own release only if it did not succeed.   *)
LEMMA OnceQueueing ==
  ASSUME PipelineInv, PipelineInv', OnceInv, NEW c \in Commits,
         runs.running # For(c),
         runs' = QueuedRuns(c), NotifyDisplaced,
         conclusion' = ConclusionsWhenQueued(c),
         \A d \in Commits \ {c} : attempt'[d] = attempt[d],
         head' \in Nat, head <= head',
         merged' \subseteq merged \cup ({c} \cap {head + 1}), merged \subseteq merged',
         step'[c] \in {"release", "setup"},
         \A d \in Commits \ {c} : step'[d] = step[d] /\ created'[d] = created[d],
         created'[c] = 0 \/ (created'[c] = created[c] /\ conclusion[c] # "success"),
         UNCHANGED <<tagged, registry, job, again, note, announced>>
  PROVE  OnceInv'
<1>1. /\ merged \subseteq Nat /\ merged \subseteq Commits /\ completions \in Group
      /\ head \in Nat /\ Commits \subseteq Nat /\ runs \in Group /\ tagged \subseteq merged
      /\ merged \subseteq 1 .. head /\ c # 0
      /\ created \in [Commits -> {0} \cup tagged]
  BY InvTypes DEF Commits
<1>2. conclusion'[c] = "none"
      /\ \A d \in Commits \ {c} : conclusion'[d] = conclusion[d] \/ conclusion'[d] = "cancelled"
  BY DEF ConclusionsWhenQueued
<1>3. \A d \in Commits : (Fresh(d) => Fresh(d)') /\ (Single(d) => Single(d)')
  <2> SUFFICES ASSUME NEW d \in Commits
               PROVE  (Fresh(d) => Fresh(d)') /\ (Single(d) => Single(d)')
    OBVIOUS
  <2>1. CASE Displaced = Nobody
    BY <2>1, QueueStays DEF NotifyDisplaced
  <2>2. CASE Displaced # Nobody
    <3> DEFINE e == Completion(Displaced.run, "cancelled")
    <3>1. e # Success(d)
      BY DEF Success, Completion
    <3>2. e \in Events
      <4>1. Displaced.run \in Commits
        BY <2>2, InvTypes, BoundsAssumption DEF PipelineInv, QueueOK, Displaced, Queued, Commits
      <4> QED
        BY <4>1, EventType DEF Results
    <3>3. Notify(e)
      BY <2>2 DEF NotifyDisplaced
    <3> HIDE DEF e
    <3> QED
      BY <3>1, <3>2, <3>3, QueueStays
  <2> QED
    BY <2>1, <2>2
<1>4. ProtoFirst'
  BY DEF OnceInv, ProtoFirst
<1>5. UnreleasedFresh'
  <2> SUFFICES ASSUME NEW d \in Commits, d > head' \/ d \in merged' \ tagged
               PROVE  Fresh(d)' /\ conclusion'[d] # "success"
    BY DEF UnreleasedFresh
  <2>1. d > head \/ d \in merged \ tagged
    BY <1>1
  <2> QED
    BY <1>2, <1>3, <2>1 DEF OnceInv, UnreleasedFresh
<1>6. OwnReleaseFresh'
  <2> SUFFICES ASSUME NEW d \in merged', created'[d] = d, conclusion'[d] # "success"
               PROVE  Fresh(d)'
    BY DEF OwnReleaseFresh
  <2>1. CASE d \notin merged
    BY <1>1, <1>3, <2>1 DEF OnceInv, UnreleasedFresh
  <2>2. CASE d \in merged /\ d # c
    <3>1. conclusion[d] # "success"
      <4>1. CASE For(d) = Displaced
        <5>1. d \in Commits
          BY <1>1, <2>2
        <5>2. For(d) # Nobody /\ For(d).run = d
          BY <5>1 DEF For, Nobody, Commits
        <5> QED
          BY <4>1, <5>1, <5>2 DEF PipelineInv, QueueOK, Queued, Displaced
      <4>2. CASE For(d) # Displaced
        BY <1>1, <2>2, <4>2 DEF ConclusionsWhenQueued
      <4> QED
        BY <4>1, <4>2
    <3> QED
      BY <1>1, <1>3, <2>2, <3>1 DEF OnceInv, OwnReleaseFresh
  <2>3. CASE d = c /\ d \in merged
    BY <1>1, <1>3, <2>3 DEF OnceInv, OwnReleaseFresh
  <2> QED
    BY <2>1, <2>2, <2>3
<1>7. PublishedSingle'
  <2> SUFFICES ASSUME NEW d \in Commits, IsLatest(d), conclusion'[d] = "success",
                      JobOf(d, attempt'[d]) = "success"
               PROVE  Single(d)'
    BY DEF PublishedSingle, JobOf, IsLatest
  <2>1. d # c /\ conclusion[d] = "success"
    BY <1>2
  <2>2. attempt'[d] = attempt[d]
    BY <2>1
  <2> QED
    BY <1>3, <2>1, <2>2 DEF OnceInv, PublishedSingle
<1>8. NoteFirst'
  <2>1. completions.running # Nobody => completions'.running = completions.running
    <3>1. CASE Displaced = Nobody
      BY <3>1 DEF NotifyDisplaced, notifications
    <3>2. CASE Displaced # Nobody
      BY <1>1, <3>2, EnterStays DEF NotifyDisplaced, Notify
    <3> QED
      BY <3>1, <3>2
  <2> QED
    BY <2>1, InvTypes, NoteFirstStays
<1> QED
  BY <1>4, <1>5, <1>6, <1>7, <1>8 DEF OnceInv

-----------------------------------------------------------------------------
LEMMA OnceRunStep ==
  ASSUME PipelineInv, OnceInv, NEW c \in Commits, RunStep(c)
  PROVE  OnceInv'
<1>1. PipelineInv' /\ CreatedOK /\ ReleasedInOrder
  BY RunStepInv DEF PipelineInv
<1>2. /\ registry \subseteq Packages \X tagged /\ tagged \subseteq merged /\ merged \subseteq Nat
      /\ merged \subseteq Commits /\ created \in [Commits -> {0} \cup tagged]
  BY InvTypes
<1>3. CASE ReleasePlease(c)
  <2>1. ASSUME NEW v \in merged \ tagged, created' = [created EXCEPT ![c] = v], Goes(c, "setup")
        PROVE  OnceInv'
    <3>1. created'[c] = v /\ \A d \in Commits \ {c} : created'[d] = created[d]
      BY <1>2, <2>1
    <3> QED
      BY <1>1, <1>3, <2>1, <3>1, OnceGoing DEF ReleasePlease, told
  <2>2. ASSUME merged = tagged, Ends(c, "success", "skipped"), created' = created
        PROVE  OnceInv'
    BY <1>1, <1>3, <2>2, OnceEnding DEF ReleasePlease, At, told
  <2> QED
    BY <1>3, <2>1, <2>2 DEF ReleasePlease
<1>4. CASE ReleasePleaseFails(c)
  BY <1>1, <1>4, OnceEnding DEF ReleasePleaseFails, At, told
<1>5. CASE SetUp(c)
  <2>1. CASE Goes(c, "proto")
    BY <1>1, <1>5, <2>1, OnceGoing DEF SetUp, github, told, Packages
  <2>2. CASE Ends(c, "failure", "failure")
    BY <1>1, <1>5, <2>2, OnceEnding DEF SetUp, At, github, told
  <2> QED
    BY <1>5, <2>1, <2>2 DEF SetUp
<1>6. ASSUME NEW p \in Packages, NEW next \in {"event", "verify"}, Publish(c, p, next),
             p = "event" \/ next = "event"
      PROVE  OnceInv'
  <2>1. /\ registry \subseteq registry' /\ UNCHANGED <<head, merged, tagged, created, again, note, announced>>
        /\ Running(c) /\ step[c] = p
    BY <1>6 DEF Publish, told, At
  <2>2. CASE Goes(c, next) /\ registry' = registry \cup {<<p, created[c]>>}
    <3>1. <<"proto", created'[c]>> \in registry'
      BY <1>6, <2>1, <2>2 DEF OnceInv, ProtoFirst, Packages
    <3> QED
      BY <1>1, <2>1, <2>2, <3>1, OnceGoing DEF Packages
  <2>3. CASE Ends(c, "failure", "failure")
    BY <1>1, <2>1, <2>3, OnceEnding
  <2> QED
    BY <1>6, <2>2, <2>3 DEF Publish
<1>7. CASE Verify(c)
  <2>1. /\ UNCHANGED <<head, merged, tagged, registry, created, again, note, announced>>
        /\ Running(c) /\ step[c] = "verify"
    BY <1>7 DEF Verify, At, github, told
  <2>2. created[c] \in tagged /\ (c \in merged => created[c] >= c)
    BY <1>1, <1>2, <2>1 DEF CreatedOK
  <2>3. c \notin merged \ tagged
    <3> SUFFICES ASSUME c \in merged, c \notin tagged PROVE FALSE
      OBVIOUS
    <3>1. created[c] # c /\ created[c] >= c
      BY <2>2
    <3>2. created[c] \in merged /\ created[c] \in Nat /\ c \in Nat
      BY <1>2, <2>2
    <3>3. c < created[c]
      BY <3>1, <3>2
    <3> QED
      BY <1>1, <3>2, <3>3 DEF ReleasedInOrder
  <2>4. IsLatest(c) => c \in merged /\ created[c] = c
    <3> SUFFICES ASSUME IsLatest(c) PROVE c \in merged /\ created[c] = c
      OBVIOUS
    <3>1. c \in merged /\ created[c] <= c
      BY <1>2, <2>2 DEF IsLatest
    <3>2. created[c] >= c /\ created[c] \in Nat /\ c \in Nat
      BY <1>2, <2>2, <3>1
    <3> QED
      BY <3>1, <3>2
  <2>5. ASSUME NEW result \in {"success", "failure"}, Ends(c, result, result)
        PROVE  OnceInv'
    BY <1>1, <2>1, <2>3, <2>4, <2>5, OnceEnding
  <2> QED
    BY <1>7, <2>5 DEF Verify
<1> QED
  BY <1>3, <1>4, <1>5, <1>6, <1>7 DEF RunStep, PublishProto, PublishEvent, Packages

LEMMA OncePush ==
  ASSUME PipelineInv, OnceInv, Push
  PROVE  OnceInv'
<1> DEFINE c == head + 1
<1>1. /\ c \in Commits /\ head \in Nat /\ runs.running \in Entry /\ head' = c
      /\ attempt \in [Commits -> 0 .. reruns + 1]
      /\ step \in [Commits -> {"none", "release", "setup", "verify", "done"} \cup Packages]
  BY BoundsAssumption DEF PipelineInv, TypeOK, Push, Commits
<1>2. runs.running # For(c) /\ created[c] = 0
  <2>1. created[c] = 0
    BY <1>1 DEF PipelineInv, FutureBlank
  <2>2. runs.running # Nobody => runs.running = For(runs.running.run) /\ runs.running.run <= head
    BY <1>1 DEF PipelineInv, QueueOK, Queued
  <2>3. For(c).run = c /\ For(c) # Nobody
    BY <1>1 DEF For, Nobody
  <2> QED
    BY <1>1, <2>1, <2>2, <2>3
<1>3. /\ runs' = QueuedRuns(c) /\ NotifyDisplaced
      /\ conclusion' = ConclusionsWhenQueued(c)
      /\ attempt' = [attempt EXCEPT ![c] = 1] /\ step' = [step EXCEPT ![c] = "release"]
      /\ merged' = merged \/ merged' = merged \cup {c}
      /\ UNCHANGED <<tagged, registry, created, job, again, note, announced>>
  BY DEF Push, told
<1>4. /\ \A d \in Commits \ {c} : attempt'[d] = attempt[d] /\ step'[d] = step[d] /\ created'[d] = created[d]
      /\ step'[c] = "release" /\ created'[c] = 0
  BY <1>1, <1>2, <1>3
<1>5. head' \in Nat /\ head <= head' /\ merged \subseteq merged'
      /\ merged' \subseteq merged \cup ({c} \cap {head + 1})
  BY <1>1, <1>3
<1>6. PipelineInv'
  BY PushInv
<1> HIDE DEF c
<1> QED
  BY <1>1, <1>2, <1>3, <1>4, <1>5, <1>6, OnceQueueing

LEMMA OnceRerun ==
  ASSUME PipelineInv, OnceInv, NEW c \in Commits, RerunFailed(c) \/ RerunAll(c)
  PROVE  OnceInv'
<1>1. /\ Rerun(c) /\ PipelineInv'
  BY RerunInv DEF RerunFailed, RerunAll
<1>2. /\ attempt \in [Commits -> 0 .. reruns + 1] /\ head \in Nat
      /\ step \in [Commits -> {"none", "release", "setup", "verify", "done"} \cup Packages]
      /\ created \in [Commits -> {0} \cup tagged]
  BY BoundsAssumption DEF PipelineInv, TypeOK
<1>3. /\ runs' = QueuedRuns(c) /\ NotifyDisplaced
      /\ conclusion' = ConclusionsWhenQueued(c) /\ attempt' = [attempt EXCEPT ![c] = attempt[c] + 1]
      /\ UNCHANGED <<head, merged, tagged, registry, job, again, note, announced>>
      /\ conclusion[c] # "none"
  BY <1>1 DEF Rerun, github, told
<1>4. runs.running # For(c)
  <2>1. For(c).run = c /\ For(c) # Nobody
    BY DEF For, Nobody, Commits
  <2> QED
    BY <1>3, <2>1 DEF PipelineInv, QueueOK, Queued
<1>5. /\ \A d \in Commits \ {c} : step'[d] = step[d] /\ created'[d] = created[d] /\ attempt'[d] = attempt[d]
      /\ step'[c] \in {"release", "setup"}
      /\ created'[c] = 0 \/ (created'[c] = created[c] /\ conclusion[c] # "success")
  <2>1. CASE RerunFailed(c)
    BY <1>2, <1>3, <2>1 DEF RerunFailed
  <2>2. CASE RerunAll(c)
    BY <1>2, <1>3, <2>2 DEF RerunAll
  <2> QED
    BY <2>1, <2>2
<1> QED
  BY <1>1, <1>2, <1>3, <1>4, <1>5, OnceQueueing

(* The notification: a successful completion that it tells of is gone.      *)
LEMMA OnceNote ==
  ASSUME PipelineInv, OnceInv, NoteStep \/ NoteFails
  PROVE  OnceInv'
<1>1. /\ completions \in Group /\ announced \in [Commits -> Nat] /\ Commits \subseteq Nat
      /\ again \in [Commits -> Nat]
      /\ tagged \subseteq merged /\ merged \subseteq 1 .. head /\ merged \subseteq Commits
      /\ registry \subseteq Packages \X tagged /\ head \in Nat
  BY InvTypes
<1>2. UNCHANGED <<github, release, runs, again>>
  BY DEF NoteStep, NoteFails, Maintain, MaintainEnds, Skip, ReadRun, ReadRelease, ReadJobs, Tell
<1>3. \/ UNCHANGED notifications
      \/ completions' = Leave(completions) /\ over' = WithOver(completions.running)
  BY DEF NoteStep, NoteFails, Maintain, MaintainEnds, Skip, ReadRun, ReadRelease, ReadJobs, Tell, Dismiss
<1>4. ProtoFirst'
  BY <1>2 DEF OnceInv, ProtoFirst, github, release
<1>5. ASSUME announced' = announced, NoteFirst' PROVE OnceInv'
  <2>1. \A d \in Commits : (Fresh(d) => Fresh(d)') /\ (Single(d) => Single(d)')
    BY <1>2, <1>3, <1>5, QueueStays
  <2>2. UnreleasedFresh' /\ OwnReleaseFresh' /\ PublishedSingle'
    BY <1>1, <1>2, <2>1 DEF OnceInv, UnreleasedFresh, OwnReleaseFresh, PublishedSingle, JobOf,
                            IsLatest, github, release
  <2> QED
    BY <1>4, <1>5, <2>2 DEF OnceInv
<1>6. CASE Dismiss /\ announced' = announced
  BY <1>5, <1>6, NobodyType DEF Dismiss, NoteFirst
<1>7. CASE completions' = completions /\ announced' = announced /\ note' = note
  BY <1>2, <1>5, <1>7 DEF OnceInv, NoteFirst, Notified, Due, JobOf, IsLatest, github, release
<1>8. CASE Maintain \/ MaintainEnds
  BY <1>7, <1>8 DEF Maintain, MaintainEnds, told, notifications
<1>9. CASE Skip
  BY <1>6, <1>9 DEF Skip, told
<1>10. CASE ReadRun
  <2>1. CASE conclusion[Notified] = "success"
    <3>1. note' = [NoNote EXCEPT !.step = "release", !.attempt = attempt[Notified]]
          /\ completions' = completions /\ announced' = announced
          /\ completions.running = Success(Notified)
      BY <1>10, <2>1 DEF ReadRun, told, notifications, Success
    <3>2. Notified \in Commits
      <4>1. completions.running # Nobody
        BY <3>1 DEF Success, Completion, Nobody
      <4> QED
        BY <4>1 DEF PipelineInv, QueueOK, Notified, Events
    <3>3. note'.step = "release" /\ note'.attempt = attempt[Notified]
      BY <3>1 DEF NoNote
    <3>4. IsLatest(Notified) /\ JobOf(Notified, attempt[Notified]) = "success" => Due(Notified)
      <4> SUFFICES ASSUME IsLatest(Notified), JobOf(Notified, attempt[Notified]) = "success"
                   PROVE  Due(Notified)
        OBVIOUS
      <4>1. Single(Notified)
        BY <2>1, <3>2 DEF OnceInv, PublishedSingle
      <4>2. InQueue(Notified) \in 1 .. 2
        BY <3>1 DEF InQueue
      <4>3. announced[Notified] \in Nat /\ again[Notified] \in Nat
        BY <1>1, <3>2
      <4> HIDE DEF InQueue
      <4> QED
        BY <4>1, <4>2, <4>3 DEF Single, Due
    <3>5. NoteFirst'
      BY <1>2, <3>1, <3>3, <3>4 DEF NoteFirst, Notified, Due, JobOf, IsLatest, github, release
    <3> QED
      BY <1>5, <3>1, <3>5
  <2>2. CASE conclusion[Notified] # "success"
    BY <1>6, <1>10, <2>2 DEF ReadRun, told
  <2> QED
    BY <2>1, <2>2
<1>11. CASE ReadRelease
  <2>1. CASE IsLatest(Notified)
    <3>1. note' = [note EXCEPT !.step = "jobs"] /\ completions' = completions
          /\ announced' = announced /\ note.step = "release"
      BY <1>11, <2>1 DEF ReadRelease, told, notifications
    <3>2. note'.step = "jobs" /\ note'.attempt = note.attempt
      BY <3>1 DEF PipelineInv, TypeOK
    <3>3. NoteFirst'
      BY <1>2, <2>1, <3>1, <3>2 DEF OnceInv, NoteFirst, Notified, Due, JobOf, github, release
    <3> QED
      BY <1>5, <3>1, <3>3
  <2>2. CASE ~IsLatest(Notified)
    BY <1>6, <1>11, <2>2 DEF ReadRelease, told
  <2> QED
    BY <2>1, <2>2
<1>12. CASE ReadJobs
  <2>1. PICK unended \in BOOLEAN :
          note' = [note EXCEPT !.step = "tell",
                     !.published = PublisherJobsSucceeded(note.attempt, Jobs(Notified, unended))]
    BY <1>12 DEF ReadJobs
  <2> DEFINE listed == PublisherJobsSucceeded(note.attempt, Jobs(Notified, unended))
  <2>2. note.step = "jobs" /\ completions' = completions /\ announced' = announced
    BY <1>12 DEF ReadJobs, told, notifications
  <2>3. note'.step = "tell" /\ note'.published = listed
    BY <2>1 DEF PipelineInv, TypeOK
  <2>4. listed => Due(Notified)
    <3> SUFFICES ASSUME listed PROVE Due(Notified)
      OBVIOUS
    <3>1. /\ Notified \in Commits /\ note.attempt \in Attempts
          /\ JobOf(Notified, note.attempt) # "none" /\ note.attempt <= attempt[Notified]
      BY <2>2 DEF PipelineInv, NoteTrue, TypeOK, Attempts
    <3>2. [attempt |-> note.attempt, conclusion |-> job[Notified][note.attempt]]
            \in Jobs(Notified, unended)
      BY <3>1 DEF Jobs, JobOf
    <3>3. job[Notified][note.attempt] = "success"
      BY <3>2 DEF PublisherJobsSucceeded
    <3> QED
      BY <2>2, <3>3 DEF OnceInv, NoteFirst, JobOf
  <2>5. NoteFirst'
    BY <1>2, <2>2, <2>3, <2>4 DEF NoteFirst, Notified, Due
  <2> QED
    BY <1>5, <2>2, <2>5
<1>13. CASE Tell \/ NoteFails
  <2>1. CASE announced' = announced
    BY <1>6, <1>13, <2>1 DEF Tell, NoteFails
  <2>2. announced' = announced \/ (note.step = "tell" /\ note.published /\ announced' = Announced)
    BY <1>13 DEF Tell, NoteFails, told
  <2>3. CASE note.step = "tell" /\ note.published /\ announced' = Announced
    <3>1. /\ Notified \in Commits /\ completions.running = Success(Notified) /\ Complete(Notified)
          /\ announced' = [announced EXCEPT ![Notified] = announced[Notified] + 1]
      BY <2>3 DEF PipelineInv, NoteTrue, Success, Announced
    <3>2. /\ \A d \in Commits : d # Notified => announced'[d] = announced[d]
          /\ announced'[Notified] = announced[Notified] + 1 /\ again' = again
      BY <1>1, <1>2, <3>1
    <3>3. note' = NoNote /\ completions' = Leave(completions) /\ over' = WithOver(completions.running)
      BY <1>13 DEF Tell, NoteFails, Dismiss
    <3>4. ASSUME NEW d \in Commits, d # Notified
          PROVE  (Fresh(d) => Fresh(d)') /\ (Single(d) => Single(d)')
      BY <3>2, <3>3, <3>4, QueueStays
    <3>5. ASSUME NEW d \in Commits, d = Notified
          PROVE  (Single(d) => Single(d)') /\ ~Fresh(d)
      <4>1. /\ InQueue(d)' + 1 = InQueue(d) /\ InQueue(d) \in 0 .. 2 /\ InQueue(d)' \in 0 .. 2
        BY <1>1, <3>1, <3>3, <3>5, LeaveQueue
      <4>2. announced'[d] = announced[d] + 1 /\ announced[d] \in Nat /\ again[d] \in Nat
        BY <1>1, <3>2, <3>5
      <4> QED
        BY <3>2, <4>1, <4>2 DEF Fresh, Single
    <3>6. Notified \in tagged
      BY <1>1, <3>1 DEF Complete
    <3>7. Notified <= head
      BY <1>1, <3>6
    <3>8. UnreleasedFresh'
      <4> SUFFICES ASSUME NEW d \in Commits, d > head \/ d \in merged \ tagged
                   PROVE  Fresh(d)' /\ conclusion[d] # "success"
        BY <1>2 DEF UnreleasedFresh, github, release
      <4>1. d # Notified
        BY <1>1, <3>6, <3>7
      <4> QED
        BY <3>4, <4>1 DEF OnceInv, UnreleasedFresh
    <3>9. OwnReleaseFresh'
      <4> SUFFICES ASSUME NEW d \in merged, created[d] = d, conclusion[d] # "success"
                   PROVE  Fresh(d)'
        BY <1>2 DEF OwnReleaseFresh, github, release
      <4>1. Fresh(d) /\ d \in Commits
        BY <1>1 DEF OnceInv, OwnReleaseFresh
      <4> QED
        BY <3>4, <3>5, <4>1
    <3>10. PublishedSingle'
      <4> SUFFICES ASSUME NEW d \in Commits, IsLatest(d), conclusion[d] = "success",
                          JobOf(d, attempt[d]) = "success"
                   PROVE  Single(d)'
        BY <1>2 DEF PublishedSingle, JobOf, IsLatest, github, release
      <4>1. Single(d)
        BY DEF OnceInv, PublishedSingle
      <4> QED
        BY <3>4, <3>5, <4>1
    <3>11. NoteFirst'
      BY <3>3, NobodyType DEF NoteFirst
    <3> QED
      BY <1>4, <3>8, <3>9, <3>10, <3>11 DEF OnceInv
  <2> QED
    BY <2>1, <2>2, <2>3
<1> QED
  BY <1>8, <1>9, <1>10, <1>11, <1>12, <1>13 DEF NoteStep

(* A notification that is rerun: one more waits, one more was asked for.    *)
LEMMA OnceRerunNote ==
  ASSUME PipelineInv, OnceInv,
         (\E c \in Commits : RerunMaintenance(c)) \/ (\E e \in Events : RerunNotification(e))
  PROVE  OnceInv'
<1>1. /\ completions \in Group /\ announced \in [Commits -> Nat] /\ again \in [Commits -> Nat]
      /\ over \in [Events -> Nat] /\ merged \subseteq Commits
      /\ \A e \in {completions.running, completions.pending} : e # Nobody => e \in Events
  BY InvTypes
<1>2. UNCHANGED <<head, merged, tagged, registry, attempt, step, created, conclusion, job, note, announced>>
  BY DEF RerunMaintenance, RerunNotification, github, told
<1>3. PipelineInv'
  BY RerunNoteInv
<1>4. /\ \A d \in Commits : (Fresh(d) => Fresh(d)') /\ (Single(d) => Single(d)')
      /\ \A d \in Commits : again[d] <= again'[d]
      /\ completions.running # Nobody => completions'.running = completions.running
  <2>1. ASSUME NEW c \in Commits, RerunMaintenance(c)
        PROVE  <1>4!1 /\ <1>4!2 /\ <1>4!3
    BY <1>1, <2>1 DEF RerunMaintenance, notifications, told, Fresh, Single, InQueue
  <2>2. ASSUME NEW e \in Events, RerunNotification(e)
        PROVE  <1>4!1 /\ <1>4!2 /\ <1>4!3
    <3>1. /\ completions' = Enter(completions, e) /\ over[e] > 0
          /\ over' = [WithOver(completions.pending) EXCEPT ![e] = WithOver(completions.pending)[e] - 1]
          /\ again' = IF e.conclusion = "success" THEN [again EXCEPT ![e.run] = again[e.run] + 1]
                                                  ELSE again
      BY <2>2 DEF RerunNotification
    <3>2. e.run \in Commits /\ e = Completion(e.run, e.conclusion)
      BY DEF Events, Completion
    <3>3. \A d \in Commits : again[d] <= again'[d]
      BY <1>1, <3>1, <3>2
    <3>4. ASSUME NEW d \in Commits
          PROVE  (Fresh(d) => Fresh(d)') /\ (Single(d) => Single(d)')
      <4>1. /\ InQueue(d) \in 0 .. 2 /\ InQueue(d)' \in 0 .. 2
            /\ e # Success(d) => InQueue(d)' <= InQueue(d)
            /\ InQueue(d)' <= InQueue(d) + 1
        BY <1>1, <3>1, EnterQueue
      <4>2. /\ announced[d] \in Nat /\ again[d] \in Nat /\ announced' = announced
            /\ Success(d) \in Events
        BY <1>1, <1>2, SuccessTyped
      <4>3. CASE e = Success(d)
        <5>1. e.run = d /\ e.conclusion = "success"
          BY <4>3 DEF Success, Completion
        <5>2. again'[d] = again[d] + 1
          BY <1>1, <3>1, <5>1
        <5>3. ~Fresh(d)
          BY <3>1, <4>3 DEF Fresh
        <5> QED
          BY <4>1, <4>2, <5>2, <5>3 DEF Single
      <4>4. CASE e # Success(d)
        <5>1. again'[d] = again[d]
          <6>1. e.conclusion # "success" \/ e.run # d
            BY <3>2, <4>4 DEF Success
          <6> QED
            BY <1>1, <3>1, <3>2, <6>1
        <5>2. InQueue(d) = 0 => over'[Success(d)] = over[Success(d)]
          <6> SUFFICES ASSUME InQueue(d) = 0 PROVE over'[Success(d)] = over[Success(d)]
            OBVIOUS
          <6>1. completions.pending # Success(d)
            BY DEF InQueue
          <6>2. /\ WithOver(completions.pending) \in [Events -> Nat]
                /\ WithOver(completions.pending)[Success(d)] = over[Success(d)]
            BY <1>1, <4>2, <6>1, OverType
          <6> QED
            BY <3>1, <4>2, <4>4, <6>2
        <5> QED
          BY <4>1, <4>2, <4>4, <5>1, <5>2 DEF Fresh, Single
      <4> QED
        BY <4>3, <4>4
    <3> QED
      BY <1>1, <3>1, <3>3, <3>4, EnterStays
  <2> QED
    BY <2>1, <2>2
<1>5. NoteFirst'
  BY <1>2, <1>3, <1>4, NoteFirstStays
<1>6. ProtoFirst'
  BY <1>2 DEF OnceInv, ProtoFirst
<1>7. UnreleasedFresh' /\ OwnReleaseFresh' /\ PublishedSingle'
  BY <1>1, <1>2, <1>4 DEF OnceInv, UnreleasedFresh, OwnReleaseFresh, PublishedSingle, JobOf, IsLatest
<1> QED
  BY <1>5, <1>6, <1>7 DEF OnceInv

LEMMA OnceInit == Init => OnceInv
<1> SUFFICES ASSUME Init PROVE OnceInv
  OBVIOUS
<1>1. step = [c \in Commits |-> "none"] /\ conclusion = [c \in Commits |-> "none"]
  BY DEF Init
<1>2. \A c \in Commits : Fresh(c)
  BY SuccessTyped DEF Init, Fresh, InQueue, Idle
<1>3. ProtoFirst /\ UnreleasedFresh /\ OwnReleaseFresh
  BY <1>1, <1>2 DEF Init, ProtoFirst, UnreleasedFresh, OwnReleaseFresh
<1>4. PublishedSingle /\ NoteFirst
  BY <1>1, <1>2 DEF Init, PublishedSingle, IsLatest, NoteFirst, NoNote
<1> QED
  BY <1>3, <1>4 DEF OnceInv

LEMMA OnceNext == PipelineInv /\ OnceInv /\ [Next]_vars => OnceInv'
<1> SUFFICES ASSUME PipelineInv, OnceInv, [Next]_vars PROVE OnceInv'
  OBVIOUS
<1>1. CASE UNCHANGED vars
  BY <1>1 DEF OnceInv, ProtoFirst, UnreleasedFresh, OwnReleaseFresh, PublishedSingle, NoteFirst,
              Fresh, Single, Due, InQueue, JobOf, IsLatest, Notified, vars, github, release, told,
              notifications
<1>2. CASE Next
  BY <1>2, OncePush, OnceRerun, OnceRunStep, OnceNote, OnceRerunNote DEF Next
<1> QED
  BY <1>1, <1>2

-----------------------------------------------------------------------------
(* Every step is a step of the promise, or none of its business.            *)
LEMMA StepKeepsPromise ==
  PipelineInv /\ OnceInv /\ [Next]_vars => [Promise!Next]_(Promise!vars)
<1> SUFFICES ASSUME PipelineInv, OnceInv, [Next]_vars
             PROVE  [Promise!Next]_(Promise!vars)
  OBVIOUS
<1> USE DEF Promise!vars
<1>1. /\ registry \subseteq Packages \X tagged /\ tagged \subseteq merged /\ merged \subseteq Nat
      /\ merged \subseteq Commits /\ created \in [Commits -> {0} \cup tagged]
      /\ announced \in [Commits -> Nat] /\ again \in [Commits -> Nat]
  BY InvTypes
<1>2. CASE UNCHANGED <<tagged, registry, announced, again>>
  BY <1>2
<1>3. ASSUME tagged' \in {tagged, merged}, UNCHANGED <<registry, announced, again>>
      PROVE  [Promise!Next]_(Promise!vars)
  <2>1. CASE \E v \in merged \ tagged : tagged' = merged
    <3>1. PICK v \in merged \ tagged : tagged' = merged
      BY <2>1
    <3>2. \A r \in merged \ tagged : r = v
      BY <1>1 DEF PipelineInv, ReleasedInOrder
    <3>3. tagged' = tagged \cup {v} /\ v \in Commits /\ v \notin tagged
      BY <1>1, <3>1, <3>2
    <3>4. Promise!Tag(v)
      BY <1>3, <3>3 DEF Promise!Tag
    <3> QED
      BY <3>3, <3>4 DEF Promise!Next
  <2>2. CASE merged \ tagged = {} \/ tagged' = tagged
    BY <1>1, <1>2, <1>3, <2>2
  <2> QED
    BY <1>3, <2>1, <2>2
<1>4. ASSUME NEW c \in Commits, NEW p \in Packages, NEW next, Publish(c, p, next)
      PROVE  [Promise!Next]_(Promise!vars)
  <2>1. /\ registry' \in {registry, registry \cup {<<p, created[c]>>}}
        /\ UNCHANGED <<tagged, announced, again>> /\ step[c] = p
    BY <1>4 DEF Publish, told, At
  <2>2. CASE registry' = registry
    BY <1>2, <2>1, <2>2
  <2>3. CASE registry' # registry
    <3>1. registry' = registry \cup {<<p, created[c]>>} /\ <<p, created[c]>> \notin registry
      BY <2>1, <2>3
    <3>2. created[c] \in tagged /\ created[c] \in Commits
      BY <1>1, <2>1 DEF PipelineInv, CreatedOK, Packages
    <3>3. p = "event" => <<"proto", created[c]>> \in registry
      BY <2>1 DEF OnceInv, ProtoFirst
    <3>4. Promise!Publish(p, created[c])
      BY <2>1, <3>1, <3>2, <3>3 DEF Promise!Publish
    <3> QED
      BY <3>2, <3>4 DEF Promise!Next, Packages
  <2> QED
    BY <2>2, <2>3
<1>5. ASSUME note.step = "tell", note.published, announced' = Announced,
             UNCHANGED <<tagged, registry, again>>
      PROVE  [Promise!Next]_(Promise!vars)
  <2>1. Notified \in Commits /\ Complete(Notified) /\ Due(Notified)
    BY <1>5 DEF PipelineInv, NoteTrue, OnceInv, NoteFirst
  <2>2. Promise!Announce(Notified)
    BY <1>5, <2>1 DEF Promise!Announce, Promise!Complete, Complete, Announced, Due
  <2> QED
    BY <2>1, <2>2 DEF Promise!Next
<1>6. CASE Push
  BY <1>2, <1>6 DEF Push, told
<1>7. CASE \E c \in Commits : RerunFailed(c) \/ RerunAll(c)
  BY <1>2, <1>7 DEF RerunFailed, RerunAll, Rerun, github, told
<1>8. ASSUME NEW c \in Commits, RunStep(c)
      PROVE  [Promise!Next]_(Promise!vars)
  <2>1. CASE ReleasePlease(c) \/ ReleasePleaseFails(c)
    BY <1>3, <2>1 DEF ReleasePlease, ReleasePleaseFails, told
  <2>2. CASE SetUp(c) \/ Verify(c)
    BY <1>2, <2>2 DEF SetUp, Verify, github, told
  <2>3. CASE PublishProto(c) \/ PublishEvent(c)
    BY <1>4, <2>3 DEF PublishProto, PublishEvent, Packages
  <2> QED
    BY <1>8, <2>1, <2>2, <2>3 DEF RunStep
<1>9. CASE NoteStep \/ NoteFails
  <2>1. /\ UNCHANGED <<tagged, registry, again>>
        /\ announced' = announced \/ (note.step = "tell" /\ note.published /\ announced' = Announced)
    BY <1>9 DEF NoteStep, NoteFails, Maintain, MaintainEnds, Skip, ReadRun, ReadRelease, ReadJobs,
                Tell, github, told
  <2> QED
    BY <1>2, <1>5, <2>1
<1>10. CASE UNCHANGED vars
  BY <1>2, <1>10 DEF vars, github, told
<1>11. CASE \E c \in Commits : RerunMaintenance(c)
  BY <1>2, <1>11 DEF RerunMaintenance, github, told
<1>12. ASSUME NEW e \in Events, RerunNotification(e)
       PROVE  [Promise!Next]_(Promise!vars)
  <2>1. UNCHANGED <<tagged, registry, announced>> /\ e.run \in Commits
    BY <1>12 DEF RerunNotification, github, told, Events
  <2>2. CASE e.conclusion = "success"
    <3>1. Promise!Ask(e.run)
      BY <1>12, <2>1, <2>2 DEF RerunNotification, Promise!Ask
    <3> QED
      BY <2>1, <3>1 DEF Promise!Next
  <2>3. CASE e.conclusion # "success"
    BY <1>2, <1>12, <2>1, <2>3 DEF RerunNotification
  <2> QED
    BY <2>2, <2>3
<1> QED
  BY <1>6, <1>7, <1>8, <1>9, <1>10, <1>11, <1>12 DEF Next

(* release.yml and release-automation.yml: however runs of the two are      *)
(* displaced, rerun and failed, a version gets its tag, geul-proto,         *)
(* geul-event in this order, and is announced after both are on the         *)
(* registry: once, and once more at most each time its notification is      *)
(* rerun.                                                                   *)
THEOREM PromiseIsKept == Spec => ImplementsPublication
<1>1. Init => Promise!Init
  BY DEF Init, Promise!Init
<1> QED
  BY <1>1, InitInv, NextInv, OnceInit, OnceNext, StepKeepsPromise, PTL
     DEF Spec, ImplementsPublication, Promise!Spec
=============================================================================

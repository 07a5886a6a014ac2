------------------------------ MODULE SolverSlice ------------------------------
(***************************************************************************)
(* One browser page of the PEEC workspace: the solver slice, the part of   *)
(* the design slice it depends on, and the thunks that solve, sweep and    *)
(* postprocess.  Every thunk reads the store when it starts, awaits the    *)
(* services and dispatches what it got, while the user goes on editing.    *)
(* A design is a version number: two versions are two different problems.  *)
(***************************************************************************)
EXTENDS Naturals, FiniteSets

CONSTANTS
  Fields,       \* field regions, and Directivity
  Directivity,  \* the far field: requested, but not a region
  Workflows,    \* postprocessing workflows that may run at once
  Points,       \* points of a parameter study
  MaxEdits,     \* bound of the edits of the design
  MaxDefs,      \* bound of the edits of a field definition
  MaxRuns       \* bound of the solves started

ASSUME SolverAssumption ==
  /\ Points \in Nat \ {0}
  /\ MaxEdits \in Nat /\ MaxDefs \in Nat /\ MaxRuns \in Nat

VARIABLES
  design,    \* [version, geom, solved]: geom = 0 at the user's own variables
  solver,    \* [status, flow, mode, stale, sweep]
  results,   \* the stored solution [run, version, geom], run = 0: none
  study,     \* the run of the stored parameter study, 0: none
  fields,    \* what is requested, stored and computed for each field
  posting,   \* postprocessingStatus
  posts,     \* the postprocessing workflows under way
  job,       \* the solve or the study under way
  runs,      \* solves started so far
  raced      \* the design changed while a solve was under way, or results of an
             \* older design were unflagged by a reload or a study without a nominal solve

vars == <<design, solver, results, study, fields, posting, posts, job, runs, raced>>

NoSolution == [run |-> 0, version |-> 0, geom |-> 0]
NoJob == [kind |-> "none", run |-> 0, version |-> 0, geom |-> 0, since |-> 0, point |-> 0, meshes |-> FALSE]
NoPost == [on |-> FALSE, run |-> 0, version |-> 0, mesh |-> 0, todo |-> {}, did |-> {},
           defs |-> [f \in Fields |-> 0], stray |-> FALSE]
NoField == [asked |-> "never", def |-> 0, state |-> "none",
            run |-> 0, version |-> 0, mesh |-> 0, of |-> 0, stray |-> FALSE]

Solving == solver.status \in {"preparing", "running"}
HasSweep == solver.sweep                                \* mutant
HasResults == results.run # 0 \/ solver.sweep
OfThisDesign == results.run = 0 \/ results.version = design.version
OldUnflagged == raced' = (raced \/ ~OfThisDesign)       \* history: what loses its flag
CanRequest == ~Solving /\ posting # "running"
CanPost == solver.flow \in {"solved", "ready"} /\ design.solved /\ CanRequest
Remembered == fields                                    \* mutant
Forgotten == [f \in Fields |-> [NoField EXCEPT !.asked = fields[f].asked, !.def = fields[f].def]]

Init ==
  /\ design = [version |-> 0, geom |-> 0, solved |-> FALSE]
  /\ solver = [status |-> "idle", flow |-> "idle", mode |-> "single",
               stale |-> FALSE, sweep |-> FALSE]
  /\ results = NoSolution /\ study = 0 /\ runs = 0 /\ raced = FALSE
  /\ fields = [f \in Fields |-> NoField]
  /\ posting = "idle" /\ posts = [w \in Workflows |-> NoPost] /\ job = NoJob
--------------------------------------------------------------------------------
(* The user edits the design. *)

Edited(solved) ==
  /\ design.version < MaxEdits
  /\ design' = [design EXCEPT !.version = @ + 1, !.solved = solved]
  /\ raced' = (raced \/ job.kind # "none")

\* mutant: an action that keeps isSolved is missing from the list
EditForgotten ==
  /\ \E solved \in {FALSE, design.solved} : Edited(solved)
  /\ UNCHANGED <<solver, results, study, fields, posting, posts, job, runs>>

\* Moves, removals, remeshes, visibility, locks: actions of the stale list. Some
\* of them leave isSolved alone (duplicates, visibility, locks, sources).
EditListed ==
  /\ \E solved \in {FALSE, design.solved} : Edited(solved)
  /\ solver' = [solver EXCEPT !.stale = @ \/ HasResults]
  /\ UNCHANGED <<results, study, fields, posting, posts, job, runs>>

\* A generated element, a circuit or the ground plane: not in the list.
EditUnlisted ==
  /\ Edited(FALSE)
  /\ UNCHANGED <<solver, results, study, fields, posting, posts, job, runs>>

\* The slider of a stored study puts the meshes of a point into the design.
Navigate ==
  /\ solver.mode = "sweep" /\ study # 0
  /\ \E p \in 1 .. Points : design' = [design EXCEPT !.geom = p]
  /\ UNCHANGED <<solver, results, study, fields, posting, posts, job, runs, raced>>
--------------------------------------------------------------------------------
(* The user edits the requested fields. A deleted region never comes back. *)

AskField(f) ==
  /\ fields[f].asked \in {"never"} \cup (IF f = Directivity THEN {"no"} ELSE {}) /\ CanRequest
  /\ fields' = [fields EXCEPT ![f].asked = "yes"]
  /\ UNCHANGED <<design, solver, results, study, posting, posts, job, runs, raced>>

EditField(f) ==
  /\ fields[f].asked = "yes" /\ fields[f].def < MaxDefs
  /\ fields' = [fields EXCEPT ![f].def = @ + 1,
                  ![f].state = IF @ = "none" \/ f = Directivity THEN @ ELSE "outdated"]
  /\ UNCHANGED <<design, solver, results, study, posting, posts, job, runs, raced>>

DropField(f) ==
  /\ fields[f].asked = "yes"
  /\ fields' = [fields EXCEPT ![f].asked = "no",
                  ![f].state = IF f = Directivity THEN @ ELSE "none"]
  /\ UNCHANGED <<design, solver, results, study, posting, posts, job, runs, raced>>
--------------------------------------------------------------------------------
(* Solving. A request is built from the design as it is at that moment. *)

Request(run, geom, rec) ==
  [rec EXCEPT !.run = run, !.version = design.version, !.geom = geom]

\* runMultiAntennaSimulation.pending: the old results go before the new arrive.
Pending ==
  /\ solver' = [solver EXCEPT !.status = "preparing", !.stale = FALSE, !.sweep = FALSE]
  /\ results' = NoSolution
  /\ fields' = Forgotten

StartSolve ==
  /\ CanRequest /\ runs < MaxRuns
  /\ runs' = runs + 1 /\ raced' = FALSE
  /\ job' = Request(runs', design.geom, [NoJob EXCEPT !.kind = "single"])
  /\ Pending
  /\ UNCHANGED <<design, study, posting, posts>>

\* No visible, unlocked element with a mesh: nothing is sent.
RefuseSolve ==
  /\ CanRequest
  /\ solver' = [solver EXCEPT !.status = "failed", !.flow = "idle"]
  /\ UNCHANGED <<design, results, study, fields, posting, posts, job, runs, raced>>

\* What runMultiAntennaSimulation.fulfilled and markAsSolved do to the store.
Fulfilled(mode, sweep) ==
  /\ results' = [run |-> job.run, version |-> job.version, geom |-> job.geom]
  /\ solver' = [status |-> "completed", flow |-> "solved", mode |-> mode,
                stale |-> FALSE, sweep |-> sweep]
  /\ fields' = Forgotten
  /\ posting' = "idle" /\ job' = NoJob

SolveOk ==
  /\ job.kind = "single"
  /\ Fulfilled("single", FALSE)
  /\ study' = 0
  /\ design' = [design EXCEPT !.solved = TRUE]
  /\ UNCHANGED <<posts, runs, raced>>

SolveFails ==
  /\ job.kind = "single"
  /\ solver' = [solver EXCEPT !.status = "failed", !.flow = "idle"]
  /\ job' = NoJob
  /\ UNCHANGED <<design, results, study, fields, posting, posts, runs, raced>>

\* A study over geometry remeshes at every point, one over frequency never.
StartStudy ==
  /\ CanRequest /\ runs < MaxRuns
  /\ runs' = runs + 1
  /\ \E b \in BOOLEAN :
       job' = [NoJob EXCEPT !.kind = "study", !.run = runs', !.since = design.version, !.meshes = b]
  /\ solver' = [solver EXCEPT !.status = "running"]
  /\ study' = 0
  /\ UNCHANGED <<design, results, fields, posting, posts, raced>>

\* remeshElementExpressions.fulfilled is itself an action of the stale list.
Remeshed(geom) ==
  /\ design' = IF job.meshes THEN [design EXCEPT !.geom = geom, !.solved = FALSE] ELSE design
  /\ solver' = [solver EXCEPT !.stale = @ \/ (job.meshes /\ HasResults)]

StudyPoint ==
  /\ job.kind = "study" /\ job.point < Points
  /\ Remeshed(job.point + 1)
  /\ job' = Request(job.run, design'.geom, [job EXCEPT !.point = @ + 1])
  /\ UNCHANGED <<results, study, fields, posting, posts, runs, raced>>

\* The nominal geometry comes back, except for an element locked meanwhile.
Restored == {0} \cup (IF design.version # job.since THEN {design.geom} ELSE {})

StudyNominal ==
  /\ job.kind = "study" /\ job.point = Points
  /\ \E geom \in Restored :
       /\ design' = IF job.meshes THEN [design EXCEPT !.geom = geom, !.solved = FALSE] ELSE design
       /\ job' = Request(job.run, design'.geom, [job EXCEPT !.kind = "nominal"])
  /\ Pending /\ raced' = FALSE
  /\ UNCHANGED <<study, posting, posts, runs>>

StudyOk ==
  /\ job.kind = "nominal"
  /\ Fulfilled("sweep", TRUE)
  /\ study' = job.run
  /\ design' = [design EXCEPT !.solved = TRUE]
  /\ UNCHANGED <<posts, runs, raced>>

\* The user's own variables give no frequency, or no element is left to solve:
\* the study is fulfilled over the old results, which are fresh from then.
StudySkips ==
  /\ job.kind = "study" /\ job.point = Points
  /\ \E geom \in Restored :
       design' = [design EXCEPT !.geom = IF job.meshes THEN geom ELSE @, !.solved = TRUE]
  /\ solver' = [status |-> "completed", flow |-> "solved", mode |-> "sweep",
                stale |-> FALSE, sweep |-> TRUE]
  /\ study' = job.run /\ job' = NoJob /\ OldUnflagged
  /\ UNCHANGED <<results, fields, posting, posts, runs>>

\* mutant: the failure of a study leaves its status behind
StudyVanishes ==
  /\ job.kind \in {"study", "nominal"}
  /\ job' = NoJob
  /\ UNCHANGED <<design, solver, results, study, fields, posting, posts, runs, raced>>

\* A point or the nominal solve fails; the restore may fail as well.
StudyFails ==
  /\ job.kind \in {"study", "nominal"}
  /\ \E geom \in {0, design.geom} :
       design' = IF job.meshes THEN [design EXCEPT !.geom = geom, !.solved = FALSE] ELSE design
  /\ solver' = [solver EXCEPT !.status = "failed", !.stale = @ \/ (job.meshes /\ HasResults)]
  /\ job' = NoJob
  /\ UNCHANGED <<results, study, fields, posting, posts, runs, raced>>
--------------------------------------------------------------------------------
(* Postprocessing: the workflow computes what is not computed yet. *)

Missing == {f \in Fields : fields[f].asked = "yes" /\ fields[f].state # "done"}

\* A sweep with snapshots of its own meshes, or the solution with the meshes
\* that the design has now. Without its nominal solve a study is of another run.
Source ==
  IF solver.mode = "sweep" /\ study # 0
  THEN [ok |-> solver.sweep, run |-> study, version |-> 0, mesh |-> 0]
  ELSE [ok |-> results.run # 0, run |-> results.run,
        version |-> results.version, mesh |-> design.version]

StartPost(w) ==
  /\ CanPost /\ ~posts[w].on
  /\ IF Source.ok
     THEN /\ posts' = [posts EXCEPT ![w] =
               [on |-> TRUE, run |-> Source.run, version |-> Source.version, mesh |-> Source.mesh,
                todo |-> Missing, did |-> {},
                stray |-> (\E v \in Workflows : posts[v].on) \/ Source.run # results.run,
                defs |-> [f \in Fields |-> fields[f].def]]]
          /\ posting' = "running"
     ELSE posting' = "failed" /\ UNCHANGED posts
  /\ UNCHANGED <<design, solver, results, study, fields, job, runs, raced>>

\* The answer for a field: setFieldData and updateFieldResult.
ComputeField(w, f) ==
  /\ posts[w].on /\ f \in posts[w].todo
  /\ fields' = [fields EXCEPT ![f] =
       [@ EXCEPT !.state = "done", !.run = posts[w].run, !.version = posts[w].version,
                 !.mesh = posts[w].mesh, !.of = posts[w].defs[f], !.stray = posts[w].stray]]
  /\ posts' = [posts EXCEPT ![w].todo = @ \ {f}, ![w].did = @ \cup {f}]
  /\ UNCHANGED <<design, solver, results, study, posting, job, runs, raced>>

\* Fulfilled writes the states of its own fields a second time.
PostOk(w) ==
  /\ posts[w].on /\ posts[w].todo = {}
  /\ fields' = [f \in Fields |->
       IF f \in posts[w].did
       THEN [fields[f] EXCEPT !.state = "done", !.stray = @ \/ posts[w].stray]
       ELSE fields[f]]
  /\ solver' = [solver EXCEPT !.flow = "ready"]
  /\ posting' = "completed"
  /\ posts' = [posts EXCEPT ![w] = NoPost]
  /\ UNCHANGED <<design, results, study, job, runs, raced>>

PostFails(w) ==
  /\ posts[w].on
  /\ posting' = "failed"
  /\ posts' = [posts EXCEPT ![w] = NoPost]
  /\ UNCHANGED <<design, solver, results, study, fields, job, runs, raced>>

\* mutant: a status that no reducer knows
CancelUnknown ==
  /\ posting = "running"
  /\ posting' = "cancelled"
  /\ posts' = [w \in Workflows |-> [posts[w] EXCEPT !.stray = posts[w].on]]
  /\ UNCHANGED <<design, solver, results, study, fields, job, runs, raced>>

\* The stop button changes what is shown; the workflows run on.
CancelPost ==
  /\ posting = "running"
  /\ posting' = "idle"
  /\ posts' = [w \in Workflows |-> [posts[w] EXCEPT !.stray = posts[w].on]]
  /\ UNCHANGED <<design, solver, results, study, fields, job, runs, raced>>
--------------------------------------------------------------------------------
\* The page is loaded again: what the automatic save wrote comes back, thunks
\* die, and results are taken to be valid.
Reload ==
  /\ solver' = [solver EXCEPT !.status = "idle", !.stale = FALSE]
  /\ design' = [design EXCEPT !.solved = solver.flow \in {"solved", "ready"} \/ HasResults]
  /\ job' = NoJob /\ posting' = "idle" /\ posts' = [w \in Workflows |-> NoPost]
  /\ OldUnflagged
  /\ UNCHANGED <<results, study, fields, runs>>

SolveAnswer ==
  SolveOk \/ SolveFails \/ StudyPoint \/ StudyNominal \/ StudySkips \/ StudyOk \/ StudyFails
PostAnswer(w) == PostOk(w) \/ PostFails(w) \/ \E f \in Fields : ComputeField(w, f)

Next ==
  \/ EditListed \/ EditUnlisted \/ Navigate
  \/ \E f \in Fields : AskField(f) \/ EditField(f) \/ DropField(f)
  \/ StartSolve \/ RefuseSolve \/ StartStudy
  \/ \E w \in Workflows : StartPost(w)
  \/ CancelPost \/ Reload
  \/ SolveAnswer
  \/ \E w \in Workflows : PostAnswer(w)

Spec == Init /\ [][Next]_vars

\* Every call to a service ends, with an answer or with its time limit.
FairSpec == Spec /\ WF_vars(SolveAnswer) /\ \A w \in Workflows : WF_vars(PostAnswer(w))
--------------------------------------------------------------------------------
TypeOK ==
  /\ design \in [version : 0 .. MaxEdits, geom : 0 .. Points, solved : BOOLEAN]
  /\ solver \in [status : {"idle", "preparing", "running", "completed", "failed"},
                 flow : {"idle", "solved", "ready"}, mode : {"single", "sweep"},
                 stale : BOOLEAN, sweep : BOOLEAN]
  /\ results \in [run : 0 .. MaxRuns, version : 0 .. MaxEdits, geom : 0 .. Points]
  /\ study \in 0 .. MaxRuns /\ runs \in 0 .. MaxRuns /\ raced \in BOOLEAN
  /\ fields \in [Fields -> [asked : {"never", "yes", "no"}, def : 0 .. MaxDefs, state : {"none", "done", "outdated"},
                            run : 0 .. MaxRuns, version : 0 .. MaxEdits, mesh : 0 .. MaxEdits,
                            of : 0 .. MaxDefs, stray : BOOLEAN]]
  /\ posting \in {"idle", "running", "completed", "failed"}
  /\ posts \in [Workflows -> [on : BOOLEAN, run : 0 .. MaxRuns, version : 0 .. MaxEdits,
                              mesh : 0 .. MaxEdits, todo : SUBSET Fields, did : SUBSET Fields,
                              defs : [Fields -> 0 .. MaxDefs], stray : BOOLEAN]]
  /\ job \in [kind : {"none", "single", "study", "nominal"}, run : 0 .. MaxRuns,
              version : 0 .. MaxEdits, geom : 0 .. Points, since : 0 .. MaxEdits,
              point : 0 .. Points, meshes : BOOLEAN]

\* Results that the workspace shows as solved and up to date were computed for
\* the design as it is, unless the design was edited during the solve, or older
\* results were there when the page was loaded again or when a study ended
\* without its nominal solve (parameterStudyThunks.ts:236), which unflags them.
FreshMeansCurrent ==
  results.run # 0 /\ design.solved /\ ~solver.stale /\ ~raced
    => results.version = design.version

\* A field shown as computed comes from the stored solution and no earlier one,
\* unless a postprocessing that was stopped went on and wrote it, or one of a
\* study that ended without its nominal solve: its run is not the solution's.
FieldsOfTheSolution ==
  \A f \in Fields :
    fields[f].state = "done" /\ ~fields[f].stray
      => results.run # 0 /\ fields[f].run = results.run

\* A field computed with the meshes of another design than its currents is at
\* least flagged: postprocessing takes the meshes of the moment.
MeshOfTheSolution ==
  \A f \in Fields :
    fields[f].state = "done" /\ ~fields[f].stray /\ ~raced /\ fields[f].mesh # fields[f].version
      => solver.stale

\* No solve, study or postprocessing keeps the workspace busy for ever.
Settles ==
  /\ Solving ~> ~Solving
  /\ posting = "running" ~> posting # "running"

\* What the comments claim, and the code does not do.

\* "results go stale" when the ground plane, and any other part of the problem,
\* changes (designSlice.ts:897): results that are not stale are current.
UnflaggedIsCurrent ==
  results.run # 0 /\ ~solver.stale /\ ~raced => results.version = design.version

\* "Fresh results, not stale" (solverSlice.ts:1759), "Sweep results are fresh"
\* (solverSlice.ts:1992), and "we assume restored results are valid"
\* (solverSlice.ts:1613): FreshMeansCurrent without its exceptions.
SolvedIsCurrent ==
  results.run # 0 /\ design.solved /\ ~solver.stale /\ job = NoJob
    => results.version = design.version

\* "navigating sweep points ... is purely visual" (SolverTab.tsx:431): what is
\* solved is the design at the user's own variables.
SolvesNominal == results.geom = 0

\* "Mark result as outdated when computation-affecting properties change"
\* (solverSlice.ts:1542): a field shown as computed has its present definition.
FieldsAsDefined ==
  \A f \in Fields \ {Directivity} : fields[f].state = "done" => fields[f].of = fields[f].def

\* "Clear field results when new solution is computed (fields need recomputing)"
\* (solverSlice.ts:1761): FieldsOfTheSolution without its exceptions.
FieldsRecomputed ==
  \A f \in Fields :
    fields[f].state = "done" => results.run # 0 /\ fields[f].run = results.run
--------------------------------------------------------------------------------
(* What each of these comments leaves unsaid: a claim holds in the         *)
(* behaviours of a user who keeps to one rule, and not without it.         *)

\* The ground plane, a circuit or a generated element, which the list of
\* solverSlice.ts:1470 does not name, changes only while nothing is solved.
FlaggedEdits == [][EditUnlisted => ~HasResults]_vars

\* The design stays as it is while a solve is under way (solverSlice.ts:1759),
\* and a page that is loaded again, or a study that ends without its nominal
\* solve, finds results of the design it holds (solverSlice.ts:1613, 1992).
Undisturbed ==
  [][/\ job # NoJob => design'.version = design.version
     /\ Reload \/ StudySkips => OfThisDesign]_vars

\* What is solved once, or swept over frequency, is the design at the user's own
\* variables: solveSingleFrequencyWorkflow takes the meshes as the slider left
\* them. And nothing is edited during a study: an element locked meanwhile keeps
\* the mesh of a point when the others are restored.
SolvesAtNominal ==
  [][/\ StartSolve \/ (StartStudy /\ ~job'.meshes) => design.geom = 0
     /\ job.kind = "study" => design'.version = design.version]_vars

\* Nobody presses the stop button of a postprocessing, which stops nothing.
NeverStopped == [][~CancelPost]_vars

\* At the user's own variables there is a frequency, and an element to solve.
NominalRuns == [][~StudySkips]_vars

\* Nobody edits a region while its field is being computed.
EditsWait == [][posting = "running" => \A f \in Fields \ {Directivity} : ~EditField(f)]_vars

\* A solve under way is of the nominal geometry. A study starts without a stored
\* one, so that the slider is dead until it has ended.
NominalInv ==
  /\ results.geom = 0
  /\ job.kind \in {"single", "nominal"} => job.geom = 0
  /\ job.kind = "study" =>
       study = 0 /\ job.since = design.version /\ (~job.meshes => design.geom = 0)

\* Without the stop button one postprocessing runs at a time.
StoppedInv ==
  \A w \in Workflows : posts[w].on =>
    posting = "running" /\ \A v \in Workflows : posts[v].on => v = w

\* And if every study ends with its nominal solve, then all that is computed is
\* of the run of the stored solution.
StrayInv ==
  /\ solver.sweep /\ study # 0 => study = results.run
  /\ \A w \in Workflows : ~posts[w].stray
  /\ \A f \in Fields : ~fields[f].stray

\* The definitions that a workflow read are still those of the regions, and what
\* it wrote was computed from them.
DefsInv ==
  \A f \in Fields \ {Directivity} :
    /\ fields[f].state = "done" => fields[f].of = fields[f].def
    /\ \A w \in Workflows : posts[w].on =>
         /\ posts[w].defs[f] = fields[f].def
         /\ f \in posts[w].did => fields[f].of = fields[f].def
================================================================================

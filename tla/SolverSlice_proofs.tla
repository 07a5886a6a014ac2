------------------------- MODULE SolverSlice_proofs -------------------------
(***************************************************************************)
(* Proofs about SolverSlice, for every set of fields, any number of        *)
(* postprocessing workflows at once and every bound of the edits and       *)
(* solves.                                                                 *)
(***************************************************************************)
EXTENDS SolverSlice, TLAPS

Designs == [version : 0 .. MaxEdits, geom : 0 .. Points, solved : BOOLEAN]
Solvers == [status : {"idle", "preparing", "running", "completed", "failed"},
            flow : {"idle", "solved", "ready"}, mode : {"single", "sweep"},
            stale : BOOLEAN, sweep : BOOLEAN]
Solutions == [run : 0 .. MaxRuns, version : 0 .. MaxEdits, geom : 0 .. Points]
FieldStates == [asked : {"never", "yes", "no"}, def : 0 .. MaxDefs,
                state : {"none", "done", "outdated"},
                run : 0 .. MaxRuns, version : 0 .. MaxEdits, mesh : 0 .. MaxEdits,
                of : 0 .. MaxDefs, stray : BOOLEAN]
Posts == [on : BOOLEAN, run : 0 .. MaxRuns, version : 0 .. MaxEdits,
          mesh : 0 .. MaxEdits, todo : SUBSET Fields, did : SUBSET Fields,
          defs : [Fields -> 0 .. MaxDefs], stray : BOOLEAN]
Jobs == [kind : {"none", "single", "study", "nominal"}, run : 0 .. MaxRuns,
         version : 0 .. MaxEdits, geom : 0 .. Points, since : 0 .. MaxEdits,
         point : 0 .. Points, meshes : BOOLEAN]

LEMMA TypeParts ==
  TypeOK <=>
    /\ design \in Designs /\ solver \in Solvers /\ results \in Solutions
    /\ study \in 0 .. MaxRuns /\ runs \in 0 .. MaxRuns /\ raced \in BOOLEAN
    /\ fields \in [Fields -> FieldStates]
    /\ posting \in {"idle", "running", "completed", "failed"}
    /\ posts \in [Workflows -> Posts] /\ job \in Jobs
BY DEF TypeOK, Designs, Solvers, Solutions, FieldStates, Posts, Jobs

LEMMA Constants ==
  /\ NoSolution \in Solutions /\ NoJob \in Jobs /\ NoPost \in Posts
  /\ NoField \in FieldStates
<1>1. 0 \in 0 .. MaxRuns /\ 0 \in 0 .. MaxEdits /\ 0 \in 0 .. Points /\ 0 \in 0 .. MaxDefs
  BY SolverAssumption
<1>2. [f \in Fields |-> 0] \in [Fields -> 0 .. MaxDefs]
  BY <1>1
<1> QED
  BY <1>1, <1>2 DEF NoSolution, Solutions, NoJob, Jobs, NoPost, Posts, NoField, FieldStates

(* One field of a record changes, the others keep their type. *)
LEMMA DesignType ==
  ASSUME NEW d \in Designs, NEW g \in 0 .. Points, NEW b \in BOOLEAN
  PROVE  /\ [d EXCEPT !.geom = g] \in Designs
         /\ [d EXCEPT !.solved = b] \in Designs
         /\ [d EXCEPT !.geom = g, !.solved = b] \in Designs
BY DEF Designs

LEMMA SolverType ==
  ASSUME NEW s \in Solvers, NEW b \in BOOLEAN,
         NEW x \in {"idle", "preparing", "running", "completed", "failed"},
         NEW w \in {"idle", "solved", "ready"}
  PROVE  /\ [s EXCEPT !.stale = b] \in Solvers
         /\ [s EXCEPT !.flow = w] \in Solvers
         /\ [s EXCEPT !.status = x] \in Solvers
         /\ [s EXCEPT !.status = x, !.flow = w] \in Solvers
         /\ [s EXCEPT !.status = x, !.stale = b] \in Solvers
         /\ [s EXCEPT !.status = x, !.stale = FALSE, !.sweep = FALSE] \in Solvers
BY DEF Solvers

LEMMA EditedType ==
  ASSUME TypeOK, NEW b \in BOOLEAN, Edited(b)
  PROVE  design' \in Designs /\ raced' \in BOOLEAN
<1>1. design.version + 1 \in 0 .. MaxEdits
  BY SolverAssumption DEF TypeOK, Edited
<1> QED
  BY <1>1 DEF TypeOK, Edited, Designs

LEMMA ForgottenType ==
  ASSUME TypeOK
  PROVE  Forgotten \in [Fields -> FieldStates]
<1> SUFFICES ASSUME NEW f \in Fields
             PROVE  [NoField EXCEPT !.asked = fields[f].asked, !.def = fields[f].def] \in FieldStates
  BY DEF Forgotten
<1>1. NoField \in FieldStates /\ fields[f] \in FieldStates
  BY Constants, TypeParts
<1> QED
  BY <1>1 DEF FieldStates

LEMMA JobType ==
  ASSUME TypeOK, NEW run \in 0 .. MaxRuns, NEW geom \in 0 .. Points, NEW rec \in Jobs
  PROVE  Request(run, geom, rec) \in Jobs
<1>1. design.version \in 0 .. MaxEdits
  BY DEF TypeOK
<1> QED
  BY <1>1 DEF Request, Jobs

LEMMA PendingType ==
  ASSUME TypeOK, Pending
  PROVE  /\ solver' \in Solvers /\ results' \in Solutions
         /\ fields' \in [Fields -> FieldStates]
BY ForgottenType, Constants, TypeParts, SolverType DEF Pending

LEMMA FulfilledType ==
  ASSUME TypeOK, NEW m \in {"single", "sweep"}, NEW b \in BOOLEAN, Fulfilled(m, b)
  PROVE  /\ solver' \in Solvers /\ results' \in Solutions
         /\ fields' \in [Fields -> FieldStates]
         /\ posting' \in {"idle", "running", "completed", "failed"} /\ job' \in Jobs
<1>1. results' \in Solutions
  BY DEF Fulfilled, TypeOK, Solutions
<1>2. solver' \in Solvers
  BY DEF Fulfilled, Solvers
<1> QED
  BY <1>1, <1>2, ForgottenType, Constants DEF Fulfilled

(* A field keeps its type when one of its own changes. *)
LEMMA FieldType ==
  ASSUME NEW x \in FieldStates, NEW b \in BOOLEAN, NEW p \in Posts, NEW f \in Fields
  PROVE  /\ [x EXCEPT !.state = "done", !.run = p.run, !.version = p.version,
                      !.mesh = p.mesh, !.of = p.defs[f], !.stray = p.stray] \in FieldStates
         /\ [x EXCEPT !.state = "done", !.stray = b] \in FieldStates
         /\ [x EXCEPT !.asked = "yes"] \in FieldStates
         /\ \A s \in {"none", "done", "outdated"} :
              /\ [x EXCEPT !.asked = "no", !.state = s] \in FieldStates
              /\ \A n \in 0 .. MaxDefs : [x EXCEPT !.def = n, !.state = s] \in FieldStates
<1>1. p.defs[f] \in 0 .. MaxDefs
  BY DEF Posts
<1> QED
  BY <1>1 DEF FieldStates, Posts

(* Every variable keeps its type.                                          *)
THEOREM TypeCorrect == Spec => []TypeOK
<1>1. Init => TypeOK
  <2> SUFFICES ASSUME Init PROVE TypeOK
    OBVIOUS
  <2>1. design \in Designs /\ solver \in Solvers
    BY SolverAssumption DEF Init, Designs, Solvers
  <2>2. results \in Solutions /\ job \in Jobs
    BY Constants DEF Init
  <2>3. fields \in [Fields -> FieldStates] /\ posts \in [Workflows -> Posts]
    BY Constants DEF Init
  <2>4. study \in 0 .. MaxRuns /\ runs \in 0 .. MaxRuns
    BY SolverAssumption DEF Init
  <2>5. raced \in BOOLEAN /\ posting \in {"idle", "running", "completed", "failed"}
    BY DEF Init
  <2> QED
    BY <2>1, <2>2, <2>3, <2>4, <2>5, TypeParts
<1>2. TypeOK /\ [Next]_vars => TypeOK'
  <2> SUFFICES ASSUME TypeOK, [Next]_vars PROVE TypeOK'
    OBVIOUS
  <2>p. /\ design' \in Designs /\ solver' \in Solvers /\ results' \in Solutions
        /\ study' \in 0 .. MaxRuns /\ runs' \in 0 .. MaxRuns /\ raced' \in BOOLEAN
        /\ fields' \in [Fields -> FieldStates]
        /\ posting' \in {"idle", "running", "completed", "failed"}
        /\ posts' \in [Workflows -> Posts] /\ job' \in Jobs
        => TypeOK'
    BY DEF TypeOK, Designs, Solvers, Solutions, FieldStates, Posts, Jobs
  <2>t. /\ design \in Designs /\ solver \in Solvers /\ results \in Solutions
        /\ study \in 0 .. MaxRuns /\ runs \in 0 .. MaxRuns /\ raced \in BOOLEAN
        /\ fields \in [Fields -> FieldStates]
        /\ posting \in {"idle", "running", "completed", "failed"}
        /\ posts \in [Workflows -> Posts] /\ job \in Jobs
    BY TypeParts
  <2>b. /\ design.solved \in BOOLEAN /\ solver.stale \in BOOLEAN /\ job.meshes \in BOOLEAN
        /\ HasResults \in BOOLEAN /\ design.geom \in 0 .. Points /\ 0 \in 0 .. Points
        /\ 0 \in 0 .. MaxRuns
    BY <2>t, SolverAssumption DEF Designs, Solvers, Jobs, HasResults
  <2>n. runs < MaxRuns => runs + 1 \in 0 .. MaxRuns
    BY <2>t, SolverAssumption
  <2>1. ASSUME EditListed PROVE TypeOK'
    BY <2>1, <2>p, <2>t, <2>b, EditedType, SolverType DEF EditListed
  <2>2. ASSUME EditUnlisted PROVE TypeOK'
    BY <2>2, <2>p, <2>t, EditedType DEF EditUnlisted
  <2>3. ASSUME Navigate PROVE TypeOK'
    <3>1. 1 .. Points \subseteq 0 .. Points
      BY SolverAssumption
    <3> QED
      BY <2>3, <3>1, <2>p, <2>t, DesignType DEF Navigate
  <2>4. ASSUME NEW f \in Fields, AskField(f) \/ EditField(f) \/ DropField(f) PROVE TypeOK'
    <3>1. fields[f] \in FieldStates
      BY <2>t
    <3>2. fields[f].def < MaxDefs => fields[f].def + 1 \in 0 .. MaxDefs
      BY <3>1, SolverAssumption DEF FieldStates
    <3>3. fields[f].state \in {"none", "done", "outdated"}
      BY <3>1 DEF FieldStates
    <3>4. [fields[f] EXCEPT !.asked = "yes"] \in FieldStates
      BY <3>1 DEF FieldStates
    <3>5. fields[f].def < MaxDefs =>
            [fields[f] EXCEPT !.def = @ + 1,
               !.state = IF @ = "none" \/ f = Directivity THEN @ ELSE "outdated"] \in FieldStates
      BY <3>1, <3>2, <3>3 DEF FieldStates
    <3>6. [fields[f] EXCEPT !.asked = "no",
             !.state = IF f = Directivity THEN @ ELSE "none"] \in FieldStates
      BY <3>1, <3>3 DEF FieldStates
    <3>7. fields' \in [Fields -> FieldStates]
      BY <2>4, <2>t, <3>4, <3>5, <3>6 DEF AskField, EditField, DropField
    <3> QED
      BY <2>4, <3>7, <2>p, <2>t DEF AskField, EditField, DropField
  <2>5. ASSUME StartSolve PROVE TypeOK'
    <3>1. [NoJob EXCEPT !.kind = "single"] \in Jobs
      BY Constants DEF Jobs
    <3>2. job' \in Jobs
      BY <2>5, <3>1, <2>n, <2>b, JobType DEF StartSolve
    <3> QED
      BY <2>5, <3>2, <2>p, <2>t, <2>n, PendingType DEF StartSolve
  <2>6. ASSUME RefuseSolve PROVE TypeOK'
    BY <2>6, <2>p, <2>t, SolverType DEF RefuseSolve
  <2>7. ASSUME StartStudy PROVE TypeOK'
    <3>1. job' \in Jobs
      BY <2>7, <2>n, <2>t, Constants DEF StartStudy, Jobs, Designs
    <3> QED
      BY <2>7, <3>1, <2>p, <2>t, <2>n, <2>b, SolverType DEF StartStudy
  <2>8. ASSUME SolveOk PROVE TypeOK'
    BY <2>8, <2>p, <2>t, <2>b, FulfilledType, DesignType DEF SolveOk
  <2>9. ASSUME SolveFails PROVE TypeOK'
    BY <2>9, <2>p, <2>t, Constants, SolverType DEF SolveFails
  <2>10. ASSUME StudyPoint PROVE TypeOK'
    <3>1. job.point + 1 \in 0 .. Points
      BY <2>10, <2>t, SolverAssumption DEF StudyPoint, Jobs
    <3>2. design' \in Designs
      BY <2>10, <3>1, <2>t, DesignType DEF StudyPoint, Remeshed
    <3>3. design'.geom \in 0 .. Points /\ job.run \in 0 .. MaxRuns
      BY <3>2, <2>t DEF Designs, Jobs
    <3>4. [job EXCEPT !.point = @ + 1] \in Jobs
      BY <3>1, <2>t DEF Jobs
    <3>5. job' \in Jobs
      BY <2>10, <3>3, <3>4, JobType DEF StudyPoint
    <3>6. solver' \in Solvers
      BY <2>10, <2>t, <2>b, SolverType DEF StudyPoint, Remeshed
    <3> QED
      BY <2>10, <3>2, <3>5, <3>6, <2>p, <2>t DEF StudyPoint
  <2>11. ASSUME StudyNominal PROVE TypeOK'
    <3>1. PICK geom \in {0} \cup (IF design.version # job.since THEN {design.geom} ELSE {}) :
            /\ design' = IF job.meshes THEN [design EXCEPT !.geom = geom, !.solved = FALSE] ELSE design
            /\ job' = Request(job.run, design'.geom, [job EXCEPT !.kind = "nominal"])
      BY <2>11 DEF StudyNominal, Restored
    <3>2. geom \in 0 .. Points
      BY <2>b
    <3>3. design' \in Designs
      BY <3>1, <3>2, <2>t, DesignType
    <3>4. design'.geom \in 0 .. Points /\ job.run \in 0 .. MaxRuns
      BY <3>3, <2>t DEF Designs, Jobs
    <3>5. [job EXCEPT !.kind = "nominal"] \in Jobs
      BY <2>t DEF Jobs
    <3>6. job' \in Jobs
      BY <3>1, <3>4, <3>5, JobType
    <3> QED
      BY <2>11, <3>3, <3>6, <2>p, <2>t, PendingType DEF StudyNominal
  <2>s. ASSUME StudySkips PROVE TypeOK'
    <3>1. \A g \in Restored : g \in 0 .. Points
      BY <2>b DEF Restored
    <3>2. design' \in Designs
      BY <2>s, <2>t, <2>b, <3>1, DesignType DEF StudySkips
    <3>3. solver' \in Solvers /\ study' \in 0 .. MaxRuns
      BY <2>s, <2>t DEF StudySkips, Solvers, Jobs
    <3>4. raced' \in BOOLEAN
      BY <2>s, <2>t DEF StudySkips, OldUnflagged
    <3> QED
      BY <2>s, <3>2, <3>3, <3>4, <2>p, <2>t, Constants DEF StudySkips
  <2>12. ASSUME StudyOk PROVE TypeOK'
    <3>1. job.run \in 0 .. MaxRuns /\ study' \in 0 .. MaxRuns
      BY <2>12, <2>t DEF Jobs, StudyOk
    <3>2. design' \in Designs
      BY <2>12, <2>t DEF StudyOk, Designs
    <3>3. Fulfilled("sweep", TRUE) /\ UNCHANGED <<posts, runs, raced>>
      BY <2>12 DEF StudyOk
    <3>4. /\ solver' \in Solvers /\ results' \in Solutions
          /\ fields' \in [Fields -> FieldStates]
          /\ posting' \in {"idle", "running", "completed", "failed"} /\ job' \in Jobs
      BY <3>3, FulfilledType
    <3> QED
      BY <3>1, <3>2, <3>3, <3>4, <2>p, <2>t
  <2>13. ASSUME StudyFails PROVE TypeOK'
    BY <2>13, <2>p, <2>t, <2>b, Constants, DesignType, SolverType DEF StudyFails
  <2>14. ASSUME NEW w \in Workflows, StartPost(w) PROVE TypeOK'
    <3>1. Source.ok => /\ Source.run \in 0 .. MaxRuns /\ Source.version \in 0 .. MaxEdits
                       /\ Source.mesh \in 0 .. MaxEdits
      BY <2>t, SolverAssumption DEF Source, Designs, Solutions
    <3>2. Missing \in SUBSET Fields /\ [f \in Fields |-> fields[f].def] \in [Fields -> 0 .. MaxDefs]
      BY <2>t DEF Missing, FieldStates
    <3>3. posts' \in [Workflows -> Posts]
      <4> DEFINE New == [on |-> TRUE, run |-> Source.run, version |-> Source.version,
                         mesh |-> Source.mesh, todo |-> Missing, did |-> {},
                         stray |-> (\E v \in Workflows : posts[v].on) \/ Source.run # results.run,
                         defs |-> [f \in Fields |-> fields[f].def]]
      <4>1. Source.ok => New \in Posts
        <5>1. /\ ((\E v \in Workflows : posts[v].on) \/ Source.run # results.run) \in BOOLEAN
              /\ {} \in SUBSET Fields
          OBVIOUS
        <5> QED
          BY <5>1, <3>1, <3>2 DEF Posts
      <4>2. posts' = IF Source.ok THEN [posts EXCEPT ![w] = New] ELSE posts
        BY <2>14 DEF StartPost
      <4> HIDE DEF New
      <4> QED
        BY <4>1, <4>2, <2>t
    <3> QED
      BY <2>14, <3>3, <2>p, <2>t DEF StartPost
  <2>15. ASSUME NEW w \in Workflows, PostAnswer(w) PROVE TypeOK'
    <3>t. posts[w] \in Posts /\ posts[w].stray \in BOOLEAN
      BY <2>t DEF Posts
    <3>1. CASE PostOk(w)
      <4>1. \A f \in Fields : (fields[f].stray \/ posts[w].stray) \in BOOLEAN
        OBVIOUS
      <4>2. fields' \in [Fields -> FieldStates]
        BY <3>1, <2>t, <3>t, <4>1 DEF PostOk, FieldStates
      <4> QED
        BY <3>1, <4>2, <2>p, <2>t, Constants, SolverType DEF PostOk
    <3>2. CASE PostFails(w)
      BY <3>2, <2>p, <2>t, Constants DEF PostFails
    <3>3. ASSUME NEW f \in Fields, ComputeField(w, f) PROVE TypeOK'
      <4>1. fields' \in [Fields -> FieldStates]
        BY <3>3, <2>t, <3>t, FieldType DEF ComputeField
      <4>2. [posts[w] EXCEPT !.todo = @ \ {f}, !.did = @ \cup {f}] \in Posts
        BY <3>t DEF Posts
      <4>3. posts' \in [Workflows -> Posts]
        BY <3>3, <2>t, <4>2 DEF ComputeField
      <4> QED
        BY <3>3, <4>1, <4>3, <2>p, <2>t DEF ComputeField
    <3> QED
      BY <2>15, <3>1, <3>2, <3>3 DEF PostAnswer
  <2>16. ASSUME CancelPost PROVE TypeOK'
    <3>1. posts' \in [Workflows -> Posts]
      BY <2>16, <2>t DEF CancelPost, Posts
    <3> QED
      BY <2>16, <3>1, <2>p, <2>t DEF CancelPost
  <2>17. ASSUME Reload PROVE TypeOK'
    <3>1. solver' \in Solvers
      BY <2>17, <2>t DEF Reload, Solvers
    <3>2. design' \in Designs
      BY <2>17, <2>t, <2>b, DesignType DEF Reload
    <3> QED
      BY <2>17, <3>1, <3>2, <2>p, <2>t, Constants DEF Reload, OldUnflagged
  <2>18. ASSUME UNCHANGED vars PROVE TypeOK'
    BY <2>18, <2>p, <2>t DEF vars
  <2> QED
    BY <2>1, <2>2, <2>3, <2>4, <2>5, <2>6, <2>7, <2>8, <2>9, <2>10, <2>11, <2>s, <2>12, <2>13,
       <2>14, <2>15, <2>16, <2>17, <2>18 DEF Next, SolveAnswer
<1> QED
  BY <1>1, <1>2, PTL DEF Spec

(* The inductive invariant behind the safety properties.                   *)

(* x is a postprocessing or a computed field: its currents are those of    *)
(* the stored solution res, and if its meshes are of another version than  *)
(* the currents, then of a later one, and something tells so.              *)
Sound(x, res, version, stale, r) ==
  /\ res.run # 0 /\ x.run = res.run
  /\ x.version # x.mesh =>
       /\ x.version = res.version /\ x.version <= x.mesh /\ x.mesh <= version
       /\ r \/ stale

SoundNow(x) == Sound(x, results, design.version, solver.stale, raced)

JobInv ==
  /\ results.version <= design.version /\ job.version <= design.version
  /\ job.kind \in {"single", "nominal"} /\ ~raced => job.version = design.version
  /\ job.kind # "none" => Solving /\ job.run # 0
  /\ posting = "running" => ~Solving

FieldsInv ==
  \A f \in Fields : fields[f].state = "done" /\ ~fields[f].stray => SoundNow(fields[f])

PostsInv ==
  \A w \in Workflows : posts[w].on /\ ~posts[w].stray =>
    /\ posting = "running" /\ SoundNow(posts[w])
    /\ \A v \in Workflows : posts[v].on => v = w
    /\ \A f \in posts[w].did : ~fields[f].stray => SoundNow(fields[f])

IInv == TypeOK /\ FreshMeansCurrent /\ JobInv /\ FieldsInv /\ PostsInv

LEMMA SoundKept ==
  ASSUME NEW x, NEW res, NEW v1 \in Nat, NEW v2 \in Nat, v1 <= v2, x.mesh \in Nat,
         NEW s1, NEW s2, s1 => s2, NEW r1, NEW r2, r1 => r2,
         Sound(x, res, v1, s1, r1)
  PROVE  Sound(x, res, v2, s2, r2)
BY DEF Sound

(* An edit, or any step that keeps the solution and forgets no warning.    *)
LEMMA SoundStays ==
  ASSUME TypeOK, TypeOK', results' = results, design.version <= design'.version,
         solver.stale => solver'.stale, raced => raced',
         NEW x, x.mesh \in Nat, Sound(x, results, design.version, solver.stale, raced)
  PROVE  Sound(x, results', design'.version, solver'.stale, raced')
<1>1. design.version \in Nat /\ design'.version \in Nat
  BY SolverAssumption DEF TypeOK
<1>2. Sound(x, results, design'.version, solver'.stale, raced')
  BY <1>1, SoundKept
<1> QED
  BY <1>2

LEMMA Numbers ==
  ASSUME TypeOK
  PROVE  /\ design.version \in Nat /\ results.version \in Nat /\ job.version \in Nat
         /\ \A f \in Fields : fields[f].mesh \in Nat
         /\ \A w \in Workflows : posts[w].mesh \in Nat /\ posts[w].did \subseteq Fields
BY SolverAssumption DEF TypeOK

(* The fields and the postprocessings are as they were or less is claimed of them. *)
LEMMA ClaimsStay ==
  ASSUME IInv, TypeOK', results' = results, design.version <= design'.version,
         solver.stale => solver'.stale, raced => raced', UNCHANGED <<posting, posts>>,
         \A f \in Fields :
           /\ fields'[f].mesh = fields[f].mesh /\ fields'[f].run = fields[f].run
           /\ fields'[f].version = fields[f].version /\ fields'[f].stray = fields[f].stray
           /\ fields'[f].state = "done" => fields[f].state = "done"
  PROVE  FieldsInv' /\ PostsInv'
<1>1. \A f \in Fields : SoundNow(fields[f]) =>
        Sound(fields'[f], results', design'.version, solver'.stale, raced')
  <2> SUFFICES ASSUME NEW f \in Fields, SoundNow(fields[f])
               PROVE  Sound(fields'[f], results', design'.version, solver'.stale, raced')
    OBVIOUS
  <2>1. Sound(fields[f], results', design'.version, solver'.stale, raced')
    BY SoundStays, Numbers DEF IInv, SoundNow
  <2> QED
    BY <2>1 DEF Sound
<1>2. \A w \in Workflows : SoundNow(posts[w]) =>
        Sound(posts[w], results', design'.version, solver'.stale, raced')
  BY SoundStays, Numbers DEF IInv, SoundNow
<1>3. FieldsInv'
  BY <1>1 DEF IInv, FieldsInv, SoundNow
<1>4. PostsInv'
  <2> SUFFICES ASSUME NEW w \in Workflows, posts[w].on, ~posts[w].stray
               PROVE  /\ posting' = "running"
                      /\ Sound(posts[w], results', design'.version, solver'.stale, raced')
                      /\ \A v \in Workflows : posts[v].on => v = w
                      /\ \A f \in posts[w].did : ~fields'[f].stray =>
                           Sound(fields'[f], results', design'.version, solver'.stale, raced')
    BY DEF PostsInv, SoundNow
  <2>1. /\ posting = "running" /\ SoundNow(posts[w])
        /\ \A v \in Workflows : posts[v].on => v = w
        /\ \A f \in posts[w].did : ~fields[f].stray => SoundNow(fields[f])
    BY DEF IInv, PostsInv
  <2>2. posts[w].did \subseteq Fields
    BY Numbers DEF IInv
  <2> QED
    BY <2>1, <2>2, <1>1, <1>2
<1> QED
  BY <1>3, <1>4

(* No workflow that counts is under way: nothing is claimed of the posts.  *)
LEMMA NoPosting ==
  ASSUME PostsInv, posting # "running", NEW w \in Workflows
  PROVE  posts[w].on => posts[w].stray
BY DEF PostsInv

LEMMA FieldsForgotten ==
  ASSUME fields' = Forgotten
  PROVE  FieldsInv'
BY DEF Forgotten, NoField, FieldsInv

LEMMA NothingClaimed ==
  ASSUME PostsInv, posting # "running", UNCHANGED posts
  PROVE  PostsInv'
BY NoPosting DEF PostsInv

LEMMA InitSound == Init => FreshMeansCurrent /\ JobInv /\ FieldsInv /\ PostsInv
BY DEF Init, FreshMeansCurrent, JobInv, FieldsInv, PostsInv, NoSolution, NoJob, NoPost, NoField

(* The steps of the user that keep the solution.                           *)
LEMMA EditStep ==
  ASSUME IInv, TypeOK', EditListed \/ EditUnlisted
  PROVE  IInv'
<1>1. /\ results' = results /\ design'.version = design.version + 1
      /\ solver.stale => solver'.stale
      /\ raced => raced'
      /\ job.kind # "none" => raced'
      /\ solver'.status = solver.status
      /\ solver'.sweep => solver.sweep
      /\ UNCHANGED <<study, fields, posting, posts, job>>
      /\ solver'.stale \/ ~design'.solved \/ results.run = 0
  <2>1. /\ results' = results /\ design'.version = design.version + 1
        /\ raced => raced'
        /\ job.kind # "none" => raced'
        /\ UNCHANGED <<study, fields, posting, posts, job>>
    BY DEF IInv, TypeOK, EditListed, EditUnlisted, Edited
  <2>2. /\ solver.stale => solver'.stale
        /\ solver'.status = solver.status
        /\ solver'.sweep => solver.sweep
    BY DEF IInv, TypeOK, EditListed, EditUnlisted
  <2>3. solver'.stale \/ ~design'.solved \/ results.run = 0
    <3>1. CASE EditListed
      BY <3>1 DEF IInv, TypeOK, EditListed, HasResults
    <3>2. CASE EditUnlisted
      BY <3>2 DEF IInv, TypeOK, EditUnlisted, Edited
    <3> QED
      BY <3>1, <3>2
  <2> QED
    BY <2>1, <2>2, <2>3
<1>2. FreshMeansCurrent'
  BY <1>1 DEF FreshMeansCurrent
<1>3. JobInv'
  BY <1>1, Numbers DEF IInv, JobInv, Solving
<1>4. FieldsInv' /\ PostsInv'
  BY <1>1, Numbers, ClaimsStay DEF IInv
<1> QED
  BY <1>2, <1>3, <1>4 DEF IInv

LEMMA NavigateStep ==
  ASSUME IInv, TypeOK', Navigate
  PROVE  IInv'
<1>1. /\ design'.version = design.version /\ design'.solved = design.solved
      /\ UNCHANGED <<solver, results, study, fields, posting, posts, job, raced>>
  BY DEF IInv, TypeOK, Navigate
<1>2. FreshMeansCurrent' /\ JobInv'
  BY <1>1 DEF IInv, FreshMeansCurrent, JobInv, Solving
<1>3. FieldsInv' /\ PostsInv'
  BY <1>1, Numbers, ClaimsStay DEF IInv
<1> QED
  BY <1>2, <1>3 DEF IInv

LEMMA FieldStep ==
  ASSUME IInv, TypeOK', NEW f \in Fields, AskField(f) \/ EditField(f) \/ DropField(f)
  PROVE  IInv'
<1>1. UNCHANGED <<design, solver, results, study, posting, posts, job, raced>>
  BY DEF AskField, EditField, DropField
<1>2. \A g \in Fields :
        /\ fields'[g].mesh = fields[g].mesh /\ fields'[g].run = fields[g].run
        /\ fields'[g].version = fields[g].version /\ fields'[g].stray = fields[g].stray
        /\ fields'[g].state = "done" => fields[g].state = "done"
  BY DEF AskField, EditField, DropField, IInv, TypeOK
<1>3. FreshMeansCurrent' /\ JobInv'
  BY <1>1 DEF IInv, FreshMeansCurrent, JobInv, Solving
<1>4. FieldsInv' /\ PostsInv'
  BY <1>1, <1>2, Numbers, ClaimsStay DEF IInv
<1> QED
  BY <1>3, <1>4 DEF IInv

(* The steps of a solve.                                                   *)
LEMMA PendingStep ==
  ASSUME IInv, TypeOK', StartSolve \/ StudyNominal
  PROVE  IInv'
<1>1. /\ results' = NoSolution /\ fields' = Forgotten
      /\ solver'.status = "preparing" /\ ~solver'.stale /\ ~solver'.sweep
      /\ UNCHANGED <<posting, posts>>
  BY DEF IInv, TypeOK, StartSolve, StudyNominal, Pending
<1>2. posting # "running"
  BY DEF IInv, JobInv, StartSolve, StudyNominal, CanRequest
<1>3. /\ design'.version = design.version
      /\ job'.kind \in {"single", "nominal"} /\ job'.version = design.version
      /\ job'.run # 0
  <2>1. CASE StartSolve
    <3>1. job' = Request(runs + 1, design.geom, [NoJob EXCEPT !.kind = "single"])
      BY <2>1 DEF StartSolve
    <3> QED
      BY <2>1, <3>1 DEF StartSolve, Request, NoJob, IInv, TypeOK
  <2>2. CASE StudyNominal
    <3>1. \E g : job' = Request(job.run, g, [job EXCEPT !.kind = "nominal"])
      BY <2>2 DEF StudyNominal
    <3>2. job.run # 0
      BY <2>2 DEF IInv, JobInv, StudyNominal
    <3>3. design'.version = design.version
      BY <2>2 DEF StudyNominal, IInv, TypeOK
    <3> QED
      BY <3>1, <3>2, <3>3 DEF Request, IInv, TypeOK
  <2> QED
    BY <2>1, <2>2
<1>4. FreshMeansCurrent'
  BY <1>1 DEF FreshMeansCurrent, NoSolution
<1>5. JobInv'
  BY <1>1, <1>2, <1>3, Numbers DEF IInv, JobInv, Solving, NoSolution
<1>6. FieldsInv' /\ PostsInv'
  BY <1>1, <1>2, FieldsForgotten, NothingClaimed DEF IInv
<1> QED
  BY <1>4, <1>5, <1>6 DEF IInv

LEMMA FulfilledStep ==
  ASSUME IInv, TypeOK', SolveOk \/ StudyOk
  PROVE  IInv'
<1>1. /\ results' = [run |-> job.run, version |-> job.version, geom |-> job.geom]
      /\ solver'.status = "completed" /\ fields' = Forgotten /\ posting' = "idle" /\ job' = NoJob
      /\ design'.version = design.version /\ UNCHANGED <<posts, raced>>
  BY DEF IInv, TypeOK, JobInv, SolveOk, StudyOk, Fulfilled
<1>2. job.kind \in {"single", "nominal"} /\ posting # "running"
  BY DEF IInv, JobInv, SolveOk, StudyOk
<1>3. FreshMeansCurrent'
  BY <1>1, <1>2 DEF IInv, JobInv, FreshMeansCurrent
<1>4. JobInv'
  BY <1>1, Numbers DEF IInv, JobInv, Solving, NoJob
<1>5. FieldsInv' /\ PostsInv'
  BY <1>1, <1>2, FieldsForgotten, NothingClaimed DEF IInv
<1> QED
  BY <1>3, <1>4, <1>5 DEF IInv

(* The steps of a solve that keep the solution.                            *)
LEMMA SolvingStep ==
  ASSUME IInv, TypeOK', RefuseSolve \/ SolveFails \/ StartStudy \/ StudyPoint \/ StudyFails
  PROVE  IInv'
<1>1. /\ results' = results /\ design'.version = design.version
      /\ design'.solved => design.solved
      /\ solver.stale => solver'.stale
      /\ solver'.sweep => solver.sweep
      /\ UNCHANGED <<raced, fields, posting, posts>>
      /\ study' = 0 \/ study' = study
  <2>1. CASE RefuseSolve
    BY <2>1 DEF IInv, TypeOK, RefuseSolve
  <2>2. CASE SolveFails
    BY <2>2 DEF IInv, TypeOK, SolveFails
  <2>3. CASE StartStudy
    BY <2>3 DEF IInv, TypeOK, StartStudy
  <2>4. CASE StudyPoint
    <3>1. solver' = [solver EXCEPT !.stale = @ \/ (job.meshes /\ HasResults)]
      BY <2>4 DEF StudyPoint, Remeshed
    <3> HIDE DEF HasResults
    <3>2. /\ solver.stale => solver'.stale
          /\ solver'.sweep => solver.sweep
      BY <3>1 DEF IInv, TypeOK
    <3> QED
      BY <2>4, <3>2 DEF IInv, TypeOK, StudyPoint, Remeshed
  <2>5. CASE StudyFails
    <3>1. /\ solver.stale => solver'.stale
          /\ solver'.sweep => solver.sweep
      BY <2>5 DEF IInv, TypeOK, StudyFails
    <3> QED
      BY <2>5, <3>1 DEF IInv, TypeOK, StudyFails
  <2> QED
    BY <2>1, <2>2, <2>3, <2>4, <2>5
<1>2. FreshMeansCurrent'
  BY <1>1 DEF IInv, FreshMeansCurrent
<1>3. JobInv'
  <2>1. CASE RefuseSolve
    BY <2>1, <1>1 DEF IInv, TypeOK, JobInv, RefuseSolve, Solving, CanRequest
  <2>2. CASE SolveFails \/ StudyFails
    <3>1. solver'.status = "failed" /\ job' = NoJob
      BY <2>2 DEF IInv, TypeOK, SolveFails, StudyFails
    <3> QED
      BY <3>1, <1>1, Numbers DEF IInv, JobInv, NoJob, Solving
  <2>3. CASE StartStudy
    <3>1. /\ solver'.status = "running" /\ posting # "running"
          /\ job'.kind = "study" /\ job'.run = runs + 1 /\ job'.version = 0
      BY <2>3 DEF StartStudy, CanRequest, IInv, TypeOK, NoJob
    <3>2. runs + 1 # 0
      BY DEF IInv, TypeOK
    <3> QED
      BY <3>1, <3>2, <1>1, Numbers DEF IInv, JobInv, Solving
  <2>4. CASE StudyPoint
    <3>1. /\ job'.kind = "study" /\ job'.run = job.run /\ job'.version = design.version
          /\ solver'.status = solver.status
      BY <2>4 DEF StudyPoint, Remeshed, Request, IInv, TypeOK
    <3> QED
      BY <2>4, <3>1, <1>1, Numbers DEF IInv, JobInv, Solving, StudyPoint
  <2> QED
    BY <2>1, <2>2, <2>3, <2>4
<1>4. FieldsInv' /\ PostsInv'
  BY <1>1, Numbers, ClaimsStay DEF IInv
<1> QED
  BY <1>2, <1>3, <1>4 DEF IInv

(* The steps of the postprocessing.                                        *)
LEMMA StartPostStep ==
  ASSUME IInv, TypeOK', NEW w \in Workflows, StartPost(w)
  PROVE  IInv'
<1>1. UNCHANGED <<design, solver, results, study, fields, job, raced>>
  BY DEF StartPost
<1>2. posting # "running" /\ ~Solving /\ design.solved
  BY DEF StartPost, CanPost, CanRequest
<1>3. FreshMeansCurrent' /\ JobInv' /\ FieldsInv'
  <2>1. FreshMeansCurrent'
    BY <1>1 DEF IInv, FreshMeansCurrent
  <2>2. JobInv'
    BY <1>1, <1>2 DEF IInv, JobInv, Solving
  <2>3. FieldsInv'
    BY <1>1 DEF IInv, FieldsInv, SoundNow
  <2> QED
    BY <2>1, <2>2, <2>3
<1>4. Source.ok /\ Source.run = results.run
        => Sound(Source, results, design.version, solver.stale, raced)
  <2>1. CASE solver.mode = "sweep" /\ study # 0
    <3>1. Source.run = study /\ Source.version = Source.mesh
      BY <2>1 DEF Source
    <3> QED
      BY <2>1, <3>1 DEF Sound
  <2>2. CASE ~(solver.mode = "sweep" /\ study # 0)
    <3>1. /\ Source.ok => results.run # 0
          /\ Source.run = results.run /\ Source.version = results.version
          /\ Source.mesh = design.version
      BY <2>2 DEF Source
    <3>2. results.run # 0 /\ results.version # design.version => raced \/ solver.stale
      BY <1>2 DEF IInv, FreshMeansCurrent
    <3>3. results.version <= design.version /\ design.version <= design.version
      BY Numbers DEF IInv, JobInv
    <3> QED
      BY <3>1, <3>2, <3>3 DEF Sound
  <2> QED
    BY <2>1, <2>2
<1>5. PostsInv'
  <2>1. CASE ~Source.ok
    BY <2>1, <1>2, NothingClaimed DEF StartPost, IInv
  <2>2. CASE Source.ok
    <3>1. /\ posting' = "running"
          /\ posts'[w].run = Source.run /\ posts'[w].version = Source.version
          /\ posts'[w].mesh = Source.mesh /\ posts'[w].did = {}
          /\ \A v \in Workflows : posts[v].on => posts'[w].stray
          /\ Source.run # results.run => posts'[w].stray
          /\ \A v \in Workflows \ {w} : posts'[v] = posts[v]
      <4> DEFINE New == [on |-> TRUE, run |-> Source.run, version |-> Source.version,
                         mesh |-> Source.mesh, todo |-> Missing, did |-> {},
                         stray |-> (\E v \in Workflows : posts[v].on) \/ Source.run # results.run,
                         defs |-> [f \in Fields |-> fields[f].def]]
      <4>1. posting' = "running" /\ posts' = [posts EXCEPT ![w] = New]
        BY <2>2 DEF StartPost
      <4>2. /\ New.run = Source.run /\ New.version = Source.version
            /\ New.mesh = Source.mesh /\ New.did = {}
            /\ (\E v \in Workflows : posts[v].on) \/ Source.run # results.run => New.stray
        OBVIOUS
      <4> HIDE DEF New
      <4>3. posts'[w] = New /\ \A v \in Workflows \ {w} : posts'[v] = posts[v]
        BY <4>1 DEF IInv, TypeOK
      <4> QED
        BY <4>1, <4>2, <4>3
    <3>2. ~posts'[w].stray => Sound(posts'[w], results', design'.version, solver'.stale, raced')
      BY <1>1, <1>4, <2>2, <3>1 DEF SoundNow, Sound
    <3>3. \A v \in Workflows \ {w} : posts'[v].on => posts'[v].stray
      BY <3>1, <1>2, NoPosting DEF IInv
    <3> QED
      BY <3>1, <3>2, <3>3 DEF PostsInv, SoundNow
  <2> QED
    BY <2>1, <2>2
<1> QED
  BY <1>3, <1>5 DEF IInv

LEMMA ComputeFieldStep ==
  ASSUME IInv, TypeOK', NEW w \in Workflows, NEW f \in Fields, ComputeField(w, f)
  PROVE  IInv'
<1>1. UNCHANGED <<design, solver, results, study, posting, job, raced>>
  BY DEF ComputeField
<1>2. /\ fields'[f].run = posts[w].run /\ fields'[f].version = posts[w].version
      /\ fields'[f].mesh = posts[w].mesh /\ fields'[f].stray = posts[w].stray
      /\ \A g \in Fields \ {f} : fields'[g] = fields[g]
  BY DEF ComputeField, IInv, TypeOK
<1>3. /\ posts'[w].on /\ posts[w].on /\ posts'[w].stray = posts[w].stray /\ posts'[w].run = posts[w].run
      /\ posts'[w].version = posts[w].version /\ posts'[w].mesh = posts[w].mesh
      /\ posts'[w].did = posts[w].did \cup {f}
      /\ \A v \in Workflows \ {w} : posts'[v] = posts[v]
  BY DEF ComputeField, IInv, TypeOK
<1>4. ~posts[w].stray => SoundNow(posts[w])
  BY <1>3 DEF IInv, PostsInv
<1>5. ~fields'[f].stray => Sound(fields'[f], results, design.version, solver.stale, raced)
  BY <1>2, <1>4 DEF SoundNow, Sound
<1>6. FreshMeansCurrent' /\ JobInv'
  BY <1>1 DEF IInv, FreshMeansCurrent, JobInv, Solving
<1>7. FieldsInv'
  BY <1>1, <1>2, <1>5 DEF IInv, FieldsInv, SoundNow
<1>8. PostsInv'
  <2> SUFFICES ASSUME NEW v \in Workflows, posts'[v].on, ~posts'[v].stray
               PROVE  /\ posting = "running"
                      /\ Sound(posts'[v], results, design.version, solver.stale, raced)
                      /\ \A u \in Workflows : posts'[u].on => u = v
                      /\ \A g \in posts'[v].did : ~fields'[g].stray =>
                           Sound(fields'[g], results, design.version, solver.stale, raced)
    BY <1>1 DEF PostsInv, SoundNow
  <2>1. posts[v].on /\ ~posts[v].stray
    BY <1>3
  <2>2. /\ posting = "running" /\ SoundNow(posts[v])
        /\ \A u \in Workflows : posts[u].on => u = v
        /\ \A g \in posts[v].did : ~fields[g].stray => SoundNow(fields[g])
    BY <2>1 DEF IInv, PostsInv
  <2>3. v = w
    BY <2>2, <1>3
  <2>4. Sound(posts'[v], results, design.version, solver.stale, raced)
    BY <2>2, <2>3, <1>3 DEF SoundNow, Sound
  <2>5. posts[w].did \subseteq Fields
    BY Numbers DEF IInv
  <2>6. \A g \in posts'[v].did : ~fields'[g].stray =>
          Sound(fields'[g], results, design.version, solver.stale, raced)
    BY <2>2, <2>3, <2>5, <1>2, <1>3, <1>5 DEF SoundNow
  <2> QED
    BY <2>2, <2>3, <2>4, <2>6, <1>3
<1> QED
  BY <1>6, <1>7, <1>8 DEF IInv

LEMMA EndPostStep ==
  ASSUME IInv, TypeOK', NEW w \in Workflows, PostOk(w) \/ PostFails(w)
  PROVE  IInv'
<1>1. /\ UNCHANGED <<design, results, study, job, raced>>
      /\ solver'.status = solver.status /\ solver'.stale = solver.stale
      /\ solver'.sweep = solver.sweep
      /\ posting' \in {"completed", "failed"}
  BY DEF PostOk, PostFails, IInv, TypeOK
<1>2. posts[w].on /\ posts' = [posts EXCEPT ![w] = NoPost]
  BY DEF PostOk, PostFails
<1>3. FreshMeansCurrent' /\ JobInv'
  BY <1>1 DEF IInv, FreshMeansCurrent, JobInv, Solving
<1>4. PostsInv'
  <2> SUFFICES ASSUME NEW v \in Workflows, posts'[v].on, ~posts'[v].stray
               PROVE  FALSE
    BY DEF PostsInv
  <2>1. v # w /\ posts[v].on /\ ~posts[v].stray
    BY <1>2 DEF NoPost, IInv, TypeOK
  <2> QED
    BY <2>1, <1>2 DEF IInv, PostsInv
<1>5. FieldsInv'
  <2>1. CASE PostFails(w)
    BY <2>1, <1>1 DEF PostFails, IInv, FieldsInv, SoundNow
  <2>2. CASE PostOk(w)
    <3> SUFFICES ASSUME NEW f \in Fields, fields'[f].state = "done", ~fields'[f].stray
                 PROVE  Sound(fields'[f], results, design.version, solver.stale, raced)
      BY <1>1 DEF FieldsInv, SoundNow
    <3>1. CASE f \in posts[w].did
      <4>1. /\ fields'[f].run = fields[f].run /\ fields'[f].version = fields[f].version
            /\ fields'[f].mesh = fields[f].mesh
            /\ ~fields[f].stray /\ ~posts[w].stray
        <5>1. fields'[f] = [fields[f] EXCEPT !.state = "done",
                              !.stray = fields[f].stray \/ posts[w].stray]
          BY <2>2, <3>1 DEF PostOk, IInv, TypeOK
        <5>2. fields'[f].stray = (fields[f].stray \/ posts[w].stray)
          BY <5>1 DEF IInv, TypeOK
        <5>3. ~fields[f].stray /\ ~posts[w].stray
          BY <5>2, Zenon
        <5> QED
          BY <5>1, <5>3 DEF IInv, TypeOK
      <4>2. SoundNow(fields[f])
        BY <3>1, <4>1, <1>2 DEF IInv, PostsInv
      <4> QED
        BY <4>1, <4>2 DEF SoundNow, Sound
    <3>2. CASE f \notin posts[w].did
      BY <2>2, <3>2 DEF PostOk, IInv, FieldsInv, SoundNow
    <3> QED
      BY <3>1, <3>2
  <2> QED
    BY <2>1, <2>2
<1> QED
  BY <1>3, <1>4, <1>5 DEF IInv

LEMMA CancelStep ==
  ASSUME IInv, TypeOK', CancelPost
  PROVE  IInv'
<1>1. /\ UNCHANGED <<design, solver, results, study, fields, job, raced>>
      /\ posting' = "idle"
      /\ \A w \in Workflows : posts'[w].on => posts'[w].stray
  BY DEF CancelPost, IInv, TypeOK
<1> QED
  BY <1>1 DEF IInv, FreshMeansCurrent, JobInv, FieldsInv, PostsInv, SoundNow, Solving

\* Fields of an older design are computed with its currents and with meshes of
\* a later one: that the results are older is remembered, when the flag goes.
LEMMA FieldsUnflagged ==
  ASSUME IInv, UNCHANGED <<results, fields>>, design'.version = design.version,
         raced => raced', ~OfThisDesign => raced'
  PROVE  FieldsInv'
<1> SUFFICES ASSUME NEW f \in Fields, fields[f].state = "done", ~fields[f].stray
             PROVE  Sound(fields[f], results, design.version, solver'.stale, raced')
  BY DEF FieldsInv, SoundNow
<1>1. SoundNow(fields[f]) /\ fields[f].mesh \in Nat
  BY Numbers DEF IInv, FieldsInv
<1> QED
  BY <1>1, Numbers DEF IInv, SoundNow, Sound, OfThisDesign

LEMMA StudySkipsStep ==
  ASSUME IInv, TypeOK', StudySkips
  PROVE  IInv'
<1>1. /\ UNCHANGED <<results, fields, posting, posts>>
      /\ design'.version = design.version
      /\ solver'.status = "completed" /\ ~solver'.stale
      /\ job' = NoJob
      /\ raced => raced'
      /\ ~OfThisDesign => raced'
  BY DEF StudySkips, OldUnflagged, IInv, TypeOK
<1>2. posting # "running"
  BY DEF StudySkips, IInv, JobInv
<1>3. FreshMeansCurrent'
  BY <1>1 DEF FreshMeansCurrent, OfThisDesign
<1>4. JobInv'
  BY <1>1, <1>2, Numbers DEF IInv, JobInv, NoJob, Solving
<1>5. FieldsInv' /\ PostsInv'
  BY <1>1, <1>2, FieldsUnflagged, NothingClaimed DEF IInv
<1> QED
  BY <1>3, <1>4, <1>5 DEF IInv

LEMMA ReloadStep ==
  ASSUME IInv, TypeOK', Reload
  PROVE  IInv'
<1>1. /\ UNCHANGED <<results, study, fields>>
      /\ design'.version = design.version
      /\ solver'.status = "idle" /\ ~solver'.stale /\ solver'.sweep = solver.sweep
      /\ job' = NoJob /\ posting' = "idle"
      /\ \A w \in Workflows : ~posts'[w].on
      /\ raced => raced'
      /\ results.run # 0 /\ results.version # design.version => raced'
  BY DEF Reload, OldUnflagged, OfThisDesign, IInv, TypeOK, NoPost
<1>2. FreshMeansCurrent'
  BY <1>1 DEF FreshMeansCurrent
<1>3. JobInv'
  BY <1>1, Numbers DEF IInv, JobInv, NoJob, Solving
<1>4. PostsInv'
  BY <1>1 DEF PostsInv
<1>5. FieldsInv'
  BY <1>1, FieldsUnflagged DEF OfThisDesign
<1> QED
  BY <1>2, <1>3, <1>4, <1>5 DEF IInv

(* IInv is inductive.                                                      *)
THEOREM SolverInvariant == Spec => []IInv
<1>1. Init => FreshMeansCurrent /\ JobInv /\ FieldsInv /\ PostsInv
  BY InitSound
<1>2. IInv /\ TypeOK' /\ [Next]_vars => IInv'
  <2> SUFFICES ASSUME IInv, TypeOK', [Next]_vars PROVE IInv'
    OBVIOUS
  <2>1. CASE UNCHANGED vars
    BY <2>1 DEF vars, IInv, TypeOK, FreshMeansCurrent, JobInv, FieldsInv, PostsInv, SoundNow, Solving
  <2>2. CASE Next
    BY <2>2, EditStep, NavigateStep, FieldStep, PendingStep, FulfilledStep, SolvingStep,
       StartPostStep, ComputeFieldStep, EndPostStep, CancelStep, ReloadStep,
       StudySkipsStep DEF Next, SolveAnswer, PostAnswer
  <2> QED
    BY <2>1, <2>2
<1>3. TypeOK /\ FreshMeansCurrent /\ JobInv /\ FieldsInv /\ PostsInv => IInv
  BY DEF IInv
<1> QED
  BY <1>1, <1>2, <1>3, TypeCorrect, PTL DEF Spec

(* Results shown as solved and up to date were computed for the design as  *)
(* it is, unless it was edited during the solve, or older results lost     *)
(* their flag by a reload or by a study without its nominal solve.         *)
THEOREM FreshResults == Spec => []FreshMeansCurrent
<1>1. IInv => FreshMeansCurrent
  BY DEF IInv
<1> QED
  BY <1>1, SolverInvariant, PTL

(* A field shown as computed comes from the stored solution, unless a      *)
(* stopped postprocessing went on and wrote it, or one of a study that     *)
(* ended without its nominal solve.                                        *)
THEOREM FieldsFollow == Spec => []FieldsOfTheSolution
<1>1. IInv => FieldsOfTheSolution
  BY DEF IInv, FieldsInv, FieldsOfTheSolution, SoundNow, Sound
<1> QED
  BY <1>1, SolverInvariant, PTL

(* A field whose meshes are not those of its currents is flagged.          *)
THEOREM MeshesFlagged == Spec => []MeshOfTheSolution
<1>1. IInv => MeshOfTheSolution
  BY DEF IInv, FieldsInv, MeshOfTheSolution, SoundNow, Sound
<1> QED
  BY <1>1, SolverInvariant, PTL

(* What the comments of the code claim, for a user who keeps to one rule.  *)

\* A step that leaves results leaves them of the design, flagged, or raced.
LEMMA FlaggedStep ==
  ASSUME IInv, TypeOK', [Next]_vars, EditUnlisted => ~HasResults, UnflaggedIsCurrent
  PROVE  UnflaggedIsCurrent'
<1>1. CASE UNCHANGED vars
  BY <1>1 DEF vars, UnflaggedIsCurrent
<1>2. CASE EditListed
  <2>1. results' = results /\ (HasResults => solver'.stale)
    BY <1>2 DEF EditListed, IInv, TypeOK
  <2> QED
    BY <2>1 DEF HasResults, UnflaggedIsCurrent
<1>3. CASE EditUnlisted
  BY <1>3 DEF EditUnlisted, HasResults, UnflaggedIsCurrent
<1>4. CASE StartSolve \/ StudyNominal
  <2>1. results' = NoSolution
    BY <1>4 DEF StartSolve, StudyNominal, Pending
  <2> QED
    BY <2>1 DEF NoSolution, UnflaggedIsCurrent
<1>5. CASE SolveOk \/ StudyOk
  <2>1. /\ results'.version = job.version /\ design'.version = design.version
        /\ raced' = raced /\ job.kind \in {"single", "nominal"}
    BY <1>5 DEF SolveOk, StudyOk, Fulfilled, IInv, TypeOK
  <2> QED
    BY <2>1 DEF IInv, JobInv, UnflaggedIsCurrent
<1>6. CASE Reload \/ StudySkips
  BY <1>6 DEF Reload, StudySkips, OldUnflagged, OfThisDesign, IInv, TypeOK, UnflaggedIsCurrent
<1>7. CASE RefuseSolve \/ SolveFails \/ StartStudy
  BY <1>7 DEF RefuseSolve, SolveFails, StartStudy, IInv, TypeOK, UnflaggedIsCurrent
<1>8. CASE StudyPoint \/ StudyFails
  <2>1. /\ results' = results /\ raced' = raced /\ design'.version = design.version
    BY <1>8 DEF StudyPoint, StudyFails, Remeshed, IInv, TypeOK
  <2>2. \E b \in BOOLEAN : solver'.stale = (solver.stale \/ b)
    <3>1. (job.meshes /\ HasResults) \in BOOLEAN
      BY DEF IInv, TypeOK, HasResults
    <3> QED
      BY <1>8, <3>1 DEF StudyPoint, StudyFails, Remeshed, IInv, TypeOK
  <2> QED
    BY <2>1, <2>2 DEF UnflaggedIsCurrent
<1>9. CASE Navigate \/ \E f \in Fields : AskField(f) \/ EditField(f) \/ DropField(f)
  <2>1. results' = results /\ solver' = solver /\ raced' = raced /\ design'.version = design.version
    BY <1>9 DEF Navigate, AskField, EditField, DropField, IInv, TypeOK
  <2> QED
    BY <2>1 DEF UnflaggedIsCurrent
<1>10. CASE CancelPost \/ \E w \in Workflows : StartPost(w) \/ PostAnswer(w)
  <2>1. results' = results /\ solver'.stale = solver.stale /\ raced' = raced /\ design' = design
    BY <1>10 DEF CancelPost, StartPost, PostAnswer, PostOk, PostFails, ComputeField, IInv, TypeOK
  <2> QED
    BY <2>1 DEF UnflaggedIsCurrent
<1> QED
  BY <1>1, <1>2, <1>3, <1>4, <1>5, <1>6, <1>7, <1>8, <1>9, <1>10 DEF Next, SolveAnswer

(* Results that are not flagged as stale are those of the design, with the *)
(* exceptions of FreshMeansCurrent, when the edits that the list of the    *)
(* slice forgets are made while there are no results.                      *)
THEOREM UnflaggedCorrect == Spec /\ FlaggedEdits => []UnflaggedIsCurrent
<1> DEFINE A == EditUnlisted => ~HasResults
<1>1. Init => UnflaggedIsCurrent
  BY DEF Init, NoSolution, UnflaggedIsCurrent
<1>2. IInv /\ TypeOK' /\ [Next]_vars /\ [A]_vars /\ UnflaggedIsCurrent => UnflaggedIsCurrent'
  <2>1. CASE A
    BY <2>1, FlaggedStep
  <2>2. CASE UNCHANGED vars
    BY <2>2 DEF vars, UnflaggedIsCurrent
  <2> QED
    BY <2>1, <2>2
<1>3. FlaggedEdits <=> [][A]_vars
  BY DEF FlaggedEdits
<1> HIDE DEF A
<1> QED
  BY <1>1, <1>2, <1>3, TypeCorrect, SolverInvariant, PTL DEF Spec

(* Nothing comes between a design and its results, and neither a reload    *)
(* nor a study without its nominal solve finds older ones: then results    *)
(* shown as solved are those of the design, without the exceptions that    *)
(* FreshMeansCurrent has to make.                                          *)
THEOREM SolvedIsCurrentCorrect == Spec /\ Undisturbed => []SolvedIsCurrent
<1> DEFINE A == /\ job # NoJob => design'.version = design.version
                /\ Reload \/ StudySkips => OfThisDesign
<1>1. Init => ~raced
  BY DEF Init
<1>2. TypeOK /\ [Next]_vars /\ [A]_vars /\ ~raced => ~raced'
  <2> SUFFICES ASSUME TypeOK, [Next]_vars, [A]_vars, ~raced PROVE ~raced'
    OBVIOUS
  <2>1. CASE UNCHANGED vars
    BY <2>1 DEF vars
  <2>2. CASE Next /\ A /\ (EditListed \/ EditUnlisted)
    <3>1. design'.version # design.version
      <4>1. \E b \in BOOLEAN : design' = [design EXCEPT !.version = @ + 1, !.solved = b]
        BY <2>2 DEF EditListed, EditUnlisted, Edited, TypeOK
      <4> QED
        BY <4>1, SolverAssumption DEF TypeOK
    <3>2. job.kind = "none"
      BY <2>2, <3>1 DEF NoJob
    <3>3. raced' = (raced \/ job.kind # "none")
      BY <2>2 DEF EditListed, EditUnlisted, Edited
    <3> QED
      BY <3>2, <3>3
  <2>3. CASE A /\ (Reload \/ StudySkips)
    BY <2>3 DEF Reload, StudySkips, OldUnflagged
  <2>4. CASE Next /\ ~(EditListed \/ EditUnlisted) /\ ~Reload /\ ~StudySkips
    BY <2>4 DEF Next, SolveAnswer, PostAnswer, Navigate, AskField, EditField, DropField,
       StartSolve, RefuseSolve, StartStudy, StartPost, CancelPost, SolveOk, SolveFails, StudyPoint,
       StudyNominal, StudyOk, StudyFails, PostOk, PostFails, ComputeField
  <2> QED
    BY <2>1, <2>2, <2>3, <2>4
<1>3. IInv /\ ~raced => SolvedIsCurrent
  BY DEF IInv, FreshMeansCurrent, SolvedIsCurrent
<1>4. Undisturbed <=> [][A]_vars
  BY DEF Undisturbed
<1> HIDE DEF A
<1> QED
  BY <1>1, <1>2, <1>3, <1>4, TypeCorrect, SolverInvariant, PTL DEF Spec

\* A step keeps what is solved, or stored, at the nominal geometry.
LEMMA NominalStep ==
  ASSUME TypeOK, NominalInv, [Next]_vars,
         StartSolve \/ (StartStudy /\ ~job'.meshes) => design.geom = 0,
         job.kind = "study" => design'.version = design.version
  PROVE  NominalInv'
<1>1. CASE UNCHANGED vars
  BY <1>1 DEF vars, NominalInv
<1>2. CASE EditListed \/ EditUnlisted
  <2>1. results' = results /\ job' = job /\ study' = study /\ design'.geom = design.geom
    BY <1>2 DEF EditListed, EditUnlisted, Edited, TypeOK
  <2> QED
    BY <2>1 DEF NominalInv
<1>3. CASE Navigate
  BY <1>3 DEF Navigate, NominalInv
<1>4. CASE StartSolve
  <2>1. results' = NoSolution /\ job'.kind = "single" /\ job'.geom = design.geom
    BY <1>4 DEF StartSolve, Pending, Request, NoJob
  <2> QED
    BY <1>4, <2>1 DEF NominalInv, NoSolution
<1>5. CASE StartStudy
  <2>1. /\ results' = results /\ study' = 0 /\ design' = design
        /\ job'.kind = "study" /\ job'.since = design.version
    BY <1>5 DEF StartStudy, NoJob
  <2> QED
    BY <1>5, <2>1 DEF NominalInv
<1>6. CASE SolveOk \/ StudyOk
  <2>1. results'.geom = job.geom /\ job'.kind = "none" /\ job.kind \in {"single", "nominal"}
    BY <1>6 DEF SolveOk, StudyOk, Fulfilled, NoJob
  <2> QED
    BY <2>1 DEF NominalInv
<1>7. CASE SolveFails \/ StudyFails \/ StudySkips \/ Reload
  <2>1. results' = results /\ job' = NoJob
    BY <1>7 DEF SolveFails, StudyFails, StudySkips, Reload
  <2> QED
    BY <2>1 DEF NominalInv, NoJob
<1>8. CASE StudyPoint
  <2>1. /\ results' = results /\ study' = study /\ design'.version = design.version
        /\ (~job.meshes => design' = design)
        /\ job'.kind = "study" /\ job'.since = job.since /\ job'.meshes = job.meshes
    BY <1>8 DEF StudyPoint, Remeshed, Request, TypeOK
  <2> QED
    BY <1>8, <2>1 DEF NominalInv, StudyPoint
<1>9. CASE StudyNominal
  <2>1. results' = NoSolution /\ job'.kind = "nominal" /\ job'.geom = design'.geom
    BY <1>9 DEF StudyNominal, Pending, Request, TypeOK
  <2>2. job.since = design.version /\ (~job.meshes => design.geom = 0)
    BY <1>9 DEF StudyNominal, NominalInv
  <2>3. design'.geom = 0
    BY <1>9, <2>2 DEF StudyNominal, Restored, TypeOK
  <2> QED
    BY <2>1, <2>3 DEF NominalInv, NoSolution
<1>10. CASE \/ \E f \in Fields : AskField(f) \/ EditField(f) \/ DropField(f)
            \/ RefuseSolve \/ CancelPost
            \/ \E w \in Workflows : StartPost(w) \/ PostAnswer(w)
  <2>1. UNCHANGED <<results, job, study, design>>
    BY <1>10 DEF AskField, EditField, DropField, RefuseSolve, CancelPost, StartPost,
       PostAnswer, PostOk, PostFails, ComputeField
  <2> QED
    BY <2>1 DEF NominalInv
<1> QED
  BY <1>1, <1>2, <1>3, <1>4, <1>5, <1>6, <1>7, <1>8, <1>9, <1>10 DEF Next, SolveAnswer

(* The slider of a study is purely visual, as SolverTab.tsx:431 says, for  *)
(* whoever solves at the nominal point and edits nothing during a study:   *)
(* no failed study, reload or postprocessing makes stored results of       *)
(* another geometry.                                                       *)
THEOREM SolvesNominalCorrect == Spec /\ SolvesAtNominal => []SolvesNominal
<1> DEFINE A == /\ StartSolve \/ (StartStudy /\ ~job'.meshes) => design.geom = 0
                /\ job.kind = "study" => design'.version = design.version
<1>1. Init => NominalInv
  BY DEF Init, NoSolution, NoJob, NominalInv
<1>2. TypeOK /\ NominalInv /\ [Next]_vars /\ [A]_vars => NominalInv'
  <2> SUFFICES ASSUME TypeOK, NominalInv, [Next]_vars, [A]_vars PROVE NominalInv'
    OBVIOUS
  <2>1. CASE A
    BY <2>1, NominalStep
  <2>2. CASE UNCHANGED vars
    BY <2>2 DEF vars, NominalInv
  <2> QED
    BY <2>1, <2>2
<1>3. NominalInv => SolvesNominal
  BY DEF NominalInv, SolvesNominal
<1>4. SolvesAtNominal <=> [][A]_vars
  BY DEF SolvesAtNominal
<1> HIDE DEF A
<1> QED
  BY <1>1, <1>2, <1>3, <1>4, TypeCorrect, PTL DEF Spec

LEMMA StoppedInit == Init => StoppedInv /\ StrayInv /\ DefsInv
BY DEF Init, StoppedInv, StrayInv, DefsInv, NoPost, NoField

(* Without the stop button one postprocessing runs at a time.              *)
LEMMA StoppedStep ==
  ASSUME IInv, [Next]_vars, ~CancelPost, StoppedInv
  PROVE  StoppedInv'
<1>0. posts \in [Workflows -> Posts]
  BY TypeParts DEF IInv
<1>1. CASE UNCHANGED vars
  BY <1>1 DEF vars, StoppedInv
<1>2. CASE \/ EditListed \/ EditUnlisted \/ Navigate \/ RefuseSolve \/ StartStudy \/ SolveFails
           \/ StudyPoint \/ StudySkips \/ StudyFails \/ StartSolve \/ StudyNominal
           \/ \E f \in Fields : AskField(f) \/ EditField(f) \/ DropField(f)
  <2>1. UNCHANGED <<posting, posts>>
    BY <1>2 DEF EditListed, EditUnlisted, Navigate, RefuseSolve, StartStudy, SolveFails,
       StudyPoint, StudySkips, StudyFails, StartSolve, StudyNominal, AskField, EditField, DropField
  <2> QED
    BY <2>1 DEF StoppedInv
<1>3. CASE SolveOk \/ StudyOk
  <2>1. posting # "running" /\ posts' = posts
    BY <1>3 DEF SolveOk, StudyOk, Fulfilled, IInv, JobInv
  <2> QED
    BY <2>1 DEF StoppedInv
<1>4. ASSUME NEW w \in Workflows, StartPost(w) PROVE StoppedInv'
  <2>1. \A v \in Workflows : ~posts[v].on
    BY <1>4 DEF StartPost, CanPost, CanRequest, StoppedInv
  <2>2. CASE ~Source.ok
    BY <2>1, <2>2, <1>4 DEF StartPost, StoppedInv
  <2>3. CASE Source.ok
    <3>1. posting' = "running" /\ \A v \in Workflows \ {w} : posts'[v] = posts[v]
      BY <1>4, <2>3, <1>0 DEF StartPost
    <3> QED
      BY <2>1, <3>1 DEF StoppedInv
  <2> QED
    BY <2>2, <2>3
<1>5. ASSUME NEW w \in Workflows, NEW f \in Fields, ComputeField(w, f) PROVE StoppedInv'
  <2>1. posting' = posting /\ \A v \in Workflows : posts'[v].on = posts[v].on
    BY <1>5, <1>0 DEF ComputeField, Posts
  <2> QED
    BY <2>1 DEF StoppedInv
<1>6. ASSUME NEW w \in Workflows, PostOk(w) \/ PostFails(w) PROVE StoppedInv'
  <2>1. posts[w].on /\ posts' = [posts EXCEPT ![w] = NoPost]
    BY <1>6 DEF PostOk, PostFails
  <2>2. \A v \in Workflows : ~posts'[v].on
    BY <2>1, <1>0 DEF NoPost, StoppedInv
  <2> QED
    BY <2>2 DEF StoppedInv
<1>7. CASE Reload
  BY <1>7 DEF Reload, NoPost, StoppedInv
<1> QED
  BY <1>1, <1>2, <1>3, <1>4, <1>5, <1>6, <1>7 DEF Next, SolveAnswer, PostAnswer

LEMMA StoppedInvariant == Spec /\ NeverStopped => []StoppedInv
<1> DEFINE A == ~CancelPost
<1>1. Init => StoppedInv
  BY StoppedInit
<1>2. IInv /\ [Next]_vars /\ [A]_vars /\ StoppedInv => StoppedInv'
  <2>1. CASE A
    BY <2>1, StoppedStep
  <2>2. CASE UNCHANGED vars
    BY <2>2 DEF vars, StoppedInv
  <2> QED
    BY <2>1, <2>2
<1>3. NeverStopped <=> [][A]_vars
  BY DEF NeverStopped
<1> HIDE DEF A
<1> QED
  BY <1>1, <1>2, <1>3, SolverInvariant, PTL DEF Spec

(* And if every study ends with its nominal solve, then all that is        *)
(* computed is of the run of the stored solution.                          *)
LEMMA StrayStep ==
  ASSUME IInv, [Next]_vars, ~CancelPost, ~StudySkips, StoppedInv, StrayInv
  PROVE  StrayInv'
<1>0. /\ fields \in [Fields -> FieldStates] /\ posts \in [Workflows -> Posts]
      /\ solver \in Solvers
  BY TypeParts DEF IInv
<1>1. CASE UNCHANGED vars
  BY <1>1 DEF vars, StrayInv
<1>2. CASE EditListed \/ EditUnlisted \/ Navigate \/ RefuseSolve \/ StartStudy \/ SolveFails
           \/ StudyPoint \/ StudyFails
  <2>1. UNCHANGED <<fields, posts, results>>
    BY <1>2 DEF EditListed, EditUnlisted, Navigate, RefuseSolve, StartStudy, SolveFails,
       StudyPoint, StudyFails
  <2>2. study' = 0 \/ study' = study
    BY <1>2 DEF EditListed, EditUnlisted, Navigate, RefuseSolve, StartStudy, SolveFails,
       StudyPoint, StudyFails
  <2>3. solver'.sweep = solver.sweep
    BY <1>2, <1>0 DEF EditListed, EditUnlisted, Navigate, RefuseSolve, StartStudy, SolveFails,
       StudyPoint, StudyFails, Remeshed, Solvers
  <2> QED
    BY <2>1, <2>2, <2>3 DEF StrayInv
<1>3. ASSUME NEW f \in Fields, AskField(f) \/ EditField(f) \/ DropField(f) PROVE StrayInv'
  <2>1. /\ UNCHANGED <<solver, results, study, posts>>
        /\ \A g \in Fields : fields'[g].stray = fields[g].stray
    BY <1>3, <1>0 DEF AskField, EditField, DropField, FieldStates
  <2> QED
    BY <2>1 DEF StrayInv
<1>4. CASE StartSolve \/ StudyNominal
  <2>1. posts' = posts /\ fields' = Forgotten /\ ~solver'.sweep
    BY <1>4, <1>0 DEF StartSolve, StudyNominal, Pending, Solvers
  <2> QED
    BY <2>1 DEF StrayInv, Forgotten, NoField
<1>5. CASE SolveOk \/ StudyOk
  <2>1. posts' = posts /\ fields' = Forgotten /\ results'.run = job.run
    BY <1>5 DEF SolveOk, StudyOk, Fulfilled
  <2>2. study' = 0 \/ study' = job.run
    BY <1>5 DEF SolveOk, StudyOk
  <2> QED
    BY <2>1, <2>2 DEF StrayInv, Forgotten, NoField
<1>6. ASSUME NEW w \in Workflows, StartPost(w) PROVE StrayInv'
  <2>1. UNCHANGED <<solver, results, study, fields>>
    BY <1>6 DEF StartPost
  <2>2. \A v \in Workflows : ~posts[v].on
    BY <1>6 DEF StartPost, CanPost, CanRequest, StoppedInv
  <2>3. CASE ~Source.ok
    BY <2>1, <2>3, <1>6 DEF StartPost, StrayInv
  <2>4. CASE Source.ok
    <3>1. Source.run = results.run
      BY <2>4 DEF Source, StrayInv
    <3> DEFINE crossed == (\E v \in Workflows : posts[v].on) \/ Source.run # results.run
               New(b) == [on |-> TRUE, run |-> Source.run, version |-> Source.version,
                          mesh |-> Source.mesh, todo |-> Missing, did |-> {}, stray |-> b,
                          defs |-> [f \in Fields |-> fields[f].def]]
    <3>2. crossed = FALSE
      BY <2>2, <3>1
    <3>3. posts' = [posts EXCEPT ![w] = New(crossed)]
      BY <1>6, <2>4 DEF StartPost
    <3>4. ~New(FALSE).stray
      OBVIOUS
    <3> HIDE DEF crossed, New
    <3>5. posts' = [posts EXCEPT ![w] = New(FALSE)]
      BY <3>2, <3>3
    <3>6. ~posts'[w].stray /\ \A v \in Workflows \ {w} : posts'[v] = posts[v]
      BY <3>4, <3>5, <1>0
    <3> QED
      BY <2>1, <3>6 DEF StrayInv
  <2> QED
    BY <2>3, <2>4
<1>7. ASSUME NEW w \in Workflows, NEW f \in Fields, ComputeField(w, f) PROVE StrayInv'
  <2>1. UNCHANGED <<solver, results, study>> /\ fields'[f].stray = posts[w].stray
    BY <1>7, <1>0 DEF ComputeField, FieldStates
  <2>2. \A g \in Fields \ {f} : fields'[g] = fields[g]
    BY <1>7, <1>0 DEF ComputeField
  <2>3. \A v \in Workflows : posts'[v].stray = posts[v].stray
    BY <1>7, <1>0 DEF ComputeField, Posts
  <2> QED
    BY <2>1, <2>2, <2>3 DEF StrayInv
<1>8. ASSUME NEW w \in Workflows, PostOk(w) \/ PostFails(w) PROVE StrayInv'
  <2>1. posts' = [posts EXCEPT ![w] = NoPost] /\ ~posts[w].stray
    BY <1>8 DEF PostOk, PostFails, StrayInv
  <2>2. \A v \in Workflows : ~posts'[v].stray
    BY <2>1, <1>0 DEF NoPost, StrayInv
  <2>3. UNCHANGED <<results, study>> /\ solver'.sweep = solver.sweep
    BY <1>8, <1>0 DEF PostOk, PostFails, Solvers
  <2>4. \A g \in Fields : ~fields'[g].stray
    <3>1. CASE PostFails(w)
      BY <3>1 DEF PostFails, StrayInv
    <3>2. CASE PostOk(w)
      <4> TAKE g \in Fields
      <4>1. \/ fields'[g] = fields[g]
            \/ fields'[g] = [fields[g] EXCEPT !.state = "done", !.stray = fields[g].stray \/ posts[w].stray]
        BY <3>2 DEF PostOk
      <4>2. (fields[g].stray \/ posts[w].stray) = FALSE /\ fields[g].stray = FALSE
        BY <2>1, <1>0 DEF StrayInv, FieldStates
      <4>3. fields[g] \in FieldStates
        BY <1>0
      <4> QED
        BY <4>1, <4>2, <4>3 DEF FieldStates
    <3> QED
      BY <1>8, <3>1, <3>2
  <2> QED
    BY <2>2, <2>3, <2>4 DEF StrayInv
<1>9. CASE Reload
  <2>1. UNCHANGED <<results, study, fields>> /\ solver'.sweep = solver.sweep
    BY <1>9, <1>0 DEF Reload, Solvers
  <2> QED
    BY <1>9, <2>1 DEF Reload, NoPost, StrayInv
<1>10. CASE CancelPost \/ StudySkips
  BY <1>10
<1> QED
  BY <1>1, <1>2, <1>3, <1>4, <1>5, <1>6, <1>7, <1>8, <1>9, <1>10 DEF Next, SolveAnswer, PostAnswer

(* A field shown as computed comes from the stored solution, without the   *)
(* exceptions that FieldsOfTheSolution has to make.                        *)
THEOREM FieldsRecomputedCorrect == Spec /\ NeverStopped /\ NominalRuns => []FieldsRecomputed
<1> DEFINE A == ~CancelPost
           B == ~StudySkips
<1>1. Init => StrayInv
  BY StoppedInit
<1>2. IInv /\ [Next]_vars /\ [A]_vars /\ [B]_vars /\ StoppedInv /\ StrayInv => StrayInv'
  <2>1. CASE A /\ B
    BY <2>1, StrayStep
  <2>2. CASE UNCHANGED vars
    BY <2>2 DEF vars, StrayInv
  <2> QED
    BY <2>1, <2>2
<1>3. StrayInv /\ FieldsOfTheSolution => FieldsRecomputed
  BY DEF StrayInv, FieldsOfTheSolution, FieldsRecomputed
<1>4. (NeverStopped <=> [][A]_vars) /\ (NominalRuns <=> [][B]_vars)
  BY DEF NeverStopped, NominalRuns
<1> HIDE DEF A, B
<1> QED
  BY <1>1, <1>2, <1>3, <1>4, SolverInvariant, StoppedInvariant, FieldsFollow, PTL DEF Spec

(* Each step but an edit of a region during its computation keeps what     *)
(* was computed in agreement with what is asked.                           *)
LEMMA DefsStep ==
  ASSUME IInv, TypeOK', [Next]_vars, StoppedInv, DefsInv, ~CancelPost,
         posting = "running" => \A f \in Fields \ {Directivity} : ~EditField(f)
  PROVE  DefsInv'
<1>0. fields \in [Fields -> FieldStates] /\ posts \in [Workflows -> Posts]
  BY TypeParts DEF IInv
<1>1. CASE UNCHANGED vars
  BY <1>1 DEF vars, DefsInv
<1>2. CASE EditListed \/ EditUnlisted \/ Navigate \/ RefuseSolve \/ StartStudy \/ SolveFails
           \/ StudyPoint \/ StudySkips \/ StudyFails
  <2>1. UNCHANGED <<fields, posts>>
    BY <1>2 DEF EditListed, EditUnlisted, Navigate, RefuseSolve, StartStudy, SolveFails,
       StudyPoint, StudySkips, StudyFails
  <2> QED
    BY <2>1 DEF DefsInv
<1>3. ASSUME NEW f \in Fields, AskField(f) \/ DropField(f) PROVE DefsInv'
  <2>1. posts' = posts /\ \A g \in Fields : /\ fields'[g].of = fields[g].of
                                            /\ fields'[g].def = fields[g].def
                                            /\ fields'[g].state = "done" => fields[g].state = "done"
    BY <1>3, <1>0 DEF AskField, DropField, FieldStates
  <2> QED
    BY <2>1 DEF DefsInv
<1>4. ASSUME NEW f \in Fields, EditField(f) PROVE DefsInv'
  <2>1. posts' = posts /\ \A g \in Fields \ {f} : fields'[g] = fields[g]
    BY <1>4, <1>0 DEF EditField
  <2>2. f # Directivity => fields'[f].state # "done"
    BY <1>4, <1>0 DEF EditField, FieldStates
  <2>3. f # Directivity => \A w \in Workflows : ~posts[w].on
    BY <1>4 DEF StoppedInv
  <2> QED
    BY <2>1, <2>2, <2>3 DEF DefsInv
<1>5. CASE StartSolve \/ StudyNominal \/ SolveOk \/ StudyOk
  <2>1. posting # "running"
    BY <1>5 DEF StartSolve, StudyNominal, SolveOk, StudyOk, CanRequest, IInv, JobInv
  <2>2. posts' = posts /\ \A w \in Workflows : ~posts[w].on
    BY <1>5, <2>1 DEF StartSolve, StudyNominal, SolveOk, StudyOk, StoppedInv
  <2>3. fields' = Forgotten
    BY <1>5 DEF StartSolve, StudyNominal, SolveOk, StudyOk, Pending, Fulfilled
  <2>4. \A f \in Fields : fields'[f].state = "none"
    BY <2>3 DEF Forgotten, NoField
  <2> QED
    BY <2>2, <2>4 DEF DefsInv
<1>6. ASSUME NEW w \in Workflows, StartPost(w) PROVE DefsInv'
  <2>1. fields' = fields
    BY <1>6 DEF StartPost
  <2>2. CASE ~Source.ok
    BY <2>1, <2>2, <1>6 DEF StartPost, DefsInv
  <2>3. CASE Source.ok
    <3>1. posts'[w].did = {} /\ posts'[w].defs = [f \in Fields |-> fields[f].def]
      BY <1>6, <2>3, <1>0 DEF StartPost
    <3>2. \A v \in Workflows \ {w} : posts'[v] = posts[v]
      BY <1>6, <2>3, <1>0 DEF StartPost
    <3> QED
      BY <2>1, <3>1, <3>2 DEF DefsInv
  <2> QED
    BY <2>2, <2>3
<1>7. ASSUME NEW w \in Workflows, NEW f \in Fields, ComputeField(w, f) PROVE DefsInv'
  <2>1. fields'[f].of = posts[w].defs[f] /\ fields'[f].def = fields[f].def /\ posts[w].on
    BY <1>7, <1>0 DEF ComputeField, FieldStates
  <2>2. \A g \in Fields \ {f} : fields'[g] = fields[g]
    BY <1>7, <1>0 DEF ComputeField
  <2>3. /\ posts'[w].on = posts[w].on /\ posts'[w].defs = posts[w].defs
        /\ posts'[w].did = posts[w].did \cup {f}
        /\ \A v \in Workflows \ {w} : posts'[v] = posts[v]
    BY <1>7, <1>0 DEF ComputeField, Posts
  <2>4. f # Directivity => fields'[f].of = fields'[f].def
    BY <2>1 DEF DefsInv
  <2> SUFFICES ASSUME NEW g \in Fields \ {Directivity}
               PROVE  /\ fields'[g].state = "done" => fields'[g].of = fields'[g].def
                      /\ \A v \in Workflows : posts'[v].on =>
                           /\ posts'[v].defs[g] = fields'[g].def
                           /\ g \in posts'[v].did => fields'[g].of = fields'[g].def
    BY DEF DefsInv
  <2>5. \A v \in Workflows : posts'[v].on => posts'[v].defs[g] = fields'[g].def
    BY <2>1, <2>2, <2>3 DEF DefsInv
  <2>6. CASE g = f
    BY <2>4, <2>5, <2>6
  <2>7. CASE g # f
    BY <2>2, <2>3, <2>5, <2>7 DEF DefsInv
  <2> QED
    BY <2>6, <2>7
<1>8. ASSUME NEW w \in Workflows, PostOk(w) \/ PostFails(w) PROVE DefsInv'
  <2>1. posts[w].on /\ posts' = [posts EXCEPT ![w] = NoPost]
    BY <1>8 DEF PostOk, PostFails
  <2>2. ~posts'[w].on /\ \A v \in Workflows \ {w} : posts'[v] = posts[v]
    BY <2>1, <1>0 DEF NoPost
  <2>3. \A g \in Fields : /\ fields'[g].of = fields[g].of /\ fields'[g].def = fields[g].def
                          /\ fields'[g].state = "done" => fields[g].state = "done" \/ g \in posts[w].did
    <3>1. CASE PostFails(w)
      BY <3>1 DEF PostFails
    <3>2. CASE PostOk(w)
      <4> TAKE g \in Fields
      <4>1. \/ fields'[g] = fields[g]
            \/ /\ g \in posts[w].did
               /\ fields'[g] = [fields[g] EXCEPT !.state = "done", !.stray = fields[g].stray \/ posts[w].stray]
        BY <3>2 DEF PostOk
      <4>2. fields[g] \in FieldStates
        BY <1>0
      <4> QED
        BY <4>1, <4>2 DEF FieldStates
    <3> QED
      BY <1>8, <3>1, <3>2
  <2> QED
    BY <2>1, <2>2, <2>3 DEF DefsInv
<1>9. CASE Reload
  BY <1>9 DEF Reload, NoPost, DefsInv
<1> QED
  BY <1>1, <1>2, <1>3, <1>4, <1>5, <1>6, <1>7, <1>8, <1>9 DEF Next, SolveAnswer, PostAnswer

(* The field of a region that is shown as computed was computed for the    *)
(* region as it is defined, when no region is edited while its field is    *)
(* being computed.                                                         *)
THEOREM FieldsAsDefinedCorrect == Spec /\ NeverStopped /\ EditsWait => []FieldsAsDefined
<1> DEFINE A == ~CancelPost
           B == posting = "running" => \A f \in Fields \ {Directivity} : ~EditField(f)
<1>1. Init => DefsInv
  BY StoppedInit
<1>2. IInv /\ TypeOK' /\ [Next]_vars /\ [A]_vars /\ [B]_vars /\ StoppedInv /\ DefsInv => DefsInv'
  <2>1. CASE A /\ B
    BY <2>1, DefsStep
  <2>2. CASE UNCHANGED vars
    BY <2>2 DEF vars, DefsInv
  <2> QED
    BY <2>1, <2>2
<1>3. DefsInv => FieldsAsDefined
  BY DEF DefsInv, FieldsAsDefined
<1>4. (NeverStopped <=> [][A]_vars) /\ (EditsWait <=> [][B]_vars)
  BY DEF NeverStopped, EditsWait
<1> HIDE DEF A, B
<1> QED
  BY <1>1, <1>2, <1>3, <1>4, TypeCorrect, SolverInvariant, StoppedInvariant, PTL DEF Spec
=============================================================================

-------------------------- MODULE FolderTree_proofs --------------------------
(***************************************************************************)
(* Proofs about FolderTree, for any folders, courses and projects, any     *)
(* number of requests at once and any depth of recursion.                  *)
(***************************************************************************)
EXTENDS FolderTree, TLAPS

JobOK(j) == j \in Jobs /\ StackFits(j) /\ ItFits(j)

LEMMA NoJobOK == JobOK(NoJob) /\ NoJob.op = "idle" /\ NoJob.to = Root
<1>1. <<>> \in Seq(Frames) /\ Len(<<>>) = 0
  OBVIOUS
<1>2. NoJob \in Jobs
  BY <1>1 DEF NoJob, Jobs, Ops, Places
<1> QED
  BY <1>1, <1>2, FolderAssumption DEF NoJob, JobOK, StackFits, ItFits

LEMMA JobsOK ==
  TypeOK <=> /\ state \in [Folders -> {"free", "here", "gone", "ghost"}]
             /\ parent \in [Folders -> Places]
             /\ place \in [Projects -> Places \cup {"new", "gone"}]
             /\ job \in [Handlers -> Jobs] /\ \A h \in Handlers : JobOK(job[h])
             /\ raced \in BOOLEAN /\ loose \subseteq Things
BY DEF TypeOK, JobOK

LEMMA SetJob ==
  ASSUME TypeOK, NEW h \in Handlers, NEW j, JobOK(j), Becomes(h, j)
  PROVE  /\ job' \in [Handlers -> Jobs] /\ \A g \in Handlers : JobOK(job'[g])
         /\ job'[h] = j /\ \A g \in Handlers \ {h} : job'[g] = job[g]
<1>1. j \in Jobs
  BY DEF JobOK
<1> QED
  BY <1>1, JobsOK DEF Becomes

(* Stacks of frames.                                                       *)
LEMMA Push ==
  ASSUME NEW F, NEW s \in Seq(F), NEW x \in F
  PROVE  /\ <<x>> \o s \in Seq(F) /\ Len(<<x>> \o s) = Len(s) + 1
         /\ <<x>> \o s # <<>>
OBVIOUS

LEMMA Push2 ==
  ASSUME NEW F, NEW s \in Seq(F), NEW x \in F, NEW y \in F
  PROVE  /\ <<x, y>> \o s \in Seq(F) /\ Len(<<x, y>> \o s) = Len(s) + 2
         /\ <<x, y>> \o s # <<>>
OBVIOUS

LEMMA Pop ==
  ASSUME NEW F, NEW s \in Seq(F), s # <<>>
  PROVE  /\ Tail(s) \in Seq(F) /\ Len(Tail(s)) = Len(s) - 1 /\ s[1] \in F
         /\ Len(s) \in Nat /\ Len(s) # 0 /\ (Len(s) # 1 => Tail(s) # <<>>)
OBVIOUS

LEMMA Frame1 ==
  ASSUME NEW at \in Folders \cup {NoId}, NEW dst \in Places, NEW step \in {"subs", "projects"},
         NEW todo \in SUBSET (Things \cup {NoId})
  PROVE  Frame(at, dst, step, todo) \in Frames
BY DEF Frame, Frames

LEMMA ListsType ==
  ASSUME NEW f
  PROVE  Subfolders(f) \subseteq Things \cup {NoId} /\ ProjectsIn(f) \subseteq Things
BY DEF Subfolders, ProjectsIn, Things

(* The job of a handler that goes on with another stack.                   *)
LEMMA StackedOK ==
  ASSUME TypeOK, NEW h \in Handlers, job[h].op \in {"purge", "copy"},
         NEW frames \in Seq(Frames), frames # <<>>, Len(frames) <= MaxDepth
  PROVE  JobOK(Stacked(h, frames))
<1>1. job[h] \in Jobs
  BY JobsOK
<1>2. Stacked(h, frames) \in Jobs /\ Stacked(h, frames).op = job[h].op
      /\ Stacked(h, frames).stack = frames
  BY <1>1 DEF Stacked, Jobs
<1> QED
  BY <1>2 DEF JobOK, StackFits, ItFits

LEMMA TopFacts ==
  ASSUME TypeOK, NEW h \in Handlers, job[h].op \in {"purge", "copy"}
  PROVE  /\ Top(h) \in Frames /\ Below(h) \in Seq(Frames)
         /\ Len(Below(h)) = Len(job[h].stack) - 1
         /\ Len(job[h].stack) \in Nat \ {0} /\ Len(job[h].stack) <= MaxDepth
         /\ Len(job[h].stack) # 1 => Below(h) # <<>>
<1>1. job[h].stack \in Seq(Frames) /\ job[h].stack # <<>> /\ Len(job[h].stack) <= MaxDepth
  BY JobsOK DEF JobOK, StackFits, Jobs
<1> QED
  BY <1>1, Pop DEF Top, Below

LEMMA WithTopOK ==
  ASSUME TypeOK, NEW h \in Handlers, job[h].op \in {"purge", "copy"}, NEW f \in Frames
  PROVE  JobOK(WithTop(h, f))
<1>1. <<f>> \o Below(h) \in Seq(Frames) /\ <<f>> \o Below(h) # <<>>
      /\ Len(<<f>> \o Below(h)) = Len(job[h].stack)
  BY TopFacts, Push
<1>2. Len(<<f>> \o Below(h)) <= MaxDepth
  BY <1>1, TopFacts
<1> QED
  BY <1>1, <1>2, StackedOK DEF WithTop

LEMMA WithoutItemOK ==
  ASSUME TypeOK, NEW h \in Handlers, job[h].op \in {"purge", "copy"}, NEW x
  PROVE  /\ [Top(h) EXCEPT !.todo = @ \ {x}] \in Frames
         /\ JobOK(WithoutItem(h, x))
<1>1. [Top(h) EXCEPT !.todo = @ \ {x}] \in Frames
  BY TopFacts DEF Frames
<1> QED
  BY <1>1, WithTopOK DEF WithoutItem

LEMMA ReturnedOK ==
  ASSUME TypeOK, NEW h \in Handlers, job[h].op \in {"purge", "copy"}
  PROVE  JobOK(Returned(h))
<1>1. CASE Len(job[h].stack) = 1
  BY <1>1, NoJobOK DEF Returned
<1>2. CASE Len(job[h].stack) # 1
  <2>1. Below(h) # <<>> /\ Below(h) \in Seq(Frames) /\ Len(Below(h)) <= MaxDepth
    BY <1>2, TopFacts, FolderAssumption
  <2> QED
    BY <1>2, <2>1, StackedOK DEF Returned
<1> QED
  BY <1>1, <1>2

LEMMA PutType ==
  ASSUME TypeOK, NEW x \in Things, NEW to, Put(x, to)
  PROVE  loose' \subseteq Things
BY DEF TypeOK, Put

LEMMA RemoveType ==
  ASSUME TypeOK, NEW f, Remove(f)
  PROVE  /\ state' \in [Folders -> {"free", "here", "gone", "ghost"}]
         /\ parent' \in [Folders -> Places] /\ loose' \subseteq Things
BY DEF TypeOK, Remove, Places

LEMMA PlainOK ==
  ASSUME NEW j \in Jobs, j.stack = <<>>, j.op \notin {"purge", "copy"}, ItFits(j)
  PROVE  JobOK(j)
BY FolderAssumption DEF JobOK, StackFits

(* A job without a recursion that begins.                                  *)
LEMMA FolderJobs ==
  ASSUME NEW f \in Folders, NEW to \in Places, NEW todo \in SUBSET (Things \cup {NoId}),
         NEW op \in {"create", "find", "empty"}
  PROVE  /\ JobOK([NoJob EXCEPT !.op = op, !.it = f, !.to = to])
         /\ JobOK([NoJob EXCEPT !.op = op, !.it = f, !.todo = todo])
         /\ to # Root => JobOK([NoJob EXCEPT !.op = "climb", !.it = f, !.to = to, !.cur = to])
<1>1. NoJob \in Jobs /\ NoJob.stack = <<>>
  BY NoJobOK DEF JobOK, NoJob
<1> QED
  BY <1>1, PlainOK DEF Jobs, ItFits, Ops, Things, Places

LEMMA PlaceJob ==
  ASSUME NEW p \in Projects, NEW to \in Places
  PROVE  JobOK([NoJob EXCEPT !.op = "place", !.it = p, !.to = to])
<1>1. NoJob \in Jobs /\ NoJob.stack = <<>>
  BY NoJobOK DEF JobOK, NoJob
<1> QED
  BY <1>1, PlainOK DEF Jobs, ItFits, Ops, Things

(* A job that goes on.                                                     *)
LEMMA MoveGoesOn ==
  ASSUME TypeOK, NEW h \in Handlers, job[h].op \in {"climb", "find"}, NEW cur \in Folders
  PROVE  /\ JobOK([job[h] EXCEPT !.op = "find", !.cur = Root])
         /\ JobOK([job[h] EXCEPT !.op = "put"])
         /\ JobOK([job[h] EXCEPT !.cur = cur])
<1>1. job[h] \in Jobs /\ job[h].stack = <<>> /\ job[h].it \in Folders
  BY JobsOK DEF JobOK, StackFits, ItFits
<1> QED
  BY <1>1, PlainOK DEF Jobs, ItFits, Ops, Places

LEMMA EmptyGoesOn ==
  ASSUME TypeOK, NEW h \in Handlers, job[h].op \in {"empty", "lift", "lifting"},
         NEW cur \in Folders, NEW x, NEW todo \in SUBSET (Things \cup {NoId})
  PROVE  /\ JobOK([job[h] EXCEPT !.op = "lift", !.todo = todo])
         /\ JobOK([job[h] EXCEPT !.op = "lifting", !.cur = cur])
         /\ JobOK([job[h] EXCEPT !.op = "lift", !.cur = Root, !.todo = @ \ {x}])
         /\ job[h].op = "empty" => JobOK([job[h] EXCEPT !.todo = @ \ {x}])
<1>1. job[h] \in Jobs /\ job[h].stack = <<>> /\ job[h].it \in Folders
  BY JobsOK DEF JobOK, StackFits, ItFits
<1> QED
  BY <1>1, PlainOK DEF Jobs, ItFits, Ops, Places

(* The job of a recursion that begins.                                     *)
LEMMA StackJob ==
  ASSUME NEW op \in {"purge", "copy"}, NEW frames \in Seq(Frames), frames # <<>>,
         Len(frames) <= MaxDepth
  PROVE  JobOK([NoJob EXCEPT !.op = op, !.stack = frames])
<1>1. NoJob \in Jobs
  BY NoJobOK DEF JobOK
<1> QED
  BY <1>1 DEF JobOK, Jobs, Ops, StackFits, ItFits

LEMMA TypeInit == Init => TypeOK
<1> SUFFICES ASSUME Init PROVE TypeOK
  OBVIOUS
<1>1. job \in [Handlers -> Jobs] /\ \A h \in Handlers : JobOK(job[h])
  BY NoJobOK DEF Init, JobOK
<1> QED
  BY <1>1, JobsOK DEF Init, Places

(* The folders, the projects and what is loose keep their types.           *)
Stored ==
  /\ state \in [Folders -> {"free", "here", "gone", "ghost"}] /\ parent \in [Folders -> Places]
  /\ place \in [Projects -> Places \cup {"new", "gone"}] /\ raced \in BOOLEAN /\ loose \subseteq Things

LEMMA StoredType ==
  ASSUME TypeOK, Stored', NEW h \in Handlers, NEW j, JobOK(j), Becomes(h, j)
  PROVE  TypeOK'
<1>1. job' \in [Handlers -> Jobs] /\ \A g \in Handlers : JobOK(job'[g])
  BY SetJob
<1> QED
  BY <1>1 DEF TypeOK, Stored, JobOK

LEMMA Kept ==
  ASSUME TypeOK, UNCHANGED <<state, parent, place, raced, loose>>
  PROVE  Stored'
BY DEF TypeOK, Stored

LEMMA MoveTypes ==
  ASSUME TypeOK, NEW h \in Handlers, MoveSteps(h)
  PROVE  TypeOK'
<1> USE JobsOK
<1>1. ASSUME NEW f \in Folders, NEW to \in Places, CreateCheck(h, f, to) PROVE TypeOK'
  <2>1. JobOK([NoJob EXCEPT !.op = "create", !.it = f, !.to = to])
    BY FolderJobs
  <2> QED
    BY <1>1, <2>1, Kept, StoredType DEF CreateCheck
<1>2. ASSUME NEW f \in Folders, NEW to \in Places, MoveCheck(h, f, to) PROVE TypeOK'
  <2>1. CASE f \in Personal /\ to # Root
    <3>1. JobOK([NoJob EXCEPT !.op = "climb", !.it = f, !.to = to, !.cur = to])
      BY <2>1, FolderJobs
    <3> QED
      BY <1>2, <2>1, <3>1, Kept, StoredType DEF MoveCheck
  <2>2. CASE ~(f \in Personal /\ to # Root)
    <3>1. JobOK([NoJob EXCEPT !.op = "find", !.it = f, !.to = to])
      BY FolderJobs
    <3> QED
      BY <1>2, <2>2, <3>1, Kept, StoredType DEF MoveCheck
  <2> QED
    BY <2>1, <2>2
<1>3. CASE CreatePut(h)
  <2>1. job[h].it \in Folders /\ job[h].it \in Things
    BY <1>3 DEF CreatePut, Does, JobOK, ItFits, Things
  <2>2. loose' \subseteq Things
    BY <1>3, <2>1, PutType DEF CreatePut
  <2>3. job[h].to \in Places
    BY DEF Jobs
  <2>4. Stored'
    BY <1>3, <2>2, <2>3 DEF CreatePut, Stored
  <2> QED
    BY <1>3, <2>4, NoJobOK, StoredType DEF CreatePut
<1>4. CASE Climb(h)
  <2>1. job[h].cur \in Folders /\ Up(job[h].cur) \in Places
    <3>1. job[h].cur \in Folders
      BY <1>4 DEF Climb, Does, JobOK, ItFits
    <3> QED
      BY <3>1 DEF Up, Places, TypeOK
  <2>2. CASE job[h].cur = job[h].it
    BY <1>4, <2>2, NoJobOK, Kept, StoredType DEF Climb
  <2>3. CASE job[h].cur # job[h].it /\ Up(job[h].cur) = Root
    BY <1>4, <2>1, <2>3, MoveGoesOn, Kept, StoredType DEF Climb, Does
  <2>4. CASE job[h].cur # job[h].it /\ Up(job[h].cur) # Root
    <3>1. Up(job[h].cur) \in Folders
      BY <2>1, <2>4 DEF Places
    <3> QED
      BY <1>4, <2>4, <3>1, MoveGoesOn, Kept, StoredType DEF Climb, Does
  <2> QED
    BY <2>2, <2>3, <2>4
<1>5. CASE Find(h)
  <2>1. job[h].it \in Folders
    BY <1>5 DEF Find, Does, JobOK, ItFits
  <2>2. JobOK([job[h] EXCEPT !.op = "put"])
    BY <1>5, <2>1, MoveGoesOn DEF Find, Does
  <2> QED
    BY <1>5, <2>2, NoJobOK, Kept, StoredType DEF Find, Goes
<1>6. CASE MovePut(h)
  <2>1. \A g \in Handlers : JobOK(job[g]) /\ (Checked(g) => JobOK([job[g] EXCEPT !.clean = FALSE]))
    <3>1. ASSUME NEW g \in Handlers, Checked(g) PROVE JobOK([job[g] EXCEPT !.clean = FALSE])
      <4>1. job[g] \in Jobs /\ job[g].stack = <<>> /\ job[g].op \notin {"purge", "copy"}
            /\ ItFits(job[g])
        BY <3>1 DEF JobOK, StackFits, Checked
      <4>2. [job[g] EXCEPT !.clean = FALSE] \in Jobs /\ ItFits([job[g] EXCEPT !.clean = FALSE])
        BY <4>1 DEF Jobs, ItFits
      <4> QED
        BY <4>1, <4>2, PlainOK DEF Jobs
    <3> QED
      BY <3>1
  <2>2. job' \in [Handlers -> Jobs] /\ \A g \in Handlers : JobOK(job'[g])
    BY <1>6, <2>1, NoJobOK DEF MovePut, JobOK
  <2>3. job[h].it \in Folders /\ job[h].to \in Places
    BY <1>6 DEF MovePut, Does, JobOK, ItFits, Jobs
  <2>4. loose' \subseteq Things
    BY <1>6, <2>3, PutType DEF MovePut, Updated, Things
  <2>5. Stored'
    BY <1>6, <2>3, <2>4 DEF MovePut, Updated, Stored
  <2> QED
    BY <2>2, <2>5 DEF TypeOK, Stored, JobOK
<1>7. ASSUME NEW p \in Projects, NEW to \in Places, PlaceCheck(h, p, to) PROVE TypeOK'
  <2>1. JobOK([NoJob EXCEPT !.op = "place", !.it = p, !.to = to])
    BY PlaceJob
  <2> QED
    BY <1>7, <2>1, Kept, StoredType DEF PlaceCheck
<1>8. CASE PlaceWrite(h)
  <2>1. job[h].it \in Projects /\ job[h].to \in Places
    BY <1>8 DEF PlaceWrite, Does, JobOK, ItFits, Jobs
  <2>2. loose' \subseteq Things
    BY <1>8, <2>1, PutType DEF PlaceWrite, Things
  <2>3. Stored'
    BY <1>8, <2>1, <2>2 DEF PlaceWrite, Stored
  <2> QED
    BY <1>8, <2>3, NoJobOK, StoredType DEF PlaceWrite
<1> QED
  BY <1>1, <1>2, <1>3, <1>4, <1>5, <1>6, <1>7, <1>8 DEF MoveSteps

LEMMA EmptyTypes ==
  ASSUME TypeOK, NEW h \in Handlers, EmptySteps(h)
  PROVE  TypeOK'
<1> USE JobsOK
<1>1. ASSUME NEW f \in Folders, EmptyStart(h, f) PROVE TypeOK'
  <2>1. ProjectsIn(f) \in SUBSET (Things \cup {NoId})
    BY ListsType
  <2>2. JobOK([NoJob EXCEPT !.op = "empty", !.it = f, !.todo = ProjectsIn(f)])
    BY <2>1, FolderJobs DEF Places
  <2> QED
    BY <1>1, <2>2, Kept, StoredType DEF EmptyStart
<1>2. ASSUME NEW g \in Folders \cup {NoId}, LiftFind(h, g) PROVE TypeOK'
  <2>1. CASE g # NoId /\ state[g] = "here"
    BY <1>2, <2>1, EmptyGoesOn, Kept, StoredType DEF LiftFind, Does
  <2>2. CASE ~(g # NoId /\ state[g] = "here")
    BY <1>2, <2>2, NoJobOK, Kept, StoredType DEF LiftFind
  <2> QED
    BY <2>1, <2>2
<1>3. ASSUME NEW p \in Projects, EmptyProject(h, p) PROVE TypeOK'
  <2>1. CASE place[p] = "gone"
    BY <1>3, <2>1, NoJobOK, Kept, StoredType DEF EmptyProject
  <2>2. CASE place[p] # "gone"
    <3>1. JobOK([job[h] EXCEPT !.todo = @ \ {p}])
      <4>1. job[h].it \in Folders /\ job[h].op = "empty"
        BY <1>3 DEF EmptyProject, Does, JobOK, ItFits
      <4> QED
        BY <4>1, EmptyGoesOn
    <3>2. loose' \subseteq Things
      BY <1>3, <2>2, PutType DEF EmptyProject, Things
    <3>3. Stored'
      BY <1>3, <2>2, <3>2 DEF EmptyProject, Stored, Places
    <3> QED
      BY <1>3, <2>2, <3>1, <3>3, StoredType DEF EmptyProject
  <2> QED
    BY <2>1, <2>2
<1>4. CASE EmptyList(h)
  <2>1. Subfolders(job[h].it) \in SUBSET (Things \cup {NoId}) /\ job[h].it \in Folders
    BY <1>4, ListsType DEF EmptyList, Does, JobOK, ItFits
  <2>2. JobOK([job[h] EXCEPT !.op = "lift", !.todo = Subfolders(job[h].it)])
    BY <1>4, <2>1, EmptyGoesOn DEF EmptyList, Does
  <2> QED
    BY <1>4, <2>2, Kept, StoredType DEF EmptyList
<1>5. CASE LiftPut(h)
  <2>1. job[h].cur \in Folders /\ job[h].op = "lifting"
    BY <1>5 DEF LiftPut, Does, JobOK, ItFits
  <2>2. JobOK([job[h] EXCEPT !.op = "lift", !.cur = Root, !.todo = @ \ {job[h].cur}])
    BY <2>1, EmptyGoesOn
  <2>3. loose' \subseteq Things
    BY <1>5, <2>1, PutType DEF LiftPut, Updated, Things
  <2>4. Stored'
    BY <1>5, <2>1, <2>3 DEF LiftPut, Updated, Stored, Places
  <2> QED
    BY <1>5, <2>2, <2>4, StoredType DEF LiftPut
<1>6. CASE RemoveFolder(h)
  <2>1. Stored'
    BY <1>6, RemoveType DEF RemoveFolder, Stored
  <2> QED
    BY <1>6, <2>1, NoJobOK, StoredType DEF RemoveFolder
<1> QED
  BY <1>1, <1>2, <1>3, <1>4, <1>5, <1>6 DEF EmptySteps

LEMMA PurgeTypes ==
  ASSUME TypeOK, NEW h \in Handlers, PurgeSteps(h)
  PROVE  TypeOK'
<1> USE JobsOK
<1>1. ASSUME NEW c \in Folders, PurgeStart(h, c) PROVE TypeOK'
  <2>1. Frame(c, Root, "subs", Subfolders(c)) \in Frames
    BY ListsType, Frame1 DEF Places
  <2> DEFINE frames == <<Frame(c, Root, "subs", Subfolders(c))>>
  <2>2. frames \in Seq(Frames) /\ Len(frames) = 1 /\ frames # <<>>
    BY <2>1
  <2>3. JobOK([NoJob EXCEPT !.op = "purge", !.stack = frames])
    <3>1. Len(frames) <= MaxDepth
      BY <2>2, FolderAssumption
    <3> HIDE DEF frames
    <3> QED
      BY <2>2, <3>1, StackJob
  <2> QED
    BY <1>1, <2>3, Kept, StoredType DEF PurgeStart
<1>2. ASSUME NEW s \in Folders \cup {NoId}, PurgeDescend(h, s) PROVE TypeOK'
  <2> DEFINE old == [Top(h) EXCEPT !.todo = @ \ {s}]
             new == Frame(s, Root, "subs", Subfolders(s))
  <2>1. job[h].op = "purge"
    BY <1>2 DEF PurgeDescend, TopDoes, Does
  <2>2. old \in Frames /\ new \in Frames
    BY <2>1, WithoutItemOK, ListsType, Frame1 DEF Places
  <2>3. /\ <<new, old>> \o Below(h) \in Seq(Frames) /\ <<new, old>> \o Below(h) # <<>>
        /\ Len(<<new, old>> \o Below(h)) = Len(Below(h)) + 2
    <3> HIDE DEF old, new
    <3> QED
      BY <2>1, <2>2, TopFacts, Push2
  <2>4. Len(<<new, old>> \o Below(h)) <= MaxDepth
    <3>1. Len(job[h].stack) < MaxDepth
      BY <1>2 DEF PurgeDescend
    <3> HIDE DEF old, new
    <3> QED
      BY <2>1, <2>3, <3>1, TopFacts, FolderAssumption
  <2>5. JobOK(Stacked(h, <<new, old>> \o Below(h)))
    <3> HIDE DEF old, new
    <3> QED
      BY <2>1, <2>3, <2>4, StackedOK
  <2> QED
    BY <1>2, <2>5, Kept, StoredType DEF PurgeDescend
<1>3. ASSUME NEW p \in Projects, PurgeProject(h, p) PROVE TypeOK'
  <2>1. JobOK(WithoutItem(h, p))
    BY <1>3, WithoutItemOK DEF PurgeProject, TopDoes, Does
  <2>2. Stored'
    BY <1>3 DEF PurgeProject, Stored
  <2> QED
    BY <1>3, <2>1, <2>2, StoredType DEF PurgeProject
<1>4. CASE PurgeScan(h)
  <2> DEFINE fr == Frame(Top(h).at, Root, "projects",
                         ProjectsIn(IF Top(h).at = NoId THEN Root ELSE Top(h).at))
  <2>1. job[h].op = "purge"
    BY <1>4 DEF PurgeScan, TopDoes, Does
  <2>2. Top(h).at \in Folders \cup {NoId}
    BY <2>1, TopFacts DEF Frames
  <2>3. fr \in Frames
    BY <2>2, ListsType, Frame1 DEF Places
  <2>4. JobOK(WithTop(h, fr))
    <3> HIDE DEF fr
    <3> QED
      BY <2>1, <2>3, WithTopOK
  <2> QED
    BY <1>4, <2>4, Kept, StoredType DEF PurgeScan
<1>5. CASE PurgeReturn(h)
  <2>1. JobOK(Returned(h))
    BY <1>5, ReturnedOK DEF PurgeReturn, TopDoes, Does
  <2>2. Stored'
    BY <1>5, RemoveType DEF PurgeReturn, Stored
  <2> QED
    BY <1>5, <2>1, <2>2, StoredType DEF PurgeReturn
<1> QED
  BY <1>1, <1>2, <1>3, <1>4, <1>5 DEF PurgeSteps

LEMMA CopiedType ==
  ASSUME TypeOK, NEW h \in Handlers, NEW c \in Folders, NEW f \in Folders, NEW to \in Places,
         NEW below \in Seq(Frames), Len(below) < MaxDepth, Copied(h, c, f, to, below),
         UNCHANGED <<place, raced>>
  PROVE  TypeOK'
<1> DEFINE new == Frame(c, f, "projects", ProjectsIn(c))
<1>1. new \in Frames
  BY ListsType, Frame1 DEF Places
<1>2. /\ <<new>> \o below \in Seq(Frames) /\ <<new>> \o below # <<>>
      /\ Len(<<new>> \o below) = Len(below) + 1
  <2> HIDE DEF new
  <2> QED
    BY <1>1, Push
<1>3. Len(<<new>> \o below) <= MaxDepth
  <2> HIDE DEF new
  <2> QED
    BY <1>2, FolderAssumption
<1>4. JobOK([NoJob EXCEPT !.op = "copy", !.stack = <<new>> \o below])
  <2> HIDE DEF new
  <2> QED
    BY <1>2, <1>3, StackJob
<1>5. loose' \subseteq Things
  BY PutType DEF Copied, Things
<1>6. Stored'
  BY <1>5 DEF Copied, Stored, TypeOK
<1> QED
  BY <1>4, <1>6, StoredType DEF Copied

LEMMA CopyTypes ==
  ASSUME TypeOK, NEW h \in Handlers, CopySteps(h)
  PROVE  TypeOK'
<1> USE JobsOK
<1>1. ASSUME NEW c \in Folders, NEW f \in Folders, NEW to \in Places, CopyStart(h, c, f, to)
      PROVE  TypeOK'
  <2>1. <<>> \in Seq(Frames) /\ Len(<<>>) < MaxDepth
    BY FolderAssumption
  <2> QED
    BY <1>1, <2>1, CopiedType DEF CopyStart
<1>2. ASSUME NEW s \in Folders \cup {NoId}, NEW f \in Folders, CopyDescend(h, s, f)
      PROVE  TypeOK'
  <2> DEFINE old == [Top(h) EXCEPT !.todo = @ \ {s}]
  <2>1. job[h].op = "copy" /\ s \in Folders
    BY <1>2 DEF CopyDescend, TopDoes, Does
  <2>2. old \in Frames /\ Top(h).dst \in Places
    BY <2>1, WithoutItemOK, TopFacts DEF Frames
  <2>3. <<old>> \o Below(h) \in Seq(Frames) /\ Len(<<old>> \o Below(h)) = Len(job[h].stack)
    <3> HIDE DEF old
    <3> QED
      BY <2>1, <2>2, TopFacts, Push
  <2>4. Len(<<old>> \o Below(h)) < MaxDepth
    BY <1>2, <2>3 DEF CopyDescend
  <2>5. Copied(h, s, f, Top(h).dst, <<old>> \o Below(h)) /\ UNCHANGED <<place, raced>>
    BY <1>2 DEF CopyDescend
  <2> HIDE DEF old
  <2> QED
    BY <2>1, <2>2, <2>3, <2>4, <2>5, CopiedType
<1>3. ASSUME NEW p \in Projects, NEW q \in Projects, CopyProject(h, p, q) PROVE TypeOK'
  <2>1. job[h].op = "copy"
    BY <1>3 DEF CopyProject, TopDoes, Does
  <2>2. JobOK(WithoutItem(h, p)) /\ Top(h).dst \in Places
    BY <2>1, WithoutItemOK, TopFacts DEF Frames
  <2>3. loose' \subseteq Things
    BY <1>3, PutType DEF CopyProject, Things
  <2>4. Stored'
    BY <1>3, <2>2, <2>3 DEF CopyProject, Stored
  <2> QED
    BY <1>3, <2>2, <2>4, StoredType DEF CopyProject
<1>4. CASE CopyList(h)
  <2> DEFINE fr == Frame(Top(h).at, Top(h).dst, "subs", Subfolders(Top(h).at))
  <2>1. job[h].op = "copy"
    BY <1>4 DEF CopyList, TopDoes, Does
  <2>2. Top(h).at \in Folders \cup {NoId} /\ Top(h).dst \in Places
    BY <2>1, TopFacts DEF Frames
  <2>3. fr \in Frames
    BY <2>2, ListsType, Frame1
  <2>4. JobOK(WithTop(h, fr))
    <3> HIDE DEF fr
    <3> QED
      BY <2>1, <2>3, WithTopOK
  <2> QED
    BY <1>4, <2>4, Kept, StoredType DEF CopyList
<1>5. CASE CopyReturn(h)
  <2>1. JobOK(Returned(h))
    BY <1>5, ReturnedOK DEF CopyReturn, TopDoes, Does
  <2> QED
    BY <1>5, <2>1, Kept, StoredType DEF CopyReturn
<1> QED
  BY <1>1, <1>2, <1>3, <1>4, <1>5 DEF CopySteps

LEMMA TypeStep == TypeOK /\ [Next]_vars => TypeOK'
<1> SUFFICES ASSUME TypeOK, [Next]_vars PROVE TypeOK'
  OBVIOUS
<1>1. ASSUME NEW h \in Handlers, Dies(h) PROVE TypeOK'
  BY <1>1, NoJobOK, Kept, StoredType DEF Dies
<1>2. ASSUME NEW p \in Projects, DeleteProject(p) PROVE TypeOK'
  BY <1>2 DEF DeleteProject, TypeOK
<1>3. CASE UNCHANGED vars
  BY <1>3 DEF vars, TypeOK
<1> QED
  BY <1>1, <1>2, <1>3, MoveTypes, EmptyTypes, PurgeTypes, CopyTypes DEF Next

(* Every reachable state has its types: the recursions of delete_course    *)
(* and copy_course_to_user stay within the depth at which they fail.       *)
THEOREM TypeCorrect == Spec => []TypeOK
BY TypeInit, TypeStep, PTL DEF Spec
--------------------------------------------------------------------------------
(* CycleTakesARace.  A set of folders that holds a folder with its parent, *)
(* for every folder in it, is a cycle or leads to one.                     *)

\* No folder lies in an id that is still free, and no request is about to put
\* one there.
Rooted == \A x \in Personal : Up(x) = Root \/ (Up(x) \in Folders /\ state[Up(x)] # "free")
Known(st, s) == \A i \in 1 .. Len(s) : s[i].dst \in Folders /\ st[s[i].dst] # "free"
Heads(h) ==
  /\ job[h].op \in {"create", "climb", "find", "put"} =>
       job[h].to = Root \/ (job[h].to \in Folders /\ state[job[h].to] # "free")
  /\ job[h].op = "copy" => Known(state, job[h].stack)

\* When no other move got in between, the walk up from the new parent finds
\* the folder, if it is there to find: a set that holds the new parent and,
\* with every folder but the moved one, its parent too, is a set in which the
\* walk still goes on.
ClosedBut(T, f) == \A x \in T : x = f \/ Up(x) \in T
Climbs(h) ==
  Checked(h) /\ job[h].clean =>
    \A T \in SUBSET Personal :
      job[h].to \in T /\ ClosedBut(T, job[h].it) => job[h].op = "climb" /\ job[h].cur \in T

CycleInv ==
  /\ TypeOK /\ Rooted /\ CycleTakesARace
  /\ \A h \in Handlers : Heads(h) /\ Climbs(h)

Falls == \A x \in Personal : Up(x)' = Up(x) \/ Up(x)' = Root
Aged == \A x \in Folders : state'[x] = "free" => state[x] = "free"
Alone(h) == \A g \in Handlers \ {h} : job'[g] = job[g]

LEMMA RootOutside == Root \notin Folders /\ Root \notin Personal /\ Personal \subseteq Folders
BY FolderAssumption DEF Folders

LEMMA KnownPush ==
  ASSUME NEW st, NEW s \in Seq(Frames), NEW x \in Frames, Known(st, s),
         x.dst \in Folders, st[x.dst] # "free"
  PROVE  Known(st, <<x>> \o s)
<1>1. /\ Len(<<x>> \o s) = Len(s) + 1 /\ (<<x>> \o s)[1] = x
      /\ \A i \in 2 .. Len(s) + 1 : (<<x>> \o s)[i] = s[i - 1]
  OBVIOUS
<1>2. ASSUME NEW i \in 1 .. Len(<<x>> \o s)
      PROVE  (<<x>> \o s)[i].dst \in Folders /\ st[(<<x>> \o s)[i].dst] # "free"
  <2>1. CASE i = 1
    BY <1>1, <2>1
  <2>2. CASE i # 1
    <3>1. i \in 2 .. Len(s) + 1 /\ i - 1 \in 1 .. Len(s)
      BY <1>1, <2>2
    <3> QED
      BY <1>1, <3>1 DEF Known
  <2> QED
    BY <2>1, <2>2
<1> QED
  BY <1>2 DEF Known

LEMMA KnownTail ==
  ASSUME NEW st, NEW s \in Seq(Frames), s # <<>>, Known(st, s)
  PROVE  Known(st, Tail(s)) /\ s[1].dst \in Folders /\ st[s[1].dst] # "free"
<1>1. /\ Len(Tail(s)) = Len(s) - 1 /\ Len(s) \in Nat \ {0}
      /\ \A i \in 1 .. Len(s) - 1 : Tail(s)[i] = s[i + 1]
  OBVIOUS
<1> QED
  BY <1>1 DEF Known

LEMMA HeadsKept ==
  ASSUME TypeOK, NEW g \in Handlers, Heads(g), Aged, job'[g] = job[g]
  PROVE  Heads(g)'
<1>1. job[g].op = "copy" => Known(state', job[g].stack)
  BY DEF Heads, Known, Aged
<1> QED
  BY <1>1 DEF Heads, Aged

LEMMA ClimbsKept ==
  ASSUME NEW g \in Handlers, Climbs(g), Falls, job'[g] = job[g]
  PROVE  Climbs(g)'
<1> SUFFICES ASSUME Checked(g), job[g].clean, NEW T \in SUBSET Personal, job[g].to \in T,
                    ClosedBut(T, job[g].it)'
             PROVE  job[g].op = "climb" /\ job[g].cur \in T
  BY DEF Climbs, Checked
<1>1. \A x \in T : x = job[g].it \/ Up(x)' \in T
  BY DEF ClosedBut
<1>2. ClosedBut(T, job[g].it)
  BY <1>1, RootOutside DEF Falls, ClosedBut
<1> QED
  BY <1>2 DEF Climbs

(* A step after which every folder is where it was, or at the root.        *)
LEMMA FallStep ==
  ASSUME CycleInv, TypeOK', NEW h \in Handlers, Falls, Aged, Alone(h), Heads(h)', Climbs(h)',
         raced' = raced
  PROVE  CycleInv'
<1>1. Rooted'
  BY DEF CycleInv, Rooted, Falls, Aged
<1>2. Acyclic => Acyclic'
  <2> SUFFICES ASSUME Acyclic, NEW S \in SUBSET Personal, S # {}
               PROVE  \E f \in S : Up(f)' \notin S
    BY DEF Acyclic
  <2>1. PICK f \in S : Up(f) \notin S
    BY DEF Acyclic
  <2> QED
    BY <2>1, RootOutside DEF Falls
<1>3. CycleTakesARace'
  BY <1>2 DEF CycleInv, CycleTakesARace
<1>4. ASSUME NEW g \in Handlers PROVE Heads(g)' /\ Climbs(g)'
  <2>1. CASE g = h
    BY <2>1
  <2>2. CASE g # h
    BY <2>2, HeadsKept, ClimbsKept DEF CycleInv, Alone
  <2> QED
    BY <2>1, <2>2
<1> QED
  BY <1>1, <1>3, <1>4 DEF CycleInv

(* A step that makes a folder.                                             *)
LEMMA GrowStep ==
  ASSUME CycleInv, TypeOK', NEW h \in Handlers, NEW f \in Personal, state[f] = "free",
         NEW to, to = Root \/ (to \in Folders /\ state[to] # "free"), Up(f)' = to,
         \A x \in Personal \ {f} : Up(x)' = Up(x),
         Aged, Alone(h), Heads(h)', Climbs(h)', raced' = raced
  PROVE  CycleInv'
<1>1. \A x \in Personal : Up(x) # f
  BY RootOutside DEF CycleInv, Rooted
<1>2. to # f
  BY RootOutside
<1>3. Rooted'
  BY DEF CycleInv, Rooted, Aged
<1>4. Acyclic => Acyclic'
  <2> SUFFICES ASSUME Acyclic, NEW S \in SUBSET Personal, S # {}, \A x \in S : Up(x)' \in S
               PROVE  FALSE
    BY DEF Acyclic
  <2>1. S \ {f} # {}
    BY <1>2
  <2>2. PICK y \in S \ {f} : Up(y) \notin S \ {f}
    BY <2>1 DEF Acyclic
  <2> QED
    BY <1>1, <2>2
<1>5. ASSUME NEW g \in Handlers, g # h PROVE Climbs(g)'
  <2>1. job'[g] = job[g] /\ Heads(g) /\ Climbs(g)
    BY <1>5 DEF Alone, CycleInv
  <2> SUFFICES ASSUME Checked(g), job[g].clean, NEW T \in SUBSET Personal, job[g].to \in T,
                      ClosedBut(T, job[g].it)'
               PROVE  job[g].op = "climb" /\ job[g].cur \in T
    BY <2>1 DEF Climbs, Checked
  <2>2. job[g].to # f
    BY <2>1, RootOutside DEF Heads, Checked
  <2>3. \A x \in T : x = job[g].it \/ Up(x)' \in T
    BY <2>1 DEF ClosedBut
  <2>4. ClosedBut(T \ {f}, job[g].it) /\ job[g].to \in T \ {f}
    BY <1>1, <2>2, <2>3 DEF ClosedBut
  <2>5. T \ {f} \in SUBSET Personal
    OBVIOUS
  <2> QED
    BY <2>1, <2>4, <2>5 DEF Climbs
<1>6. ASSUME NEW g \in Handlers, g # h PROVE Heads(g)'
  BY <1>6, HeadsKept DEF CycleInv, Alone
<1> QED
  BY <1>3, <1>4, <1>5, <1>6 DEF CycleInv, CycleTakesARace

(* A step that leaves the folders alone.                                   *)
LEMMA JobStep ==
  ASSUME CycleInv, TypeOK', NEW h \in Handlers, UNCHANGED <<state, parent, raced>>, Alone(h),
         Heads(h)', Climbs(h)'
  PROVE  CycleInv'
<1>1. Falls /\ Aged
  BY DEF Falls, Aged, Up
<1> QED
  BY <1>1, FallStep

LEMMA Others == ASSUME TypeOK, NEW h \in Handlers, NEW j, Becomes(h, j)
                PROVE  Alone(h) /\ job'[h] = j
BY DEF Alone, Becomes, TypeOK

(* A job that is neither a move nor a copy claims nothing.                 *)
LEMMA OtherJob ==
  ASSUME NEW h \in Handlers, job'[h].op \in {"idle", "place", "empty", "lift", "lifting", "purge"}
  PROVE  Heads(h)' /\ Climbs(h)'
BY DEF Heads, Climbs, Checked

LEMMA CycleInit == Init => CycleInv
<1> SUFFICES ASSUME Init PROVE CycleInv
  OBVIOUS
<1>1. TypeOK
  BY TypeInit
<1>2. \A x \in Personal : Up(x) = Root
  BY RootOutside DEF Init, Up
<1>3. Acyclic
  BY <1>2, RootOutside DEF Acyclic
<1>4. \A h \in Handlers : job[h].op = "idle"
  BY DEF Init, NoJob
<1> QED
  BY <1>1, <1>2, <1>3, <1>4 DEF CycleInv, Rooted, CycleTakesARace, Heads, Climbs, Checked

LEMMA ParentKnown ==
  ASSUME TypeOK, NEW x, NEW to \in Parents(x)
  PROVE  to = Root \/ (to \in Folders /\ state[to] # "free")
BY DEF Parents

LEMMA CycleCreatePut ==
  ASSUME CycleInv, TypeOK', NEW h \in Handlers, CreatePut(h)
  PROVE  CycleInv'
<1>1. TypeOK /\ Heads(h) /\ job[h].it \in Folders
  BY JobsOK DEF CycleInv, CreatePut, Does, JobOK, ItFits
<1>2. PICK f \in Folders : f = job[h].it
  BY <1>1
<1>3. PICK to : to = job[h].to
  OBVIOUS
<1>4. to = Root \/ (to \in Folders /\ state[to] # "free")
  BY <1>1, <1>3 DEF Heads, CreatePut, Does
<1>5. /\ state[f] = "free"
      /\ state' = [state EXCEPT ![f] = "here"] /\ parent' = [parent EXCEPT ![f] = to]
      /\ Becomes(h, NoJob) /\ raced' = raced
  BY <1>2, <1>3 DEF CreatePut
<1>6. Alone(h) /\ Heads(h)' /\ Climbs(h)'
  BY <1>1, <1>5, Others, OtherJob, NoJobOK
<1>7. Aged /\ Up(f)' = to /\ \A x \in Personal \ {f} : Up(x)' = Up(x)
  BY <1>1, <1>5, RootOutside DEF Aged, Up, TypeOK
<1>8. CASE f \in Personal
  BY <1>4, <1>5, <1>6, <1>7, <1>8, GrowStep
<1>9. CASE f \notin Personal
  BY <1>5, <1>6, <1>7, <1>9, FallStep DEF Falls
<1> QED
  BY <1>8, <1>9

LEMMA CycleMoveCheck ==
  ASSUME CycleInv, TypeOK', NEW h \in Handlers, NEW f \in Folders, NEW to, MoveCheck(h, f, to)
  PROVE  CycleInv'
<1>1. TypeOK /\ (to = Root \/ (to \in Folders /\ state[to] # "free"))
  BY ParentKnown DEF CycleInv, MoveCheck
<1>2. CASE f \in Personal /\ to # Root
  <2> DEFINE j == [NoJob EXCEPT !.op = "climb", !.it = f, !.to = to, !.cur = to]
  <2>1. Becomes(h, j)
    BY <1>2 DEF MoveCheck
  <2>2. j.op = "climb" /\ j.it = f /\ j.to = to /\ j.cur = to /\ j.clean = TRUE
    BY DEF NoJob
  <2> HIDE DEF j
  <2>3. Alone(h) /\ job'[h] = j
    BY <1>1, <2>1, Others
  <2>4. state' = state
    BY DEF MoveCheck
  <2>5. Heads(h)' /\ Climbs(h)'
    BY <1>1, <2>2, <2>3, <2>4 DEF Heads, Climbs
  <2> QED
    BY <2>3, <2>5, JobStep DEF MoveCheck
<1>3. CASE ~(f \in Personal /\ to # Root)
  <2> DEFINE j == [NoJob EXCEPT !.op = "find", !.it = f, !.to = to]
  <2>1. Becomes(h, j)
    BY <1>3 DEF MoveCheck
  <2>2. j.op = "find" /\ j.it = f /\ j.to = to
    BY DEF NoJob
  <2> HIDE DEF j
  <2>3. Alone(h) /\ job'[h] = j
    BY <1>1, <2>1, Others
  <2>4. state' = state
    BY DEF MoveCheck
  <2>5. Heads(h)' /\ Climbs(h)'
    BY <1>1, <1>3, <2>2, <2>3, <2>4 DEF Heads, Climbs, Checked
  <2> QED
    BY <2>3, <2>5, JobStep DEF MoveCheck
<1> QED
  BY <1>2, <1>3

LEMMA CycleClimb ==
  ASSUME CycleInv, TypeOK', NEW h \in Handlers, Climb(h)
  PROVE  CycleInv'
<1>1. TypeOK /\ Heads(h) /\ Climbs(h) /\ job[h].op = "climb" /\ job[h] \in Jobs
  BY JobsOK DEF CycleInv, Climb, Does
<1>2. UNCHANGED <<state, parent, raced>>
  BY DEF Climb
<1>3. CASE job[h].cur = job[h].it
  BY <1>1, <1>2, <1>3, Others, OtherJob, NoJobOK, JobStep DEF Climb
<1>4. CASE job[h].cur # job[h].it
  <2> DEFINE j == IF Up(job[h].cur) = Root THEN [job[h] EXCEPT !.op = "find", !.cur = Root]
                  ELSE [job[h] EXCEPT !.cur = Up(job[h].cur)]
  <2>1. Becomes(h, j)
    BY <1>4 DEF Climb
  <2>2. /\ j.it = job[h].it /\ j.to = job[h].to /\ j.clean = job[h].clean
        /\ Up(job[h].cur) = Root => j.op = "find"
        /\ Up(job[h].cur) # Root => j.op = "climb" /\ j.cur = Up(job[h].cur)
    BY <1>1 DEF Jobs
  <2> HIDE DEF j
  <2>3. Alone(h) /\ job'[h] = j
    BY <1>1, <2>1, Others
  <2>4. Heads(h)'
    BY <1>1, <1>2, <2>2, <2>3 DEF Heads
  <2>5. Climbs(h)'
    <3> SUFFICES ASSUME Checked(h)', job'[h].clean, NEW T \in SUBSET Personal,
                        job'[h].to \in T, ClosedBut(T, job[h].it)'
                 PROVE  job'[h].op = "climb" /\ job'[h].cur \in T
      BY DEF Climbs
    <3>1. Checked(h) /\ job[h].clean /\ job[h].to \in T
      BY <1>1, <2>2, <2>3 DEF Checked
    <3>2. \A x \in T : x = job[h].it \/ Up(x) \in T
      BY <1>2, <2>2, <2>3 DEF ClosedBut, Up
    <3>3. job[h].cur \in T
      BY <1>1, <3>1, <3>2 DEF Climbs, ClosedBut
    <3>4. Up(job[h].cur) \in T
      BY <1>4, <3>2, <3>3
    <3> QED
      BY <2>2, <2>3, <3>4, RootOutside
  <2> QED
    BY <1>2, <2>3, <2>4, <2>5, JobStep
<1> QED
  BY <1>3, <1>4

LEMMA CycleFind ==
  ASSUME CycleInv, TypeOK', NEW h \in Handlers, Find(h)
  PROVE  CycleInv'
<1>1. TypeOK /\ Heads(h) /\ Climbs(h) /\ job[h].op = "find" /\ job[h] \in Jobs
  BY JobsOK DEF CycleInv, Find, Does
<1>2. UNCHANGED <<state, parent, raced>>
  BY DEF Find
<1>3. CASE state[job[h].it] # "here"
  BY <1>1, <1>2, <1>3, Others, OtherJob, NoJobOK, JobStep DEF Find
<1>4. CASE state[job[h].it] = "here"
  <2> DEFINE j == [job[h] EXCEPT !.op = "put"]
  <2>1. Becomes(h, j)
    BY <1>4 DEF Find, Goes
  <2>2. j.it = job[h].it /\ j.to = job[h].to /\ j.clean = job[h].clean /\ j.op = "put"
    BY <1>1 DEF Jobs
  <2> HIDE DEF j
  <2>3. Alone(h) /\ job'[h] = j
    BY <1>1, <2>1, Others
  <2>4. Heads(h)'
    BY <1>1, <1>2, <2>2, <2>3 DEF Heads
  <2>5. Climbs(h)'
    <3> SUFFICES ASSUME Checked(h)', job'[h].clean, NEW T \in SUBSET Personal,
                        job'[h].to \in T, ClosedBut(T, job[h].it)'
                 PROVE  FALSE
      BY DEF Climbs
    <3>1. Checked(h) /\ job[h].clean /\ job[h].to \in T
      BY <1>1, <2>2, <2>3 DEF Checked
    <3>2. ClosedBut(T, job[h].it)
      BY <1>2, <2>2, <2>3 DEF ClosedBut, Up
    <3> QED
      BY <1>1, <3>1, <3>2 DEF Climbs
  <2> QED
    BY <1>2, <2>3, <2>4, <2>5, JobStep
<1> QED
  BY <1>3, <1>4

(* The write of an update: the folder moves, a folder that has gone comes  *)
(* back as an item without a parent that can be found.                     *)
LEMMA UpdatedMoves ==
  ASSUME TypeOK, NEW f \in Folders, NEW to \in Places, Updated(f, to)
  PROVE  /\ Aged /\ \A x \in Folders \ {f} : Up(x)' = Up(x)
         /\ IF state[f] = "here" THEN Up(f)' = to ELSE Up(f)' = Root
BY DEF Aged, Updated, Up, TypeOK

LEMMA CycleMovePut ==
  ASSUME CycleInv, TypeOK', NEW h \in Handlers, MovePut(h)
  PROVE  CycleInv'
<1>1. TypeOK /\ Heads(h) /\ Climbs(h) /\ job[h].op = "put"
      /\ job[h].it \in Folders /\ job[h].to \in Places
  BY JobsOK DEF CycleInv, MovePut, Does, JobOK, ItFits, Jobs
<1>2. PICK f \in Folders : f = job[h].it
  BY <1>1
<1>3. PICK to \in Places : to = job[h].to
  BY <1>1
<1>4. to = Root \/ (to \in Folders /\ state[to] # "free")
  BY <1>1, <1>3 DEF Heads
<1>5. /\ Aged /\ \A x \in Folders \ {f} : Up(x)' = Up(x)
      /\ IF state[f] = "here" THEN Up(f)' = to ELSE Up(f)' = Root
  BY <1>1, <1>2, <1>3, UpdatedMoves DEF MovePut
<1>6. /\ job'[h] = NoJob
      /\ \A g \in Handlers \ {h} :
           job'[g] = IF Checked(g) /\ f \in Personal THEN [job[g] EXCEPT !.clean = FALSE] ELSE job[g]
  BY <1>2 DEF MovePut
<1>7. Rooted'
  BY <1>4, <1>5, RootOutside DEF CycleInv, Rooted, Aged
<1>8. ASSUME NEW g \in Handlers PROVE Heads(g)' /\ Climbs(g)'
  <2>1. CASE g = h
    BY <1>6, <2>1, OtherJob, NoJobOK
  <2>2. CASE g # h /\ ~(Checked(g) /\ f \in Personal)
    <3>1. job'[g] = job[g]
      BY <1>6, <2>2
    <3>2. CASE ~Checked(g)
      <4>1. Heads(g)'
        BY <1>1, <1>5, <3>1, HeadsKept DEF CycleInv
      <4>2. Climbs(g)'
        BY <3>1, <3>2 DEF Climbs, Checked
      <4> QED
        BY <4>1, <4>2
    <3>3. CASE f \notin Personal
      <4>1. Falls
        BY <1>5, <3>3, RootOutside DEF Falls
      <4> QED
        BY <1>1, <1>5, <3>1, <4>1, HeadsKept, ClimbsKept DEF CycleInv
    <3> QED
      BY <2>2, <3>2, <3>3
  <2>3. CASE g # h /\ Checked(g) /\ f \in Personal
    <3>1. job[g] \in Jobs /\ job'[g] = [job[g] EXCEPT !.clean = FALSE]
      BY <1>1, <1>6, <2>3, JobsOK
    <3>2. job'[g].op = job[g].op /\ job'[g].to = job[g].to /\ job'[g].clean = FALSE
      BY <3>1 DEF Jobs
    <3>3. Heads(g)'
      BY <1>5, <2>3, <3>2 DEF CycleInv, Heads, Checked, Aged
    <3> QED
      BY <3>2, <3>3 DEF Climbs
  <2> QED
    BY <2>1, <2>2, <2>3
<1>9. ASSUME Acyclic, job[h].clean PROVE Acyclic'
  <2> SUFFICES ASSUME NEW S \in SUBSET Personal, S # {}, \A x \in S : Up(x)' \in S
               PROVE  FALSE
    BY DEF Acyclic
  <2>1. CASE f \notin S \/ state[f] # "here" \/ to = Root
    <3>1. \A x \in S : Up(x) \in S
      BY <1>5, <2>1, RootOutside
    <3> QED
      BY <1>9, <3>1 DEF Acyclic
  <2>2. CASE f \in S /\ state[f] = "here" /\ to # Root
    <3>1. to \in S /\ ClosedBut(S, f)
      BY <1>5, <2>2, RootOutside DEF ClosedBut
    <3>2. Checked(h)
      BY <1>1, <1>2, <1>3, <2>2 DEF Checked
    <3> QED
      BY <1>1, <1>2, <1>3, <1>9, <3>1, <3>2 DEF Climbs
  <2> QED
    BY <2>1, <2>2
<1>10. raced' = (raced \/ ~job[h].clean)
  BY DEF MovePut
<1>11. CycleTakesARace'
  BY <1>9, <1>10 DEF CycleInv, CycleTakesARace
<1> QED
  BY <1>7, <1>8, <1>11 DEF CycleInv

LEMMA CycleLiftPut ==
  ASSUME CycleInv, TypeOK', NEW h \in Handlers, LiftPut(h)
  PROVE  CycleInv'
<1>1. TypeOK /\ job[h].op = "lifting" /\ job[h].cur \in Folders /\ job[h] \in Jobs
  BY JobsOK DEF CycleInv, LiftPut, Does, JobOK, ItFits
<1>2. PICK f \in Folders : f = job[h].cur
  BY <1>1
<1>3. Falls /\ Aged
  BY <1>1, <1>2, UpdatedMoves, RootOutside DEF LiftPut, Falls, Places
<1> DEFINE j == [job[h] EXCEPT !.op = "lift", !.cur = Root, !.todo = @ \ {job[h].cur}]
<1>4. Becomes(h, j) /\ raced' = raced
  BY DEF LiftPut
<1>5. j.op = "lift"
  BY <1>1 DEF Jobs
<1> HIDE DEF j
<1>6. Alone(h) /\ job'[h] = j
  BY <1>1, <1>4, Others
<1>7. Heads(h)' /\ Climbs(h)'
  BY <1>5, <1>6, OtherJob
<1> QED
  BY <1>3, <1>4, <1>6, <1>7, FallStep

LEMMA RemoveFalls ==
  ASSUME TypeOK, NEW f, Remove(f)
  PROVE  Falls /\ Aged
BY RootOutside DEF Remove, Falls, Aged, Up, TypeOK

LEMMA ReturnedJob ==
  ASSUME TypeOK, NEW h \in Handlers, job[h].op \in {"purge", "copy"}
  PROVE  Returned(h).op = "idle" \/ (/\ Returned(h).op = job[h].op
                                      /\ Returned(h).stack = Tail(job[h].stack))
<1>1. job[h] \in Jobs
  BY JobsOK
<1> QED
  BY <1>1, NoJobOK DEF Returned, Stacked, Below, Jobs

LEMMA CyclePurge ==
  ASSUME CycleInv, TypeOK', NEW h \in Handlers, PurgeSteps(h)
  PROVE  CycleInv'
<1>1. TypeOK
  BY DEF CycleInv
<1>2. ASSUME NEW j, Becomes(h, j), j.op \in {"purge", "idle"}
      PROVE  Alone(h) /\ Heads(h)' /\ Climbs(h)'
  BY <1>1, <1>2, Others, OtherJob
<1>3. ASSUME job[h].op = "purge", NEW frames PROVE Stacked(h, frames).op = "purge"
  BY <1>1, <1>3, JobsOK DEF Stacked, Jobs
<1>4. ASSUME NEW c \in Folders, PurgeStart(h, c) PROVE CycleInv'
  <2> DEFINE j == [NoJob EXCEPT !.op = "purge", !.stack = <<Frame(c, Root, "subs", Subfolders(c))>>]
  <2>1. j.op = "purge"
    BY DEF NoJob
  <2>2. Becomes(h, j) /\ UNCHANGED <<state, parent, raced>>
    BY <1>4 DEF PurgeStart
  <2> HIDE DEF j
  <2> QED
    BY <1>2, <2>1, <2>2, JobStep
<1>5. ASSUME NEW s \in Folders \cup {NoId}, PurgeDescend(h, s) PROVE CycleInv'
  <2>1. job[h].op = "purge" /\ UNCHANGED <<state, parent, raced>>
    BY <1>5 DEF PurgeDescend, TopDoes, Does
  <2>2. PICK frames : Becomes(h, Stacked(h, frames))
    BY <1>5 DEF PurgeDescend
  <2> QED
    BY <1>2, <1>3, <2>1, <2>2, JobStep
<1>6. ASSUME NEW p \in Projects, PurgeProject(h, p) PROVE CycleInv'
  <2>1. job[h].op = "purge" /\ UNCHANGED <<state, parent, raced>>
    BY <1>6 DEF PurgeProject, TopDoes, Does
  <2>2. PICK frames : Becomes(h, Stacked(h, frames))
    BY <1>6 DEF PurgeProject, WithoutItem, WithTop
  <2> QED
    BY <1>2, <1>3, <2>1, <2>2, JobStep
<1>7. CASE PurgeScan(h)
  <2>1. job[h].op = "purge" /\ UNCHANGED <<state, parent, raced>>
    BY <1>7 DEF PurgeScan, TopDoes, Does
  <2>2. PICK frames : Becomes(h, Stacked(h, frames))
    BY <1>7 DEF PurgeScan, WithTop
  <2> QED
    BY <1>2, <1>3, <2>1, <2>2, JobStep
<1>8. CASE PurgeReturn(h)
  <2>1. job[h].op = "purge" /\ raced' = raced /\ Becomes(h, Returned(h))
    BY <1>8 DEF PurgeReturn, TopDoes, Does
  <2>2. Falls /\ Aged
    BY <1>1, <1>8, RemoveFalls DEF PurgeReturn
  <2>3. Returned(h).op \in {"purge", "idle"}
    BY <1>1, <2>1, ReturnedJob
  <2> QED
    BY <1>2, <2>1, <2>2, <2>3, FallStep
<1> QED
  BY <1>4, <1>5, <1>6, <1>7, <1>8 DEF PurgeSteps

(* A copy goes on with a stack of known folders.                           *)
LEMMA CopyJob ==
  ASSUME NEW h \in Handlers, job'[h].op \in {"copy", "idle"},
         job'[h].op = "copy" => Known(state', job'[h].stack)
  PROVE  Heads(h)' /\ Climbs(h)'
BY DEF Heads, Climbs, Checked

LEMMA CycleCopied ==
  ASSUME CycleInv, TypeOK', NEW h \in Handlers, NEW c \in Folders, NEW f \in Folders,
         NEW to \in Places, to = Root \/ (to \in Folders /\ state[to] # "free"),
         NEW below \in Seq(Frames), Known(state, below),
         Copied(h, c, f, to, below), UNCHANGED <<place, raced>>
  PROVE  CycleInv'
<1> DEFINE new == Frame(c, f, "projects", ProjectsIn(c))
           j == [NoJob EXCEPT !.op = "copy", !.stack = <<new>> \o below]
<1>1. TypeOK /\ state[f] = "free" /\ f \in Personal /\ Becomes(h, j)
  BY DEF CycleInv, Copied
<1>2. state' = [state EXCEPT ![f] = "here"] /\ parent' = [parent EXCEPT ![f] = to]
  BY DEF Copied
<1>3. Aged /\ Up(f)' = to /\ (\A x \in Personal \ {f} : Up(x)' = Up(x)) /\ state'[f] = "here"
  BY <1>1, <1>2, RootOutside DEF Aged, Up, TypeOK
<1>4. new \in Frames /\ new.dst = f
  BY ListsType, Frame1 DEF Places, Frame
<1>5. j.op = "copy" /\ j.stack = <<new>> \o below
  BY DEF NoJob
<1> HIDE DEF new, j
<1>6. Known(state', below)
  BY <1>3 DEF Known, Aged
<1>7. Known(state', j.stack)
  BY <1>3, <1>4, <1>5, <1>6, KnownPush
<1>8. Alone(h) /\ job'[h] = j
  BY <1>1, Others
<1>9. Heads(h)' /\ Climbs(h)'
  BY <1>5, <1>7, <1>8, CopyJob
<1> QED
  BY <1>1, <1>3, <1>8, <1>9, GrowStep

LEMMA StackKnown ==
  ASSUME CycleInv, NEW h \in Handlers, job[h].op = "copy"
  PROVE  /\ job[h].stack \in Seq(Frames) /\ job[h].stack # <<>>
         /\ Known(state, job[h].stack) /\ Known(state, Below(h)) /\ Top(h) \in Frames
         /\ Below(h) \in Seq(Frames) /\ Top(h).dst \in Folders /\ state[Top(h).dst] # "free"
<1>1. job[h].stack \in Seq(Frames) /\ job[h].stack # <<>> /\ Known(state, job[h].stack)
  BY JobsOK DEF CycleInv, Heads, JobOK, StackFits, Jobs
<1>2. Top(h) \in Frames /\ Below(h) \in Seq(Frames)
  BY TopFacts DEF CycleInv
<1> QED
  BY <1>1, <1>2, KnownTail DEF Top, Below

(* The top frame of a copy is replaced by one with the same target.        *)
LEMMA TopStep ==
  ASSUME CycleInv, TypeOK', NEW h \in Handlers, job[h].op = "copy", NEW fr \in Frames,
         fr.dst = Top(h).dst, Becomes(h, WithTop(h, fr)), UNCHANGED <<state, parent, raced>>
  PROVE  CycleInv'
<1>1. TypeOK /\ job[h] \in Jobs
  BY JobsOK DEF CycleInv
<1>2. WithTop(h, fr).op = "copy" /\ WithTop(h, fr).stack = <<fr>> \o Below(h)
  BY <1>1 DEF WithTop, Stacked, Jobs
<1>3. Known(state, <<fr>> \o Below(h))
  BY StackKnown, KnownPush
<1>4. PICK j : j = WithTop(h, fr)
  OBVIOUS
<1>5. Alone(h) /\ job'[h] = j
  BY <1>1, <1>4, Others
<1>6. Heads(h)' /\ Climbs(h)'
  BY <1>2, <1>3, <1>4, <1>5, CopyJob
<1> QED
  BY <1>5, <1>6, JobStep

LEMMA CycleCopy ==
  ASSUME CycleInv, TypeOK', NEW h \in Handlers, CopySteps(h)
  PROVE  CycleInv'
<1>1. TypeOK
  BY DEF CycleInv
<1>2. ASSUME NEW c \in Folders, NEW f \in Folders, NEW to \in Places, CopyStart(h, c, f, to)
      PROVE  CycleInv'
  <2>1. <<>> \in Seq(Frames) /\ Known(state, <<>>)
    BY DEF Known
  <2>2. to = Root \/ (to \in Folders /\ state[to] # "free")
    BY <1>2, RootOutside DEF CopyStart
  <2> QED
    BY <1>2, <2>1, <2>2, CycleCopied DEF CopyStart
<1>3. ASSUME NEW s \in Folders \cup {NoId}, NEW f \in Folders, CopyDescend(h, s, f)
      PROVE  CycleInv'
  <2> DEFINE old == [Top(h) EXCEPT !.todo = @ \ {s}]
  <2>1. job[h].op = "copy" /\ s \in Folders
    BY <1>3 DEF CopyDescend, TopDoes, Does
  <2>2. old \in Frames /\ old.dst = Top(h).dst
    BY <1>1, <2>1, WithoutItemOK, TopFacts DEF Frames
  <2>3. Copied(h, s, f, Top(h).dst, <<old>> \o Below(h)) /\ UNCHANGED <<place, raced>>
    BY <1>3 DEF CopyDescend
  <2> HIDE DEF old
  <2>4. <<old>> \o Below(h) \in Seq(Frames) /\ Known(state, <<old>> \o Below(h))
    BY <2>1, <2>2, StackKnown, KnownPush, Push
  <2>5. Top(h).dst \in Places /\ Top(h).dst \in Folders /\ state[Top(h).dst] # "free"
    BY <2>1, StackKnown DEF Places
  <2> QED
    BY <2>1, <2>3, <2>4, <2>5, CycleCopied
<1>4. ASSUME NEW p \in Projects, NEW q \in Projects, CopyProject(h, p, q) PROVE CycleInv'
  <2> DEFINE fr == [Top(h) EXCEPT !.todo = @ \ {p}]
  <2>1. job[h].op = "copy" /\ UNCHANGED <<state, parent, raced>>
    BY <1>4 DEF CopyProject, TopDoes, Does
  <2>2. fr \in Frames /\ fr.dst = Top(h).dst
    BY <1>1, <2>1, WithoutItemOK, TopFacts DEF Frames
  <2>3. Becomes(h, WithTop(h, fr))
    BY <1>4 DEF CopyProject, WithoutItem
  <2> HIDE DEF fr
  <2> QED
    BY <2>1, <2>2, <2>3, TopStep
<1>5. CASE CopyList(h)
  <2> DEFINE fr == Frame(Top(h).at, Top(h).dst, "subs", Subfolders(Top(h).at))
  <2>1. job[h].op = "copy" /\ UNCHANGED <<state, parent, raced>>
    BY <1>5 DEF CopyList, TopDoes, Does
  <2>2. Top(h).at \in Folders \cup {NoId} /\ Top(h).dst \in Places
    BY <1>1, <2>1, TopFacts DEF Frames
  <2>3. fr \in Frames /\ fr.dst = Top(h).dst
    BY <2>2, ListsType, Frame1 DEF Frame
  <2>4. Becomes(h, WithTop(h, fr))
    BY <1>5 DEF CopyList
  <2> HIDE DEF fr
  <2> QED
    BY <2>1, <2>3, <2>4, TopStep
<1>6. CASE CopyReturn(h)
  <2>1. job[h].op = "copy" /\ UNCHANGED <<state, parent, raced>> /\ Becomes(h, Returned(h))
    BY <1>6 DEF CopyReturn, TopDoes, Does
  <2>2. /\ Returned(h).op \in {"copy", "idle"}
        /\ Returned(h).op = "copy" => Returned(h).stack = Below(h)
    BY <1>1, <2>1, ReturnedJob DEF Below
  <2>3. PICK j : j = Returned(h)
    OBVIOUS
  <2>4. Alone(h) /\ job'[h] = j
    BY <1>1, <2>1, <2>3, Others
  <2>5. Heads(h)' /\ Climbs(h)'
    BY <2>1, <2>2, <2>3, <2>4, StackKnown, CopyJob
  <2> QED
    BY <2>1, <2>4, <2>5, JobStep
<1> QED
  BY <1>2, <1>3, <1>4, <1>5, <1>6 DEF CopySteps

LEMMA CycleEmpty ==
  ASSUME CycleInv, TypeOK', NEW h \in Handlers, EmptySteps(h)
  PROVE  CycleInv'
<1> DEFINE Quiet == {"idle", "place", "empty", "lift", "lifting", "purge"}
<1>1. TypeOK /\ job[h] \in Jobs
  BY JobsOK DEF CycleInv
<1>2. ASSUME NEW j, Becomes(h, j), j.op \in Quiet
      PROVE  Alone(h) /\ Heads(h)' /\ Climbs(h)'
  BY <1>1, <1>2, Others, OtherJob
<1>3. NoJob.op \in Quiet
  BY NoJobOK
<1>4. ASSUME NEW f \in Folders, EmptyStart(h, f) PROVE CycleInv'
  <2>1. PICK j : Becomes(h, j) /\ j.op = "empty"
    <3>1. [NoJob EXCEPT !.op = "empty", !.it = f, !.todo = ProjectsIn(f)].op = "empty"
      BY DEF NoJob
    <3> QED
      BY <1>4, <3>1 DEF EmptyStart
  <2>2. UNCHANGED <<state, parent, raced>>
    BY <1>4 DEF EmptyStart
  <2> QED
    BY <1>2, <2>1, <2>2, JobStep
<1>5. ASSUME NEW g \in Folders \cup {NoId}, LiftFind(h, g) PROVE CycleInv'
  <2>1. PICK j : Becomes(h, j) /\ j.op \in Quiet
    <3>1. [job[h] EXCEPT !.op = "lifting", !.cur = g].op = "lifting"
      BY <1>1 DEF Jobs
    <3> QED
      BY <1>3, <1>5, <3>1 DEF LiftFind
  <2>2. UNCHANGED <<state, parent, raced>>
    BY <1>5 DEF LiftFind
  <2> QED
    BY <1>2, <2>1, <2>2, JobStep
<1>6. ASSUME NEW p \in Projects, EmptyProject(h, p) PROVE CycleInv'
  <2>1. PICK j : Becomes(h, j) /\ j.op \in Quiet
    <3>1. [job[h] EXCEPT !.todo = @ \ {p}].op = "empty"
      BY <1>1, <1>6 DEF Jobs, EmptyProject, Does
    <3> QED
      BY <1>3, <1>6, <3>1 DEF EmptyProject
  <2>2. UNCHANGED <<state, parent, raced>>
    BY <1>6 DEF EmptyProject
  <2> QED
    BY <1>2, <2>1, <2>2, JobStep
<1>7. CASE EmptyList(h)
  <2>1. PICK j : Becomes(h, j) /\ j.op \in Quiet
    <3>1. [job[h] EXCEPT !.op = "lift", !.todo = Subfolders(job[h].it)].op = "lift"
      BY <1>1 DEF Jobs
    <3> QED
      BY <1>7, <3>1 DEF EmptyList
  <2>2. UNCHANGED <<state, parent, raced>>
    BY <1>7 DEF EmptyList
  <2> QED
    BY <1>2, <2>1, <2>2, JobStep
<1>8. CASE RemoveFolder(h)
  <2>1. Falls /\ Aged
    BY <1>1, <1>8, RemoveFalls DEF RemoveFolder
  <2>2. Becomes(h, NoJob) /\ raced' = raced
    BY <1>8 DEF RemoveFolder
  <2> QED
    BY <1>2, <1>3, <2>1, <2>2, FallStep
<1> QED
  BY <1>4, <1>5, <1>6, <1>7, <1>8, CycleLiftPut DEF EmptySteps

LEMMA CycleMoves ==
  ASSUME CycleInv, TypeOK', NEW h \in Handlers, MoveSteps(h)
  PROVE  CycleInv'
<1>1. TypeOK
  BY DEF CycleInv
<1>2. ASSUME NEW f \in Folders, NEW to \in Places, CreateCheck(h, f, to) PROVE CycleInv'
  <2>1. PICK j : Becomes(h, j) /\ j.op = "create" /\ j.to = to
    <3> DEFINE i == [NoJob EXCEPT !.op = "create", !.it = f, !.to = to]
    <3>1. i.op = "create" /\ i.to = to
      BY DEF NoJob
    <3>2. Becomes(h, i)
      BY <1>2 DEF CreateCheck
    <3> HIDE DEF i
    <3> QED
      BY <3>1, <3>2
  <2>2. UNCHANGED <<state, parent, raced>> /\ (to = Root \/ (to \in Folders /\ state[to] # "free"))
    BY <1>1, <1>2, ParentKnown DEF CreateCheck
  <2>3. Alone(h) /\ job'[h] = j
    BY <1>1, <2>1, Others
  <2>4. Heads(h)' /\ Climbs(h)'
    BY <2>1, <2>2, <2>3 DEF Heads, Climbs, Checked
  <2> QED
    BY <2>2, <2>3, <2>4, JobStep
<1>3. ASSUME NEW p \in Projects, NEW to \in Places, PlaceCheck(h, p, to) PROVE CycleInv'
  <2>1. PICK j : Becomes(h, j) /\ j.op = "place"
    <3> DEFINE i == [NoJob EXCEPT !.op = "place", !.it = p, !.to = to]
    <3>1. i.op = "place"
      BY DEF NoJob
    <3>2. Becomes(h, i)
      BY <1>3 DEF PlaceCheck
    <3> HIDE DEF i
    <3> QED
      BY <3>1, <3>2
  <2>2. UNCHANGED <<state, parent, raced>>
    BY <1>3 DEF PlaceCheck
  <2> QED
    BY <1>1, <2>1, <2>2, Others, OtherJob, JobStep
<1>4. CASE PlaceWrite(h)
  <2>1. Becomes(h, NoJob) /\ UNCHANGED <<state, parent, raced>>
    BY <1>4 DEF PlaceWrite
  <2> QED
    BY <1>1, <2>1, NoJobOK, Others, OtherJob, JobStep
<1> QED
  BY <1>2, <1>3, <1>4, CycleCreatePut, CycleMoveCheck, CycleClimb, CycleFind, CycleMovePut
     DEF MoveSteps

LEMMA CycleStep == CycleInv /\ [Next]_vars => CycleInv'
<1> SUFFICES ASSUME CycleInv, [Next]_vars PROVE CycleInv'
  OBVIOUS
<1>1. TypeOK /\ TypeOK'
  BY TypeStep DEF CycleInv
<1>2. ASSUME NEW h \in Handlers, Dies(h) PROVE CycleInv'
  BY <1>1, <1>2, NoJobOK, Others, OtherJob, JobStep DEF Dies
<1>3. CASE UNCHANGED <<state, parent, job, raced>>
  <2>1. Rooted' /\ CycleTakesARace'
    BY <1>3 DEF CycleInv, Rooted, CycleTakesARace, Acyclic, Up
  <2>2. \A h \in Handlers : Heads(h)' /\ Climbs(h)'
    BY <1>3 DEF CycleInv, Heads, Climbs, Checked, ClosedBut, Up
  <2> QED
    BY <1>1, <2>1, <2>2 DEF CycleInv
<1>4. ASSUME NEW p \in Projects, DeleteProject(p) PROVE CycleInv'
  BY <1>3, <1>4 DEF DeleteProject
<1>5. CASE UNCHANGED vars
  BY <1>3, <1>5 DEF vars
<1> QED
  BY <1>1, <1>2, <1>4, <1>5, CycleMoves, CycleEmpty, CyclePurge, CycleCopy DEF Next

(* Personal folders form a tree unless two moves overlapped: the walk of   *)
(* _check_folder_cycle finds every cycle a move would close, whatever is   *)
(* created, emptied, deleted or copied while it climbs, provided that no   *)
(* other folder is moved into a folder meanwhile.                          *)
THEOREM CycleNeedsARace == Spec => []CycleTakesARace
<1>1. CycleInv => CycleTakesARace
  BY DEF CycleInv
<1> QED
  BY <1>1, CycleInit, CycleStep, PTL DEF Spec

(* Acyclic.  Nobody's check is outdated when no move is written between    *)
(* the check and the write of another.                                     *)
CleanInv == ~raced /\ \A h \in Handlers : job[h].clean

LEMMA CleanBecomes ==
  ASSUME TypeOK, CleanInv, NEW h \in Handlers, NEW j, Becomes(h, j), j.clean, raced' = raced
  PROVE  CleanInv'
<1>1. \A g \in Handlers : job'[g] = job[g] \/ job'[g] = j
  BY DEF TypeOK, Becomes
<1> QED
  BY <1>1 DEF CleanInv

\* What becomes of a job when it goes on is as clean as it was.
LEMMA CleanJobs ==
  ASSUME TypeOK, CleanInv, NEW h \in Handlers
  PROVE  /\ NoJob.clean
         /\ \A f : WithTop(h, f).clean
         /\ \A s : Stacked(h, s).clean
         /\ Returned(h).clean
<1>1. NoJob.clean
  BY DEF NoJob
<1>2. job[h] \in Jobs /\ job[h].clean
  BY DEF TypeOK, CleanInv
<1>3. \A s : [job[h] EXCEPT !.stack = s].clean
  BY <1>2 DEF Jobs
<1> QED
  BY <1>1, <1>3 DEF WithTop, Stacked, Returned

LEMMA CleanStep ==
  ASSUME TypeOK, CleanInv, [Next]_vars,
         \A h \in Handlers : MovePut(h) /\ job[h].it \in Personal => \A g \in Handlers \ {h} : ~Checked(g)
  PROVE  CleanInv'
<1>j. \A h \in Handlers : job[h] \in Jobs /\ job[h].clean
  BY DEF TypeOK, CleanInv
<1>1. ASSUME NEW h \in Handlers, MovePut(h) PROVE CleanInv'
  <2>1. ~raced'
    BY <1>1, <1>j DEF MovePut, CleanInv
  <2>2. ASSUME NEW g \in Handlers PROVE job'[g].clean
    BY <1>1, <1>j, CleanJobs DEF MovePut
  <2> QED
    BY <2>1, <2>2 DEF CleanInv
<1>2. ASSUME NEW h \in Handlers, MoveSteps(h), ~MovePut(h) PROVE CleanInv'
  <2>1. ASSUME NEW f, NEW to, CreateCheck(h, f, to) PROVE CleanInv'
    BY <2>1, CleanBecomes, CleanJobs DEF CreateCheck, NoJob
  <2>2. ASSUME NEW f, NEW to, MoveCheck(h, f, to) PROVE CleanInv'
    <3>1. PICK j : Becomes(h, j) /\ j.clean /\ raced' = raced
      BY <2>2, CleanJobs DEF MoveCheck, NoJob
    <3> QED
      BY <3>1, CleanBecomes
  <2>3. ASSUME NEW p, NEW to, PlaceCheck(h, p, to) PROVE CleanInv'
    BY <2>3, CleanBecomes, CleanJobs DEF PlaceCheck, NoJob
  <2>4. CASE Climb(h)
    <3>1. PICK j : Becomes(h, j) /\ j.clean /\ raced' = raced
      BY <1>j, <2>4, CleanJobs DEF Climb, Jobs
    <3> QED
      BY <3>1, CleanBecomes
  <2>5. CASE Find(h)
    BY <1>j, <2>5, CleanBecomes, CleanJobs DEF Find, Goes, Jobs
  <2>6. CASE CreatePut(h) \/ PlaceWrite(h)
    BY <2>6, CleanBecomes, CleanJobs DEF CreatePut, PlaceWrite
  <2> QED
    BY <1>2, <2>1, <2>2, <2>3, <2>4, <2>5, <2>6 DEF MoveSteps
<1>3. ASSUME NEW h \in Handlers, EmptySteps(h) PROVE CleanInv'
  <2>1. ASSUME NEW f, EmptyStart(h, f) PROVE CleanInv'
    BY <2>1, CleanBecomes DEF EmptyStart, NoJob
  <2>2. ASSUME NEW g, LiftFind(h, g) PROVE CleanInv'
    BY <1>j, <2>2, CleanBecomes, CleanJobs DEF LiftFind, Jobs
  <2>3. ASSUME NEW p, EmptyProject(h, p) PROVE CleanInv'
    BY <1>j, <2>3, CleanBecomes, CleanJobs DEF EmptyProject, Jobs
  <2>4. CASE EmptyList(h) \/ LiftPut(h)
    BY <1>j, <2>4, CleanBecomes DEF EmptyList, LiftPut, Jobs
  <2>5. CASE RemoveFolder(h)
    BY <2>5, CleanBecomes, CleanJobs DEF RemoveFolder
  <2> QED
    BY <1>3, <2>1, <2>2, <2>3, <2>4, <2>5 DEF EmptySteps
<1>4. ASSUME NEW h \in Handlers, PurgeSteps(h) PROVE CleanInv'
  <2>1. ASSUME NEW c, PurgeStart(h, c) PROVE CleanInv'
    BY <2>1, CleanBecomes DEF PurgeStart, NoJob
  <2>2. ASSUME ~\E c \in Folders : PurgeStart(h, c) PROVE CleanInv'
    BY <1>4, <2>2, CleanBecomes, CleanJobs
       DEF PurgeSteps, PurgeDescend, PurgeScan, PurgeProject, PurgeReturn, WithoutItem
  <2> QED
    BY <2>1, <2>2
<1>5. ASSUME NEW h \in Handlers, CopySteps(h) PROVE CleanInv'
  <2>1. ASSUME NEW c, NEW f, NEW to, NEW below, Copied(h, c, f, to, below), raced' = raced PROVE CleanInv'
    BY <2>1, CleanBecomes DEF Copied, NoJob
  <2>2. CASE CopyList(h) \/ CopyReturn(h) \/ \E p, q \in Projects : CopyProject(h, p, q)
    BY <2>2, CleanBecomes, CleanJobs DEF CopyList, CopyReturn, CopyProject, WithoutItem
  <2> QED
    BY <1>5, <2>1, <2>2 DEF CopySteps, CopyStart, CopyDescend
<1>6. ASSUME NEW h \in Handlers, Dies(h) PROVE CleanInv'
  BY <1>6, CleanBecomes, CleanJobs DEF Dies
<1>7. CASE (\E p \in Projects : DeleteProject(p)) \/ UNCHANGED vars
  BY <1>7 DEF DeleteProject, vars, CleanInv
<1> QED
  BY <1>1, <1>2, <1>3, <1>4, <1>5, <1>6, <1>7 DEF Next

(* Personal folders form a tree when no folder is moved while another move *)
(* is between _check_folder_cycle and its write; nothing in update_folder  *)
(* makes sure of that.                                                     *)
THEOREM AcyclicCorrect == Spec /\ MovesApart => []Acyclic
<1> DEFINE A == \A h \in Handlers : MovePut(h) /\ job[h].it \in Personal
                  => \A g \in Handlers \ {h} : ~Checked(g)
<1>1. Init => CleanInv
  BY DEF Init, CleanInv, NoJob
<1>2. TypeOK /\ CleanInv /\ [Next]_vars /\ [A]_vars => CleanInv'
  <2> SUFFICES ASSUME TypeOK, CleanInv, [Next]_vars, [A]_vars PROVE CleanInv'
    OBVIOUS
  <2>1. CASE A
    BY <2>1, CleanStep
  <2>2. CASE UNCHANGED vars
    BY <2>2 DEF vars, CleanInv
  <2> QED
    BY <2>1, <2>2
<1>3. CleanInv /\ CycleTakesARace => Acyclic
  BY DEF CleanInv, CycleTakesARace
<1>4. MovesApart <=> [][A]_vars
  BY DEF MovesApart
<1> HIDE DEF A
<1> QED
  BY <1>1, <1>2, <1>3, <1>4, TypeCorrect, CycleNeedsARace, PTL DEF Spec
--------------------------------------------------------------------------------
(* NothingStranded.  What is in a folder and was not put there behind its  *)
(* deletion is on the list of every request that is deleting the folder,   *)
(* or the recursion is at it.                                              *)

Spots == Folders \cup {NoId}
In(x, f) == IF x \in Projects THEN place[x] = f ELSE state[x] = "here" /\ parent[x] = f
Strays == [f \in Spots |-> {x \in Things \ loose : In(x, f)}]

\* S is Strays, s the stack of a deletion, j a job.
TopClears(S, f) ==
  \/ f.step = "subs" /\ S[f.at] \cap Folders \subseteq f.todo
  \/ f.step = "projects" /\ S[f.at] \subseteq f.todo \ Folders
MidClears(S, f, child) == f.step = "subs" /\ S[f.at] \cap Folders \subseteq f.todo \cup {child}
StackClears(S, s) ==
  /\ TopClears(S, s[1])
  /\ \A i \in 2 .. Len(s) : MidClears(S, s[i], s[i - 1].at)
Clears(S, j) ==
  /\ j.op = "empty" => S[j.it] \cap Projects \subseteq j.todo
  /\ j.op \in {"lift", "lifting"} => S[j.it] \subseteq j.todo \ Projects
  /\ j.op = "purge" => StackClears(S, j.stack)

StrayInv ==
  /\ \A h \in Handlers : Clears(Strays, job[h])
  /\ \A f \in Folders : state[f] # "here" => Strays[f] = {}

\* A folder that is gone, or that some request is deleting, gets no new ones.
Shrinks(f) == Strays'[f] \subseteq Strays[f]
AllShrink == \A f \in Folders : state[f] # "here" \/ Closing(f) => Shrinks(f)

LEMMA StraysAre ==
  /\ \A f \in Spots : Strays[f] = {x \in Things \ loose : In(x, f)}
  /\ \A f \in Spots : Strays'[f] = {x \in Things \ loose' : In(x, f)'}
<1>1. \A f \in Spots : Strays[f] = {x \in Things \ loose : In(x, f)}
  BY DEF Strays
<1>2. \A f \in Spots : Strays'[f] = {x \in Things \ loose' : In(x, f)'}
  BY DEF Strays, In
<1> QED
  BY <1>1, <1>2

LEMMA NoIdEmpty == TypeOK => Strays[NoId] = {}
<1> SUFFICES ASSUME TypeOK, NEW x \in Things, In(x, NoId) PROVE FALSE
  BY StraysAre DEF Spots
<1> QED
  BY FolderAssumption DEF TypeOK, In, Things, Places

LEMMA TailFacts ==
  ASSUME NEW F, NEW s \in Seq(F), s # <<>>
  PROVE  /\ Len(s) \in Nat \ {0} /\ Tail(s) \in Seq(F) /\ Len(Tail(s)) = Len(s) - 1
         /\ \A i \in 1 .. Len(s) : s[i] \in F
         /\ \A i \in 1 .. Len(s) - 1 : Tail(s)[i] = s[i + 1]
OBVIOUS

LEMMA PushFacts ==
  ASSUME NEW F, NEW s \in Seq(F), NEW x
  PROVE  /\ Len(<<x>> \o s) = Len(s) + 1 /\ (<<x>> \o s)[1] = x
         /\ \A i \in 2 .. Len(s) + 1 : (<<x>> \o s)[i] = s[i - 1]
OBVIOUS

LEMMA Push2Facts ==
  ASSUME NEW F, NEW s \in Seq(F), NEW x, NEW y
  PROVE  /\ Len(<<x, y>> \o s) = Len(s) + 2
         /\ (<<x, y>> \o s)[1] = x /\ (<<x, y>> \o s)[2] = y
         /\ \A i \in 3 .. Len(s) + 2 : (<<x, y>> \o s)[i] = s[i - 2]
OBVIOUS

(* The same stack, with fewer strays.                                      *)
LEMMA StackShrunk ==
  ASSUME NEW S, NEW R, NEW s \in Seq(Frames), s # <<>>, StackClears(S, s),
         \A i \in 1 .. Len(s) : R[s[i].at] \subseteq S[s[i].at]
  PROVE  StackClears(R, s)
<1>1. Len(s) \in Nat \ {0}
  BY TailFacts
<1>2. TopClears(R, s[1])
  <2>1. R[s[1].at] \subseteq S[s[1].at]
    BY <1>1
  <2> QED
    BY <2>1 DEF StackClears, TopClears
<1>3. ASSUME NEW i \in 2 .. Len(s) PROVE MidClears(R, s[i], s[i - 1].at)
  <2>1. R[s[i].at] \subseteq S[s[i].at] /\ MidClears(S, s[i], s[i - 1].at)
    BY <1>1, <1>3 DEF StackClears
  <2> QED
    BY <2>1 DEF MidClears
<1> QED
  BY <1>2, <1>3 DEF StackClears

(* Another frame for the same folder on top.                               *)
LEMMA StackGoesOn ==
  ASSUME NEW S, NEW s \in Seq(Frames), s # <<>>, StackClears(S, s),
         NEW f, f.at = s[1].at, TopClears(S, f)
  PROVE  StackClears(S, <<f>> \o Tail(s))
<1> DEFINE t == <<f>> \o Tail(s)
<1>1. Len(s) \in Nat \ {0} /\ Len(t) = Len(s) /\ t[1] = f
  BY TailFacts, PushFacts
<1>2. \A i \in 2 .. Len(s) : t[i] = s[i]
  BY TailFacts, PushFacts
<1>3. ASSUME NEW i \in 2 .. Len(s) PROVE MidClears(S, t[i], t[i - 1].at)
  <2>1. t[i] = s[i] /\ MidClears(S, s[i], s[i - 1].at)
    BY <1>2, <1>3 DEF StackClears
  <2>2. t[i - 1].at = s[i - 1].at
    <3>1. CASE i = 2
      BY <1>1, <3>1
    <3>2. CASE i # 2
      <4>1. i - 1 \in 2 .. Len(s)
        BY <1>1, <1>3, <3>2
      <4> QED
        BY <1>2, <4>1
    <3> QED
      BY <3>1, <3>2
  <2> QED
    BY <2>1, <2>2
<1> HIDE DEF t
<1>4. StackClears(S, t)
  BY <1>1, <1>3 DEF StackClears
<1> QED
  BY <1>4 DEF t

(* A frame for a subcourse on top.                                         *)
LEMMA StackDescends ==
  ASSUME NEW S, NEW s \in Seq(Frames), s # <<>>, StackClears(S, s),
         s[1].step = "subs", NEW x \in s[1].todo, NEW f, f.at = x, TopClears(S, f)
  PROVE  StackClears(S, <<f, [s[1] EXCEPT !.todo = @ \ {x}]>> \o Tail(s))
<1> DEFINE old == [s[1] EXCEPT !.todo = @ \ {x}]
           t == <<f, old>> \o Tail(s)
<1>1. Len(s) \in Nat \ {0} /\ s[1] \in Frames
  BY TailFacts
<1>2. old.at = s[1].at /\ old.step = "subs" /\ old.todo = s[1].todo \ {x}
  BY <1>1 DEF Frames
<1>3. MidClears(S, old, x)
  BY <1>2 DEF StackClears, TopClears, MidClears
<1> HIDE DEF old
<1>4. Len(t) = Len(s) + 1 /\ t[1] = f /\ t[2] = old
  BY TailFacts, Push2Facts
<1>5. \A i \in 3 .. Len(s) + 1 : t[i] = s[i - 1]
  BY TailFacts, Push2Facts
<1>6. ASSUME NEW i \in 2 .. Len(s) + 1 PROVE MidClears(S, t[i], t[i - 1].at)
  <2>1. CASE i = 2
    BY <1>3, <1>4, <2>1
  <2>2. CASE i # 2
    <3>1. i \in 3 .. Len(s) + 1 /\ i - 1 \in 2 .. Len(s)
      BY <1>1, <1>6, <2>2
    <3>2. t[i] = s[i - 1] /\ MidClears(S, s[i - 1], s[(i - 1) - 1].at)
      BY <1>5, <3>1 DEF StackClears
    <3>3. t[i - 1].at = s[(i - 1) - 1].at
      <4>1. CASE i = 3
        BY <1>2, <1>4, <4>1
      <4>2. CASE i # 3
        <5>1. i - 1 \in 3 .. Len(s) + 1
          BY <1>1, <3>1, <4>2
        <5> QED
          BY <1>5, <5>1
      <4> QED
        BY <4>1, <4>2
    <3> QED
      BY <3>2, <3>3
  <2> QED
    BY <2>1, <2>2
<1> HIDE DEF t
<1>7. StackClears(S, t)
  BY <1>4, <1>6 DEF StackClears
<1> QED
  BY <1>7 DEF t, old

(* The frame on top is done, and its folder no subcourse any more.         *)
LEMMA StackReturns ==
  ASSUME NEW S, NEW s \in Seq(Frames), Len(s) # 1, s # <<>>, StackClears(S, s),
         \A f \in Spots : s[1].at \notin S[f]
  PROVE  StackClears(S, Tail(s))
<1>1. Len(s) \in Nat \ {0} /\ 2 \in 2 .. Len(s) /\ Len(Tail(s)) = Len(s) - 1
  <2>1. Len(s) \in Nat \ {0} /\ Len(Tail(s)) = Len(s) - 1
    BY TailFacts
  <2> QED
    BY <2>1
<1>2. \A i \in 1 .. Len(s) - 1 : Tail(s)[i] = s[i + 1]
  BY TailFacts
<1>3. Tail(s)[1] = s[2] /\ s[2].at \in Spots
  <2>1. 1 \in 1 .. Len(s) - 1 /\ 2 \in 1 .. Len(s)
    BY <1>1
  <2>2. Tail(s)[1] = s[2]
    BY <1>2, <2>1
  <2>3. s[2] \in Frames
    BY <2>1, TailFacts
  <2>4. s[2].at \in Spots
    BY <2>3 DEF Frames, Spots
  <2> QED
    BY <2>2, <2>4
<1>4. MidClears(S, s[2], s[1].at)
  BY <1>1 DEF StackClears
<1>5. TopClears(S, Tail(s)[1])
  <2>1. s[1].at \notin S[s[2].at] /\ s[2].step = "subs"
        /\ S[s[2].at] \cap Folders \subseteq s[2].todo \cup {s[1].at}
    BY <1>3, <1>4 DEF MidClears
  <2> QED
    BY <1>3, <2>1 DEF TopClears
<1>6. ASSUME NEW i \in 2 .. Len(s) - 1 PROVE MidClears(S, Tail(s)[i], Tail(s)[i - 1].at)
  <2>1. i + 1 \in 2 .. Len(s) /\ i \in 1 .. Len(s) - 1 /\ i - 1 \in 1 .. Len(s) - 1
    BY <1>1, <1>6
  <2>2. MidClears(S, s[i + 1], s[(i + 1) - 1].at)
    BY <2>1 DEF StackClears
  <2>3. Tail(s)[i] = s[i + 1] /\ Tail(s)[i - 1] = s[(i - 1) + 1]
    BY <1>2, <2>1
  <2>4. (i + 1) - 1 = (i - 1) + 1
    BY <2>1
  <2> QED
    BY <2>2, <2>3, <2>4
<1> QED
  BY <1>1, <1>5, <1>6 DEF StackClears

(* What a write does to what is in a folder that is deleted or gone.       *)
LEMMA PutShrinks ==
  ASSUME NEW x \in Things, NEW to, Put(x, to),
         \A y \in Things \ {x}, f \in Folders : In(y, f)' => In(y, f),
         \A f \in Folders : In(x, f)' => f = to
  PROVE  AllShrink
<1> SUFFICES ASSUME NEW f \in Folders, state[f] # "here" \/ Closing(f),
                    NEW y \in Things, y \notin loose', In(y, f)'
             PROVE  y \notin loose /\ In(y, f)
  BY StraysAre DEF AllShrink, Shrinks, Spots
<1>1. f # Root
  BY FolderAssumption
<1>2. y # x
  <2>1. y = x => f = to
    OBVIOUS
  <2>2. f = to => x \in loose'
    BY <1>1 DEF Put
  <2> QED
    BY <2>1, <2>2
<1>3. y \notin loose
  BY <1>2 DEF Put
<1> QED
  BY <1>2, <1>3

LEMMA OutShrinks ==
  ASSUME NEW x, loose' = loose \ {x},
         \A y \in Things \ {x}, f \in Folders : In(y, f)' => In(y, f),
         \A f \in Folders : ~In(x, f)'
  PROVE  AllShrink
<1> SUFFICES ASSUME NEW f \in Folders, NEW y \in Things, y \notin loose', In(y, f)'
             PROVE  y \notin loose /\ In(y, f)
  BY StraysAre DEF AllShrink, Shrinks, Spots
<1>1. y # x
  OBVIOUS
<1> QED
  BY <1>1

LEMMA StillShrinks ==
  ASSUME UNCHANGED <<state, parent, place, loose>>
  PROVE  Strays' = Strays /\ AllShrink
BY DEF Strays, In, AllShrink, Shrinks

LEMMA UpdatedShrinks ==
  ASSUME TypeOK, NEW g \in Folders, NEW to, Updated(g, to), UNCHANGED place
  PROVE  AllShrink /\ \A f \in Folders : state'[f] = "here" <=> state[f] = "here"
<1>1. g \in Things /\ g \notin Projects
  BY FolderAssumption DEF Things
<1>2. /\ parent'[g] = to
      /\ \A y \in Folders \ {g} : parent'[y] = parent[y] /\ state'[y] = state[y]
      /\ \A y \in Folders : state'[y] = "here" <=> state[y] = "here"
  BY DEF Updated, TypeOK
<1>3. \A y \in Things \ {g}, f \in Folders : In(y, f)' => In(y, f)
  BY <1>2 DEF In, Things
<1>4. \A f \in Folders : In(g, f)' => f = to
  BY <1>1, <1>2 DEF In
<1> QED
  BY <1>1, <1>2, <1>3, <1>4, PutShrinks DEF Updated

LEMMA MadeShrinks ==
  ASSUME TypeOK, NEW g \in Folders, NEW to, Put(g, to), UNCHANGED place,
         state' = [state EXCEPT ![g] = "here"], parent' = [parent EXCEPT ![g] = to]
  PROVE  AllShrink /\ \A f \in Folders : state[f] = "here" => state'[f] = "here"
<1>1. g \in Things /\ g \notin Projects
  BY FolderAssumption DEF Things
<1>2. /\ parent'[g] = to
      /\ \A y \in Folders \ {g} : parent'[y] = parent[y] /\ state'[y] = state[y]
      /\ \A f \in Folders : state[f] = "here" => state'[f] = "here"
  BY DEF TypeOK
<1>3. \A y \in Things \ {g}, f \in Folders : In(y, f)' => In(y, f)
  BY <1>2 DEF In, Things
<1>4. \A f \in Folders : In(g, f)' => f = to
  BY <1>1, <1>2 DEF In
<1> QED
  BY <1>1, <1>2, <1>3, <1>4, PutShrinks

LEMMA PlacedShrinks ==
  ASSUME TypeOK, NEW p \in Projects, NEW to, Put(p, to), UNCHANGED <<state, parent>>,
         place' = [place EXCEPT ![p] = to]
  PROVE  AllShrink
<1>1. place'[p] = to /\ \A q \in Projects \ {p} : place'[q] = place[q]
  BY DEF TypeOK
<1>2. \A y \in Things \ {p}, f \in Folders : In(y, f)' => In(y, f)
  BY <1>1 DEF In, Things
<1>3. \A f \in Folders : In(p, f)' => f = to
  BY <1>1 DEF In
<1> QED
  BY <1>2, <1>3, PutShrinks DEF Things

LEMMA DeletedShrinks ==
  ASSUME TypeOK, NEW p \in Projects, loose' = loose \ {p}, UNCHANGED <<state, parent>>,
         place' = [place EXCEPT ![p] = "gone"]
  PROVE  AllShrink
<1>1. place'[p] = "gone" /\ \A q \in Projects \ {p} : place'[q] = place[q]
  BY DEF TypeOK
<1>2. \A y \in Things \ {p}, f \in Folders : In(y, f)' => In(y, f)
  BY <1>1 DEF In, Things
<1>3. \A f \in Folders : ~In(p, f)'
  BY <1>1, FolderAssumption DEF In
<1> QED
  BY <1>2, <1>3, OutShrinks

\* When an item is removed, it is in no folder any more.
LEMMA RemovedShrinks ==
  ASSUME TypeOK, NEW g \in Spots, Remove(g), UNCHANGED place
  PROVE  /\ AllShrink /\ \A f \in Spots : g \notin Strays'[f]
         /\ \A f \in Folders \ {g} : state'[f] = state[f]
<1>1. CASE g \in Folders /\ state[g] = "here"
  <2>1. g \notin Projects
    BY <1>1, FolderAssumption
  <2>2. /\ state'[g] = "gone" /\ loose' = loose \ {g}
        /\ \A y \in Folders \ {g} : parent'[y] = parent[y] /\ state'[y] = state[y]
    BY <1>1 DEF Remove, TypeOK
  <2>3. \A y \in Things \ {g}, f \in Folders : In(y, f)' => In(y, f)
    BY <2>2 DEF In, Things
  <2>4. \A f \in Spots : ~In(g, f)'
    BY <2>1, <2>2 DEF In
  <2>5. AllShrink
    BY <2>2, <2>3, <2>4, OutShrinks DEF Spots
  <2> QED
    BY <2>2, <2>4, <2>5, StraysAre
<1>2. CASE ~(g \in Folders /\ state[g] = "here")
  <2>1. UNCHANGED <<state, parent, loose>>
    BY <1>2 DEF Remove
  <2>2. g \notin Projects
    BY FolderAssumption DEF Spots
  <2>3. \A f \in Spots : g \in Things => ~In(g, f)'
    BY <1>2, <2>1, <2>2 DEF In, Things
  <2> QED
    BY <2>1, <2>3, StillShrinks, StraysAre
<1> QED
  BY <1>1, <1>2

(* A request goes on with the same job.                                    *)
Quiet(j) == j.op \notin {"empty", "lift", "lifting", "purge"}

LEMMA QuietClears == \A S, j : Quiet(j) => Clears(S, j)
BY DEF Quiet, Clears

LEMMA ClearsKept ==
  ASSUME TypeOK, TypeOK', AllShrink, NEW g \in Handlers, Clears(Strays, job[g])
  PROVE  Clears(Strays', job[g])
<1>1. job[g].op \in {"empty", "lift", "lifting"} => Strays'[job[g].it] \subseteq Strays[job[g].it]
  <2>1. job[g].op \in {"empty", "lift", "lifting"} => job[g].it \in Folders /\ Closing(job[g].it)
    BY DEF TypeOK, ItFits, Closing
  <2> QED
    BY <2>1 DEF AllShrink, Shrinks
<1>2. ASSUME job[g].op = "purge" PROVE StackClears(Strays', job[g].stack)
  <2>1. job[g].stack \in Seq(Frames) /\ job[g].stack # <<>>
    BY <1>2 DEF TypeOK, StackFits, Jobs
  <2>2. ASSUME NEW i \in 1 .. Len(job[g].stack)
        PROVE  Strays'[job[g].stack[i].at] \subseteq Strays[job[g].stack[i].at]
    <3>1. job[g].stack[i] \in Frames
      BY <2>1, TailFacts
    <3>2. CASE job[g].stack[i].at \in Folders
      <4>1. i \in DOMAIN job[g].stack
        BY <2>1
      <4>2. Closing(job[g].stack[i].at)
        BY <1>2, <4>1 DEF Closing
      <4> QED
        BY <3>2, <4>2 DEF AllShrink, Shrinks
    <3>3. CASE job[g].stack[i].at = NoId
      <4>1. Strays'[NoId] = {}
        <5>1. ASSUME NEW x \in Things, In(x, NoId)' PROVE FALSE
          <6>1. /\ x \in Projects => place'[x] \in Places \cup {"new", "gone"}
                /\ x \in Folders => parent'[x] \in Places
            BY DEF TypeOK
          <6>2. NoId \notin Places \cup {"new", "gone"}
            BY FolderAssumption DEF Places
          <6> QED
            BY <5>1, <6>1, <6>2 DEF In, Things
        <5> QED
          BY <5>1, StraysAre DEF Spots
      <4> QED
        BY <3>3, <4>1
    <3> QED
      BY <3>1, <3>2, <3>3 DEF Frames
  <2>3. StackClears(Strays, job[g].stack)
    BY <1>2 DEF Clears
  <2> QED
    BY <2>1, <2>2, <2>3, StackShrunk
<1> QED
  BY <1>1, <1>2 DEF Clears

LEMMA StrayStep ==
  ASSUME TypeOK, TypeOK', StrayInv, AllShrink,
         \A g \in Handlers : job'[g] = job[g] \/ Clears(Strays', job'[g]),
         \A f \in Folders : state[f] = "here" /\ state'[f] # "here" => Closing(f) /\ Strays[f] = {}
  PROVE  StrayInv'
<1>1. ASSUME NEW g \in Handlers PROVE Clears(Strays', job'[g])
  <2>1. Clears(Strays', job[g])
    BY ClearsKept DEF StrayInv
  <2> QED
    BY <2>1
<1>2. ASSUME NEW f \in Folders, state'[f] # "here" PROVE Strays'[f] = {}
  <2>1. Strays[f] = {} /\ Shrinks(f)
    BY <1>2 DEF StrayInv, AllShrink
  <2> QED
    BY <2>1 DEF Shrinks
<1> QED
  BY <1>1, <1>2 DEF StrayInv

LEMMA QuietStep ==
  ASSUME TypeOK, TypeOK', StrayInv, AllShrink,
         \A g \in Handlers : job'[g] = job[g] \/ Quiet(job'[g]),
         \A f \in Folders : state[f] = "here" => state'[f] = "here"
  PROVE  StrayInv'
BY QuietClears, StrayStep

LEMMA Becoming ==
  ASSUME TypeOK, NEW h \in Handlers, NEW j, Becomes(h, j)
  PROVE  job'[h] = j /\ \A g \in Handlers : job'[g] = job[g] \/ job'[g] = j
BY DEF TypeOK, Becomes

LEMMA NoJobQuiet == Quiet(NoJob)
BY DEF Quiet, NoJob

LEMMA StrayMoves ==
  ASSUME TypeOK, TypeOK', StrayInv, NEW h \in Handlers, MoveSteps(h)
  PROVE  StrayInv'
<1>1. ASSUME UNCHANGED <<state, parent, place, loose>>, NEW j, Becomes(h, j), Quiet(j)
      PROVE  StrayInv'
  BY <1>1, StillShrinks, Becoming, QuietStep
<1>2. ASSUME NEW f \in Folders, NEW to \in Places, CreateCheck(h, f, to) PROVE StrayInv'
  BY <1>1, <1>2 DEF CreateCheck, NoJob, Quiet
<1>3. ASSUME NEW f \in Folders, NEW to \in Places, MoveCheck(h, f, to) PROVE StrayInv'
  <2>1. Quiet([NoJob EXCEPT !.op = "climb", !.it = f, !.to = to, !.cur = to])
        /\ Quiet([NoJob EXCEPT !.op = "find", !.it = f, !.to = to])
    BY DEF NoJob, Quiet
  <2>2. PICK j : Becomes(h, j) /\ Quiet(j)
    BY <1>3, <2>1 DEF MoveCheck
  <2> QED
    BY <1>1, <1>3, <2>2 DEF MoveCheck
<1>4. CASE CreatePut(h)
  <2>1. job[h].it \in Folders
    BY <1>4 DEF CreatePut, Does, TypeOK, ItFits
  <2>2. AllShrink /\ \A f \in Folders : state[f] = "here" => state'[f] = "here"
    BY <1>4, <2>1, MadeShrinks DEF CreatePut
  <2> QED
    BY <1>4, <2>2, Becoming, NoJobQuiet, QuietStep DEF CreatePut
<1>5. CASE Climb(h)
  <2>1. job[h] \in Jobs /\ job[h].op = "climb"
    BY <1>5 DEF Climb, Does, TypeOK
  <2>2. Quiet([job[h] EXCEPT !.op = "find", !.cur = Root]) /\ Quiet([job[h] EXCEPT !.cur = Up(job[h].cur)])
    BY <2>1 DEF Jobs, Quiet
  <2>3. PICK j : Becomes(h, j) /\ Quiet(j)
    BY <1>5, <2>2, NoJobQuiet DEF Climb
  <2> QED
    BY <1>1, <1>5, <2>3 DEF Climb
<1>6. CASE Find(h)
  <2>1. job[h] \in Jobs
    BY DEF TypeOK
  <2>2. Quiet([job[h] EXCEPT !.op = "put"])
    BY <2>1 DEF Jobs, Quiet
  <2>3. PICK j : Becomes(h, j) /\ Quiet(j)
    BY <1>6, <2>2, NoJobQuiet DEF Find, Goes
  <2> QED
    BY <1>1, <1>6, <2>3 DEF Find
<1>7. CASE MovePut(h)
  <2>1. job[h].it \in Folders
    BY <1>7 DEF MovePut, Does, TypeOK, ItFits
  <2>2. AllShrink /\ \A f \in Folders : state'[f] = "here" <=> state[f] = "here"
    BY <1>7, <2>1, UpdatedShrinks DEF MovePut
  <2>3. ASSUME NEW g \in Handlers PROVE job'[g] = job[g] \/ Quiet(job'[g])
    <3>1. job'[g] = IF g = h THEN NoJob
                    ELSE IF Checked(g) /\ job[h].it \in Personal THEN [job[g] EXCEPT !.clean = FALSE]
                    ELSE job[g]
      BY <1>7 DEF MovePut
    <3>2. Checked(g) => Quiet([job[g] EXCEPT !.clean = FALSE])
      <4>1. job[g] \in Jobs
        BY DEF TypeOK
      <4> QED
        BY <4>1 DEF Checked, Jobs, Quiet
    <3> QED
      BY <3>1, <3>2, NoJobQuiet
  <2> QED
    BY <2>2, <2>3, QuietStep
<1>8. ASSUME NEW p \in Projects, NEW to \in Places, PlaceCheck(h, p, to) PROVE StrayInv'
  BY <1>1, <1>8 DEF PlaceCheck, NoJob, Quiet
<1>9. CASE PlaceWrite(h)
  <2>1. job[h].it \in Projects /\ Becomes(h, NoJob) /\ UNCHANGED <<state, parent>>
    BY <1>9 DEF PlaceWrite, Does, TypeOK, ItFits
  <2>2. CASE UNCHANGED <<place, loose>>
    BY <1>1, <2>1, <2>2, NoJobQuiet
  <2>3. CASE /\ place' = [place EXCEPT ![job[h].it] = job[h].to]
             /\ Put(job[h].it, job[h].to)
    <3>1. AllShrink
      BY <2>1, <2>3, PlacedShrinks
    <3> QED
      BY <2>1, <3>1, Becoming, NoJobQuiet, QuietStep
  <2> QED
    BY <1>9, <2>2, <2>3 DEF PlaceWrite
<1> QED
  BY <1>2, <1>3, <1>4, <1>5, <1>6, <1>7, <1>8, <1>9 DEF MoveSteps

LEMMA StrayCopies ==
  ASSUME TypeOK, TypeOK', StrayInv, NEW h \in Handlers, CopySteps(h)
  PROVE  StrayInv'
<1>1. ASSUME NEW c \in Folders, NEW f \in Folders, NEW to, NEW below, Copied(h, c, f, to, below),
             UNCHANGED place
      PROVE  StrayInv'
  <2> DEFINE j == [NoJob EXCEPT !.op = "copy",
                     !.stack = <<Frame(c, f, "projects", ProjectsIn(c))>> \o below]
  <2>1. AllShrink /\ \A g \in Folders : state[g] = "here" => state'[g] = "here"
    BY <1>1, MadeShrinks DEF Copied
  <2>2. Becomes(h, j) /\ Quiet(j)
    BY <1>1 DEF Copied, NoJob, Quiet
  <2> HIDE DEF j
  <2> QED
    BY <2>1, <2>2, Becoming, QuietStep
<1>2. ASSUME NEW c \in Folders, NEW f \in Folders, NEW to \in Places, CopyStart(h, c, f, to)
      PROVE  StrayInv'
  BY <1>1, <1>2 DEF CopyStart
<1>3. ASSUME NEW s \in Folders \cup {NoId}, NEW f \in Folders, CopyDescend(h, s, f) PROVE StrayInv'
  BY <1>1, <1>3 DEF CopyDescend
<1>4. ASSUME job[h].op = "copy" PROVE \A s : Quiet(Stacked(h, s))
  <2>1. job[h] \in Jobs
    BY DEF TypeOK
  <2> QED
    BY <1>4, <2>1 DEF Stacked, Jobs, Quiet
<1>5. ASSUME NEW p \in Projects, NEW q \in Projects, CopyProject(h, p, q) PROVE StrayInv'
  <2>1. AllShrink /\ UNCHANGED state
    BY <1>5, PlacedShrinks DEF CopyProject
  <2>2. PICK j : Becomes(h, j) /\ Quiet(j)
    BY <1>4, <1>5 DEF CopyProject, TopDoes, Does, WithoutItem, WithTop
  <2> QED
    BY <2>1, <2>2, Becoming, QuietStep
<1>6. CASE CopyList(h) \/ CopyReturn(h)
  <2>1. UNCHANGED <<state, parent, place, loose>>
    BY <1>6 DEF CopyList, CopyReturn
  <2>2. PICK j : Becomes(h, j) /\ Quiet(j)
    BY <1>4, <1>6, NoJobQuiet DEF CopyList, CopyReturn, TopDoes, Does, WithTop, Returned
  <2> QED
    BY <2>1, <2>2, StillShrinks, Becoming, QuietStep
<1> QED
  BY <1>2, <1>3, <1>5, <1>6 DEF CopySteps

LEMMA StillStep ==
  ASSUME TypeOK, TypeOK', StrayInv, UNCHANGED <<state, parent, place, loose>>,
         NEW h \in Handlers, NEW j, Becomes(h, j), Clears(Strays, j)
  PROVE  StrayInv'
<1>1. Strays' = Strays /\ AllShrink
  BY StillShrinks
<1> QED
  BY <1>1, Becoming, StrayStep

\* What is listed are all strays of that kind.
LEMMA ListsAll ==
  ASSUME TypeOK, StrayInv, NEW f \in Spots
  PROVE  /\ Strays[f] \subseteq Things
         /\ Strays[f] \cap Projects \subseteq ProjectsIn(f)
         /\ Strays[f] \cap Folders \subseteq Subfolders(f)
         /\ ProjectsIn(f) \subseteq Projects /\ Subfolders(f) \cap Projects = {}
<1>1. Strays[f] = {x \in Things \ loose : In(x, f)}
  BY StraysAre
<1>2. Strays[f] \cap Projects \subseteq ProjectsIn(f)
  BY <1>1 DEF In, ProjectsIn
<1>3. Strays[f] \cap Folders \subseteq Subfolders(f)
  <2>1. CASE f = NoId
    BY <2>1, NoIdEmpty
  <2>2. CASE f \in Folders /\ state[f] # "here"
    BY <2>2 DEF StrayInv
  <2>3. CASE f \in Folders /\ state[f] = "here"
    <3>1. ASSUME NEW x \in Folders, In(x, f)
          PROVE  state[x] = "here" /\ parent[x] = f
      BY <3>1, FolderAssumption DEF In
    <3>2. \A x \in Folders : state[x] = "here" /\ parent[x] = f => x \in Subfolders(f)
      BY <2>3 DEF Subfolders
    <3> QED
      BY <1>1, <3>1, <3>2
  <2> QED
    BY <2>1, <2>2, <2>3 DEF Spots
<1>4. Subfolders(f) \cap Projects = {}
  BY FolderAssumption DEF Subfolders
<1> QED
  BY <1>1, <1>2, <1>3, <1>4 DEF ProjectsIn

LEMMA StrayEmpties ==
  ASSUME TypeOK, TypeOK', StrayInv, NEW h \in Handlers, EmptySteps(h)
  PROVE  StrayInv'
<1>1. job[h] \in Jobs /\ Clears(Strays, job[h])
  BY DEF TypeOK, StrayInv
<1>2. job[h].op \in {"empty", "lift", "lifting"} => job[h].it \in Folders
  BY DEF TypeOK, ItFits
<1>3. AllShrink => Clears(Strays', job[h])
  BY <1>1, ClearsKept
<1>4. ASSUME NEW f \in Folders, EmptyStart(h, f) PROVE StrayInv'
  <2> DEFINE j == [NoJob EXCEPT !.op = "empty", !.it = f, !.todo = ProjectsIn(f)]
  <2>1. j.op = "empty" /\ j.it = f /\ j.todo = ProjectsIn(f)
    BY DEF NoJob
  <2>2. Clears(Strays, j)
    <3> HIDE DEF j
    <3> QED
      BY <2>1, ListsAll DEF Clears, Spots
  <2> QED
    BY <1>4, <2>2, StillStep DEF EmptyStart
<1>5. ASSUME NEW p \in Projects, EmptyProject(h, p) PROVE StrayInv'
  <2>1. job[h].op = "empty" /\ UNCHANGED <<state, parent>>
    BY <1>5 DEF EmptyProject, Does
  <2>2. CASE Becomes(h, NoJob) /\ UNCHANGED <<place, loose>>
    BY <2>1, <2>2, NoJobQuiet, QuietClears, StillStep
  <2>3. CASE /\ place' = [place EXCEPT ![p] = Root] /\ Put(p, Root)
             /\ Becomes(h, [job[h] EXCEPT !.todo = @ \ {p}])
    <3>1. AllShrink
      BY <2>1, <2>3, PlacedShrinks
    <3>2. p \notin Strays'[job[h].it]
      <4>1. place'[p] = Root /\ job[h].it # Root
        BY <1>2, <2>1, <2>3, FolderAssumption DEF TypeOK
      <4>2. ASSUME NEW f \in Folders, f = job[h].it PROVE p \notin Strays'[f]
        BY <4>1, <4>2, StraysAre DEF In, Spots
      <4> QED
        BY <1>2, <2>1, <4>2
    <3>3. /\ job'[h].op = "empty" /\ job'[h].it = job[h].it /\ job'[h].todo = job[h].todo \ {p}
          /\ \A g \in Handlers : job'[g] = job[g] \/ job'[g] = job'[h]
      BY <1>1, <2>1, <2>3, Becoming DEF Jobs
    <3>4. Clears(Strays', job'[h])
      BY <1>3, <2>1, <3>1, <3>2, <3>3 DEF Clears
    <3> QED
      BY <2>1, <3>1, <3>3, <3>4, StrayStep
  <2> QED
    BY <1>5, <2>2, <2>3 DEF EmptyProject
<1>6. CASE EmptyList(h)
  <2> DEFINE j == [job[h] EXCEPT !.op = "lift", !.todo = Subfolders(job[h].it)]
  <2>1. j.op = "lift" /\ j.it = job[h].it /\ j.todo = Subfolders(job[h].it)
    BY <1>1 DEF Jobs
  <2>2. job[h].op = "empty" /\ job[h].it \in Spots /\ job[h].todo = {}
    BY <1>2, <1>6 DEF EmptyList, Does, Spots
  <2>3. Strays[job[h].it] \cap Projects = {}
    BY <1>1, <2>2 DEF Clears
  <2>4. Strays[job[h].it] \subseteq Subfolders(job[h].it) \ Projects
    BY <2>2, <2>3, ListsAll DEF Things
  <2>5. Clears(Strays, j)
    <3> HIDE DEF j
    <3> QED
      BY <2>1, <2>4 DEF Clears
  <2> QED
    BY <1>6, <2>5, StillStep DEF EmptyList
<1>7. ASSUME NEW g \in Folders \cup {NoId}, LiftFind(h, g) PROVE StrayInv'
  <2> DEFINE j == [job[h] EXCEPT !.op = "lifting", !.cur = g]
  <2>1. job[h].op = "lift" /\ UNCHANGED <<state, parent, place, loose>>
    BY <1>7 DEF LiftFind, Does
  <2>2. j.op = "lifting" /\ j.it = job[h].it /\ j.todo = job[h].todo
    BY <1>1 DEF Jobs
  <2>3. Clears(Strays, j)
    <3> HIDE DEF j
    <3> QED
      BY <1>1, <2>1, <2>2 DEF Clears
  <2>4. Becomes(h, j) \/ Becomes(h, NoJob)
    BY <1>7 DEF LiftFind
  <2> HIDE DEF j
  <2> QED
    BY <2>1, <2>3, <2>4, NoJobQuiet, QuietClears, StillStep
<1>8. CASE LiftPut(h)
  <2>1. /\ job[h].op = "lifting" /\ job[h].cur \in Folders /\ Updated(job[h].cur, Root)
        /\ UNCHANGED place
    BY <1>8 DEF LiftPut, Does, TypeOK, ItFits
  <2>2. AllShrink /\ \A f \in Folders : state'[f] = "here" <=> state[f] = "here"
    BY <2>1, UpdatedShrinks
  <2>3. ASSUME NEW f \in Folders, f = job[h].it, NEW g \in Folders, g = job[h].cur
        PROVE  g \notin Strays'[f]
    <3>1. parent'[g] = Root /\ f # Root /\ g \notin Projects
      BY <2>1, <2>3, FolderAssumption DEF Updated, TypeOK
    <3> QED
      BY <3>1, StraysAre DEF In, Spots
  <2>4. /\ job'[h].op = "lift" /\ job'[h].it = job[h].it
        /\ job'[h].todo = job[h].todo \ {job[h].cur}
        /\ \A g \in Handlers : job'[g] = job[g] \/ job'[g] = job'[h]
    <3>1. PICK j : j = [job[h] EXCEPT !.op = "lift", !.cur = Root, !.todo = @ \ {job[h].cur}]
                   /\ Becomes(h, j)
      BY <1>8 DEF LiftPut
    <3>2. j.op = "lift" /\ j.it = job[h].it /\ j.todo = job[h].todo \ {job[h].cur}
      BY <1>1, <3>1 DEF Jobs
    <3> QED
      BY <3>1, <3>2, Becoming
  <2>5. Clears(Strays', job'[h])
    <3>1. Strays'[job[h].it] \subseteq job[h].todo \ Projects
      BY <1>3, <2>1, <2>2 DEF Clears
    <3>2. job[h].cur \notin Strays'[job[h].it]
      BY <1>2, <2>1, <2>3
    <3> QED
      BY <2>4, <3>1, <3>2 DEF Clears
  <2> QED
    BY <2>2, <2>4, <2>5, StrayStep
<1>9. CASE RemoveFolder(h)
  <2>1. /\ job[h].op = "lift" /\ job[h].todo = {} /\ Remove(job[h].it) /\ job[h].it \in Folders
        /\ Becomes(h, NoJob) /\ UNCHANGED place
    BY <1>2, <1>9 DEF RemoveFolder, Does
  <2>2. AllShrink /\ \A f \in Folders \ {job[h].it} : state'[f] = state[f]
    BY <2>1, RemovedShrinks DEF Spots
  <2>3. Strays[job[h].it] = {} /\ Closing(job[h].it)
    BY <1>1, <2>1 DEF Clears, Closing
  <2>4. \A g \in Handlers : job'[g] = job[g] \/ job'[g] = NoJob
    BY <2>1, Becoming
  <2> QED
    BY <2>2, <2>3, <2>4, NoJobQuiet, QuietClears, StrayStep
<1> QED
  BY <1>4, <1>5, <1>6, <1>7, <1>8, <1>9 DEF EmptySteps

LEMMA StrayPurges ==
  ASSUME TypeOK, TypeOK', StrayInv, NEW h \in Handlers, PurgeSteps(h)
  PROVE  StrayInv'
<1>1. job[h] \in Jobs /\ Clears(Strays, job[h])
  BY DEF TypeOK, StrayInv
<1>2. ASSUME job[h].op = "purge"
      PROVE  /\ job[h].stack \in Seq(Frames) /\ job[h].stack # <<>>
             /\ StackClears(Strays, job[h].stack) /\ TopClears(Strays, Top(h))
             /\ Top(h) \in Frames /\ Top(h).at \in Spots
             /\ Len(job[h].stack) \in Nat \ {0}
  <2>1. /\ job[h].stack \in Seq(Frames) /\ job[h].stack # <<>>
        /\ StackClears(Strays, job[h].stack) /\ TopClears(Strays, Top(h))
    BY <1>1, <1>2 DEF Jobs, TypeOK, StackFits, Clears, StackClears, Top
  <2>2. Top(h) \in Frames /\ Len(job[h].stack) \in Nat \ {0}
    BY <2>1, TailFacts DEF Top
  <2> QED
    BY <2>1, <2>2 DEF Frames, Spots
<1>3. \A s : Stacked(h, s).op = job[h].op /\ Stacked(h, s).stack = s
  BY <1>1 DEF Stacked, Jobs
<1>4. ASSUME NEW c \in Folders, PurgeStart(h, c) PROVE StrayInv'
  <2> DEFINE f == Frame(c, Root, "subs", Subfolders(c))
             j == [NoJob EXCEPT !.op = "purge", !.stack = <<f>>]
  <2>1. f.at = c /\ f.step = "subs" /\ f.todo = Subfolders(c)
    BY DEF Frame
  <2>2. TopClears(Strays, f)
    <3> HIDE DEF f
    <3> QED
      BY <2>1, ListsAll DEF TopClears, Spots
  <2>3. j.op = "purge" /\ j.stack = <<f>>
    BY DEF NoJob
  <2>4. Clears(Strays, j)
    <3>1. StackClears(Strays, <<f>>)
      <4> HIDE DEF f
      <4> QED
        BY <2>2 DEF StackClears
    <3> HIDE DEF f, j
    <3> QED
      BY <2>3, <3>1 DEF Clears
  <2> QED
    BY <1>4, <2>4, StillStep DEF PurgeStart
<1>5. ASSUME NEW x \in Folders \cup {NoId}, PurgeDescend(h, x) PROVE StrayInv'
  <2> DEFINE f == Frame(x, Root, "subs", Subfolders(x))
             s == <<f, [Top(h) EXCEPT !.todo = @ \ {x}]>> \o Below(h)
  <2>1. job[h].op = "purge" /\ Top(h).step = "subs" /\ x \in Top(h).todo
        /\ Becomes(h, Stacked(h, s)) /\ UNCHANGED <<state, parent, place, loose>>
    BY <1>5 DEF PurgeDescend, TopDoes, Does
  <2>2. f.at = x /\ f.step = "subs" /\ f.todo = Subfolders(x)
    BY DEF Frame
  <2>3. TopClears(Strays, f)
    <3> HIDE DEF f
    <3> QED
      BY <2>2, ListsAll DEF TopClears, Spots
  <2>4. StackClears(Strays, s)
    <3> HIDE DEF f
    <3> QED
      BY <1>2, <2>1, <2>2, <2>3, StackDescends DEF Top, Below
  <2>5. Clears(Strays, Stacked(h, s))
    <3> HIDE DEF s
    <3> QED
      BY <1>3, <2>1, <2>4 DEF Clears
  <2> HIDE DEF s
  <2> QED
    BY <2>1, <2>5, StillStep
<1>6. CASE PurgeScan(h)
  <2> DEFINE f == Frame(Top(h).at, Root, "projects",
                        ProjectsIn(IF Top(h).at = NoId THEN Root ELSE Top(h).at))
  <2>1. job[h].op = "purge" /\ Top(h).step = "subs" /\ Top(h).todo = {}
        /\ Becomes(h, WithTop(h, f)) /\ UNCHANGED <<state, parent, place, loose>>
    BY <1>6 DEF PurgeScan, TopDoes, Does
  <2>2. f.at = Top(h).at /\ f.step = "projects"
        /\ f.todo = ProjectsIn(IF Top(h).at = NoId THEN Root ELSE Top(h).at)
    BY DEF Frame
  <2>3. Strays[Top(h).at] \cap Folders = {}
    BY <1>2, <2>1 DEF TopClears
  <2>4. TopClears(Strays, f)
    <3>1. CASE Top(h).at = NoId
      <4> HIDE DEF f
      <4> QED
        BY <2>2, <3>1, NoIdEmpty DEF TopClears
    <3>2. CASE Top(h).at # NoId
      <4>1. Strays[Top(h).at] \subseteq ProjectsIn(Top(h).at) \ Folders
        BY <1>2, <2>1, <2>3, ListsAll DEF Things
      <4> HIDE DEF f
      <4> QED
        BY <2>2, <3>2, <4>1 DEF TopClears
    <3> QED
      BY <3>1, <3>2
  <2> HIDE DEF f
  <2>5. StackClears(Strays, <<f>> \o Below(h))
    BY <1>2, <2>1, <2>2, <2>4, StackGoesOn DEF Top, Below
  <2>6. Clears(Strays, WithTop(h, f))
    BY <1>3, <2>1, <2>5 DEF Clears, WithTop
  <2> QED
    BY <2>1, <2>6, StillStep
<1>7. ASSUME NEW p \in Projects, PurgeProject(h, p) PROVE StrayInv'
  <2> DEFINE f == [Top(h) EXCEPT !.todo = @ \ {p}]
  <2>1. job[h].op = "purge" /\ Top(h).step = "projects"
        /\ Becomes(h, WithTop(h, f)) /\ UNCHANGED <<state, parent>>
        /\ place' = [place EXCEPT ![p] = "gone"] /\ loose' = loose \ {p}
    BY <1>7 DEF PurgeProject, TopDoes, Does, WithoutItem
  <2>2. f.at = Top(h).at /\ f.step = "projects" /\ f.todo = Top(h).todo \ {p}
    BY <1>2, <2>1 DEF Frames
  <2>3. AllShrink
    BY <2>1, DeletedShrinks
  <2>4. StackClears(Strays', job[h].stack) /\ TopClears(Strays', Top(h))
    BY <1>1, <2>1, <2>3, ClearsKept DEF Clears, StackClears, Top
  <2>5. p \notin Strays'[Top(h).at]
    <3>1. ASSUME NEW g \in Spots PROVE p \notin Strays'[g]
      <4>1. place'[p] = "gone" /\ g # "gone"
        BY <2>1, FolderAssumption DEF TypeOK, Spots
      <4> QED
        BY <4>1, StraysAre DEF In
    <3> QED
      BY <1>2, <2>1, <3>1
  <2> HIDE DEF f
  <2>6. TopClears(Strays', f)
    BY <2>1, <2>2, <2>4, <2>5 DEF TopClears
  <2>7. StackClears(Strays', <<f>> \o Below(h))
    BY <1>2, <2>1, <2>2, <2>4, <2>6, StackGoesOn DEF Top, Below
  <2>8. Clears(Strays', WithTop(h, f))
    BY <1>3, <2>1, <2>7 DEF Clears, WithTop
  <2> QED
    BY <2>1, <2>3, <2>8, Becoming, StrayStep
<1>8. CASE PurgeReturn(h)
  <2>1. job[h].op = "purge" /\ Top(h).step = "projects" /\ Top(h).todo = {}
        /\ Remove(Top(h).at) /\ Becomes(h, Returned(h)) /\ UNCHANGED place
    BY <1>8 DEF PurgeReturn, TopDoes, Does
  <2>2. /\ AllShrink /\ \A g \in Spots : Top(h).at \notin Strays'[g]
        /\ \A g \in Folders \ {Top(h).at} : state'[g] = state[g]
    BY <1>2, <2>1, RemovedShrinks
  <2>3. Strays[Top(h).at] = {} /\ Closing(Top(h).at)
    <3>1. 1 \in DOMAIN job[h].stack
      BY <1>2, <2>1
    <3>2. Strays[Top(h).at] = {}
      BY <1>2, <2>1 DEF TopClears
    <3> QED
      BY <2>1, <3>1, <3>2 DEF Closing, Top
  <2>4. StackClears(Strays', job[h].stack)
    BY <1>1, <2>1, <2>2, ClearsKept DEF Clears
  <2>5. Clears(Strays', Returned(h))
    <3>1. CASE Len(job[h].stack) = 1
      BY <3>1, NoJobQuiet, QuietClears DEF Returned
    <3>2. CASE Len(job[h].stack) # 1
      <4>1. StackClears(Strays', Below(h))
        BY <1>2, <2>1, <2>2, <2>4, <3>2, StackReturns DEF Top, Below
      <4> QED
        BY <1>3, <2>1, <3>2, <4>1 DEF Clears, Returned
    <3> QED
      BY <3>1, <3>2
  <2> QED
    BY <2>1, <2>2, <2>3, <2>5, Becoming, StrayStep
<1> QED
  BY <1>4, <1>5, <1>6, <1>7, <1>8 DEF PurgeSteps

LEMMA StrayKept ==
  ASSUME TypeOK, TypeOK', StrayInv, [Next]_vars
  PROVE  StrayInv'
<1>1. ASSUME NEW h \in Handlers, Dies(h) PROVE StrayInv'
  BY <1>1, NoJobQuiet, QuietClears, StillStep DEF Dies
<1>2. ASSUME NEW p \in Projects, DeleteProject(p) PROVE StrayInv'
  BY <1>2, DeletedShrinks, StrayStep DEF DeleteProject
<1>3. CASE UNCHANGED vars
  BY <1>3, StillShrinks, StrayStep DEF vars
<1> QED
  BY <1>1, <1>2, <1>3, StrayMoves, StrayEmpties, StrayPurges, StrayCopies DEF Next

(* Nothing is left in a folder or a course that is gone, except what was   *)
(* put there behind the deletion (delete_folder, _delete_course_tree).     *)
THEOREM DeletionsStrandNothing == Spec => []NothingStranded
<1>1. Init => StrayInv
  <2> SUFFICES ASSUME Init PROVE StrayInv
    OBVIOUS
  <2>1. \A h \in Handlers : Quiet(job[h])
    BY DEF Init, NoJob, Quiet
  <2>2. \A x \in Things, f \in Folders : ~In(x, f)
    BY FolderAssumption DEF Init, In, Things
  <2>3. \A f \in Folders : Strays[f] = {}
    BY <2>2, StraysAre DEF Spots
  <2> QED
    BY <2>1, <2>3, QuietClears DEF StrayInv
<1>2. TypeOK /\ TypeOK' /\ StrayInv /\ [Next]_vars => StrayInv'
  BY StrayKept
<1>3. TypeOK /\ StrayInv => NothingStranded
  <2> SUFFICES ASSUME TypeOK, StrayInv PROVE NothingStranded
    OBVIOUS
  <2>1. ASSUME NEW f \in Folders \ loose, state[f] = "here", Up(f) # Root
        PROVE  state[Up(f)] = "here"
    <3>1. Up(f) = parent[f] /\ Up(f) \in Folders
      BY <2>1 DEF TypeOK, Up, Places
    <3>2. In(f, Up(f))
      BY <2>1, <3>1, FolderAssumption DEF In
    <3>3. f \in Strays[Up(f)]
      BY <3>1, <3>2, StraysAre DEF Spots, Things
    <3> QED
      BY <3>1, <3>3 DEF StrayInv
  <2>2. ASSUME NEW p \in Projects \ loose, place[p] \in Folders PROVE state[place[p]] = "here"
    <3>1. In(p, place[p])
      BY DEF In
    <3>2. p \in Strays[place[p]]
      BY <2>2, <3>1, StraysAre DEF Spots, Things
    <3> QED
      BY <2>2, <3>2 DEF StrayInv
  <2> QED
    BY <2>1, <2>2 DEF NothingStranded
<1> QED
  BY <1>1, <1>2, <1>3, TypeCorrect, PTL DEF Spec
--------------------------------------------------------------------------------
(* CoursesAcyclic.  Nothing looks for a cycle of courses; the rule for the *)
(* places to which they are moved keeps them a tree, however the moves     *)
(* overlap, for it is about the moment of the write.                       *)

CourseFalls == \A x \in Courses : Up(x)' = Up(x) \/ Up(x)' = Root

LEMMA CoursesOutside == Root \notin Courses /\ Courses \subseteq Folders /\ Personal \cap Courses = {}
BY FolderAssumption DEF Folders

\* After a step every course is where it was or at the root.
LEMMA CoursesFall ==
  ASSUME CoursesKnown, CoursesAcyclic, CourseFalls, Aged
  PROVE  CoursesKnown' /\ CoursesAcyclic'
<1>1. CoursesKnown'
  BY DEF CoursesKnown, CourseFalls, Aged
<1>2. ASSUME NEW S \in SUBSET Courses, S # {} PROVE \E f \in S : Up(f)' \notin S
  <2>1. PICK f \in S : Up(f) \notin S
    BY <1>2 DEF CoursesAcyclic
  <2> QED
    BY <1>2, <2>1, CoursesOutside DEF CourseFalls
<1> QED
  BY <1>1, <1>2 DEF CoursesAcyclic

\* A course is made: no course lies in it yet.
LEMMA CoursesGrow ==
  ASSUME TypeOK, CoursesKnown, CoursesAcyclic, Aged, NEW f \in Courses, state[f] = "free",
         NEW to, to = Root \/ (to \in Folders /\ state[to] # "free"), Up(f)' = to,
         \A x \in Courses \ {f} : Up(x)' = Up(x)
  PROVE  CoursesKnown' /\ CoursesAcyclic'
<1>1. \A x \in Courses : Up(x) # f
  BY CoursesOutside DEF CoursesKnown
<1>2. to # f
  BY CoursesOutside
<1>3. CoursesKnown'
  BY DEF CoursesKnown, Aged
<1>4. ASSUME NEW S \in SUBSET Courses, S # {}, \A x \in S : Up(x)' \in S PROVE FALSE
  <2>1. S \ {f} # {}
    BY <1>2, <1>4
  <2>2. PICK y \in S \ {f} : Up(y) \notin S \ {f}
    BY <1>4, <2>1 DEF CoursesAcyclic
  <2> QED
    BY <1>1, <1>4, <2>2
<1> QED
  BY <1>3, <1>4 DEF CoursesAcyclic

\* A course is moved to a place outside it: a set of courses that has become
\* closed held a closed one before, that of its courses above the place.
LEMMA CoursesMove ==
  ASSUME CoursesKnown, CoursesAcyclic, Aged, NEW f \in Courses, NEW to, Outside(f, to),
         to = Root \/ (to \in Folders /\ state[to] # "free"),
         Up(f)' = to, \A x \in Courses \ {f} : Up(x)' = Up(x)
  PROVE  CoursesKnown' /\ CoursesAcyclic'
<1>1. CoursesKnown'
  BY DEF CoursesKnown, Aged
<1>2. ASSUME NEW S \in SUBSET Courses, S # {}, \A x \in S : Up(x)' \in S PROVE FALSE
  <2>1. f \in S
    <3>1. CASE f \notin S
      <4>1. \A x \in S : Up(x) \in S
        BY <1>2, <3>1
      <4> QED
        BY <1>2, <4>1 DEF CoursesAcyclic
    <3> QED
      BY <3>1
  <2>2. to \in S /\ to # Root
    BY <1>2, <2>1, CoursesOutside
  <2>3. PICK C \in SUBSET (Courses \ {f}) : to \in C /\ \A x \in C : Up(x) \in C \cup {Root}
    BY <2>2 DEF Outside
  <2>4. \A x \in S \cap C : Up(x) \in S \cap C
    <3> SUFFICES ASSUME NEW x \in S \cap C PROVE Up(x) \in S \cap C
      OBVIOUS
    <3>1. Up(x)' = Up(x) /\ Up(x)' \in S
      BY <1>2, <2>3
    <3> QED
      BY <1>2, <2>3, <3>1, CoursesOutside
  <2>5. S \cap C # {} /\ S \cap C \in SUBSET Courses
    BY <2>2, <2>3
  <2> QED
    BY <2>4, <2>5 DEF CoursesAcyclic
<1> QED
  BY <1>1, <1>2 DEF CoursesAcyclic

LEMMA CoursesStay ==
  ASSUME UNCHANGED <<state, parent>>
  PROVE  CourseFalls /\ Aged
BY DEF CourseFalls, Aged, Up

LEMMA CoursesStep ==
  ASSUME CycleInv, CoursesKnown, CoursesAcyclic, [Next]_vars,
         \A h \in Handlers : MovePut(h) /\ job[h].it \in Courses => Outside(job[h].it, job[h].to)
  PROVE  CoursesKnown' /\ CoursesAcyclic'
<1>t. TypeOK /\ \A h \in Handlers : Heads(h)
  BY DEF CycleInv
<1>u. ASSUME UNCHANGED <<state, parent>> PROVE CoursesKnown' /\ CoursesAcyclic'
  BY <1>u, CoursesStay, CoursesFall
<1>1. ASSUME NEW h \in Handlers, CreatePut(h) PROVE CoursesKnown' /\ CoursesAcyclic'
  <2>1. job[h].it \in Folders
    BY <1>1, <1>t, JobsOK DEF CreatePut, Does, JobOK, ItFits
  <2>2. PICK f \in Folders : f = job[h].it
    BY <2>1
  <2>3. PICK to : to = job[h].to
    OBVIOUS
  <2>4. to = Root \/ (to \in Folders /\ state[to] # "free")
    BY <1>1, <1>t, <2>3 DEF Heads, CreatePut, Does
  <2>5. /\ state[f] = "free"
        /\ state' = [state EXCEPT ![f] = "here"] /\ parent' = [parent EXCEPT ![f] = to]
    BY <1>1, <2>2, <2>3 DEF CreatePut
  <2>6. Aged /\ Up(f)' = to /\ \A x \in Courses \ {f} : Up(x)' = Up(x)
    BY <1>t, <2>5, CoursesOutside DEF Aged, Up, TypeOK
  <2>7. CASE f \in Courses
    BY <1>t, <2>4, <2>5, <2>6, <2>7, CoursesGrow
  <2>8. CASE f \notin Courses
    BY <2>6, <2>8, CoursesFall DEF CourseFalls
  <2> QED
    BY <2>7, <2>8
<1>2. ASSUME NEW h \in Handlers, MovePut(h) PROVE CoursesKnown' /\ CoursesAcyclic'
  <2>1. Heads(h) /\ job[h].op = "put" /\ job[h].it \in Folders /\ job[h].to \in Places
    BY <1>2, <1>t, JobsOK DEF MovePut, Does, JobOK, ItFits, Jobs
  <2>2. PICK f \in Folders : f = job[h].it
    BY <2>1
  <2>3. PICK to \in Places : to = job[h].to
    BY <2>1
  <2>4. to = Root \/ (to \in Folders /\ state[to] # "free")
    BY <2>1, <2>3 DEF Heads
  <2>5. /\ Aged /\ \A x \in Folders \ {f} : Up(x)' = Up(x)
        /\ IF state[f] = "here" THEN Up(f)' = to ELSE Up(f)' = Root
    BY <1>2, <1>t, <2>2, <2>3, UpdatedMoves DEF MovePut
  <2>6. \A x \in Courses \ {f} : Up(x)' = Up(x)
    BY <2>5, CoursesOutside
  <2>7. CASE f \in Courses /\ state[f] = "here"
    <3>1. Outside(f, to)
      BY <1>2, <2>2, <2>3, <2>7
    <3> QED
      BY <2>4, <2>5, <2>6, <2>7, <3>1, CoursesMove
  <2>8. CASE f \notin Courses \/ state[f] # "here"
    BY <2>5, <2>6, <2>8, CoursesFall DEF CourseFalls
  <2> QED
    BY <2>7, <2>8
<1>3. ASSUME NEW h \in Handlers, MoveSteps(h) PROVE CoursesKnown' /\ CoursesAcyclic'
  BY <1>1, <1>2, <1>3, <1>u DEF MoveSteps, CreateCheck, MoveCheck, Climb, Find, PlaceCheck, PlaceWrite
<1>4. ASSUME NEW f, Remove(f) PROVE CoursesKnown' /\ CoursesAcyclic'
  <2>1. CourseFalls /\ Aged
    BY <1>4, <1>t, CoursesOutside DEF Remove, CourseFalls, Aged, Up, TypeOK
  <2> QED
    BY <2>1, CoursesFall
<1>5. ASSUME NEW h \in Handlers, EmptySteps(h) PROVE CoursesKnown' /\ CoursesAcyclic'
  <2>1. ASSUME LiftPut(h) PROVE CoursesKnown' /\ CoursesAcyclic'
    <3>1. PICK f \in Folders : f = job[h].cur
      BY <1>t, <2>1, JobsOK DEF LiftPut, Does, JobOK, ItFits
    <3>2. CourseFalls /\ Aged
      BY <1>t, <2>1, <3>1, UpdatedMoves, CoursesOutside DEF LiftPut, CourseFalls, Places
    <3> QED
      BY <3>2, CoursesFall
  <2> QED
    BY <1>4, <1>5, <1>u, <2>1 DEF EmptySteps, EmptyStart, LiftFind, EmptyProject, EmptyList, RemoveFolder
<1>6. ASSUME NEW h \in Handlers, PurgeSteps(h) PROVE CoursesKnown' /\ CoursesAcyclic'
  BY <1>4, <1>6, <1>u DEF PurgeSteps, PurgeStart, PurgeDescend, PurgeProject, PurgeScan, PurgeReturn
<1>7. ASSUME NEW h \in Handlers, NEW c, NEW f, NEW to, NEW below, Copied(h, c, f, to, below)
      PROVE  CoursesKnown' /\ CoursesAcyclic'
  <2>1. /\ state[f] = "free" /\ f \in Personal
        /\ state' = [state EXCEPT ![f] = "here"] /\ parent' = [parent EXCEPT ![f] = to]
    BY <1>7 DEF Copied
  <2>2. CourseFalls /\ Aged
    BY <1>t, <2>1, CoursesOutside, RootOutside DEF CourseFalls, Aged, Up, TypeOK
  <2> QED
    BY <2>2, CoursesFall
<1>8. ASSUME NEW h \in Handlers, CopySteps(h) PROVE CoursesKnown' /\ CoursesAcyclic'
  BY <1>7, <1>8, <1>u DEF CopySteps, CopyStart, CopyDescend, CopyProject, CopyList, CopyReturn
<1>9. CASE (\E h \in Handlers : Dies(h)) \/ (\E p \in Projects : DeleteProject(p)) \/ UNCHANGED vars
  BY <1>9, <1>u DEF Dies, DeleteProject, vars
<1> QED
  BY <1>3, <1>5, <1>6, <1>8, <1>9 DEF Next

(* Courses form a tree, down which delete_course and the copy of a course  *)
(* recurse, when no course is moved into itself or below                   *)
(* itself, which update_course does not check.                             *)
THEOREM CoursesAcyclicCorrect == Spec /\ MovesOutside => []CoursesAcyclic
<1> DEFINE A == \A h \in Handlers :
                  MovePut(h) /\ job[h].it \in Courses => Outside(job[h].it, job[h].to)
           I == CycleInv /\ CoursesKnown /\ CoursesAcyclic
<1>1. Init => I
  <2> SUFFICES ASSUME Init PROVE I
    OBVIOUS
  <2>1. \A x \in Courses : Up(x) = Root
    BY CoursesOutside DEF Init, Up
  <2> QED
    BY <2>1, CycleInit, CoursesOutside DEF CoursesKnown, CoursesAcyclic
<1>2. I /\ [Next]_vars /\ [A]_vars => I'
  <2> SUFFICES ASSUME I, [Next]_vars, [A]_vars PROVE I'
    OBVIOUS
  <2>1. CycleInv'
    BY CycleStep
  <2>2. CoursesKnown' /\ CoursesAcyclic'
    <3>1. CASE A
      BY <3>1, CoursesStep
    <3>2. CASE UNCHANGED vars
      BY <3>2, CoursesStay, CoursesFall DEF vars
    <3> QED
      BY <3>1, <3>2
  <2> QED
    BY <2>1, <2>2
<1>3. I => CoursesAcyclic
  OBVIOUS
<1>4. MovesOutside <=> [][A]_vars
  BY DEF MovesOutside
<1> HIDE DEF A, I
<1> QED
  BY <1>1, <1>2, <1>3, <1>4, PTL DEF Spec
--------------------------------------------------------------------------------
(* OwnProjectsStay.                                                        *)

Apart ==
  /\ \A f \in Folders : state[f] # "ghost" /\ Alike(f, parent[f])
  /\ \A p \in OwnProjects : place[p] \notin Courses

LEMMA PlacesApart ==
  /\ Root \notin Folders /\ NoId \notin Folders \cup Projects /\ Personal \cap Courses = {}
  /\ Folders = Personal \cup Courses /\ Folders \cap Projects = {}
  /\ OwnProjects \cap CourseProjects = {} /\ Projects = OwnProjects \cup CourseProjects
  /\ Things = Folders \cup Projects /\ "gone" \notin Courses
BY FolderAssumption DEF Folders, Projects, Things

LEMMA SplitBecomes ==
  ASSUME TypeOK, SplitInv, Apart', NEW h \in Handlers, NEW j, Becomes(h, j), SplitJob(j)
  PROVE  SplitInv'
<1>1. \A g \in Handlers : job'[g] = job[g] \/ job'[g] = j
  BY DEF TypeOK, Becomes
<1>2. \A g \in Handlers : SplitJob(job'[g])
  BY <1>1 DEF SplitInv
<1> QED
  BY <1>2 DEF SplitInv, SplitJob, Apart

LEMMA NoJobSplit == SplitJob(NoJob)
BY DEF SplitJob, NoJob

LEMMA ApartStays ==
  ASSUME SplitInv, UNCHANGED <<state, parent>>, \A p \in OwnProjects : place'[p] = place[p] \/ place'[p] \notin Courses
  PROVE  Apart'
BY DEF SplitInv, Apart

\* The lists of a course hold courses and their projects.
LEMMA ListsSplit ==
  ASSUME SplitInv, NEW c \in Courses
  PROVE  /\ Subfolders(c) \subseteq Courses /\ ProjectsIn(c) \subseteq CourseProjects
         /\ \A step \in {"subs", "projects"}, todo \in SUBSET (Courses \cup CourseProjects) :
              Frame(c, Root, step, todo) \in CourseFrames
<1>1. \A f \in Folders : state[f] # "ghost" /\ Alike(f, parent[f])
  BY DEF SplitInv
<1>2. \A f \in Folders : parent[f] = c => f \in Courses
  BY <1>1, PlacesApart DEF Alike
<1>3. Subfolders(c) \subseteq Courses
  BY <1>1, <1>2 DEF Subfolders
<1>4. ProjectsIn(c) \subseteq CourseProjects
  BY PlacesApart DEF SplitInv, ProjectsIn
<1> QED
  BY <1>3, <1>4 DEF Frame, CourseFrames, Places

\* The frames of a recursion stay what they are.
LEMMA StackSplit ==
  ASSUME TypeOK, NEW h \in Handlers, job[h].op \in {"purge", "copy"}, NEW F, job[h].stack \in Seq(F)
  PROVE  /\ Top(h) \in F /\ Below(h) \in Seq(F)
         /\ \A s : Stacked(h, s).op = job[h].op /\ Stacked(h, s).stack = s
         /\ \A f \in F : WithTop(h, f).op = job[h].op /\ WithTop(h, f).stack \in Seq(F)
         /\ Returned(h) = NoJob \/ (Returned(h).op = job[h].op /\ Returned(h).stack \in Seq(F))
<1>1. job[h] \in Jobs /\ job[h].stack # <<>>
  BY JobsOK DEF JobOK, StackFits
<1>2. Top(h) \in F /\ Below(h) \in Seq(F)
  BY <1>1, Pop DEF Top, Below
<1>3. \A s : Stacked(h, s).op = job[h].op /\ Stacked(h, s).stack = s
  BY <1>1 DEF Stacked, Jobs
<1>4. \A f \in F : <<f>> \o Below(h) \in Seq(F)
  BY <1>2, Push
<1> QED
  BY <1>2, <1>3, <1>4 DEF WithTop, Returned

LEMMA SplitMoves ==
  ASSUME TypeOK, SplitInv, NEW h \in Handlers, MoveSteps(h), MovePut(h) => state[job[h].it] = "here"
  PROVE  SplitInv'
<1>j. job[h] \in Jobs /\ ItFits(job[h]) /\ SplitJob(job[h])
  BY JobsOK DEF SplitInv, JobOK
<1>p. ASSUME NEW x \in Folders, NEW to \in Parents(x) PROVE Alike(x, to)
  BY <1>p, PlacesApart DEF Parents, SameTree, Alike
<1>a. ASSUME UNCHANGED <<state, parent, place>> PROVE Apart'
  BY <1>a, ApartStays
<1>k. ASSUME NEW f \in Folders, NEW to \in Places, Alike(f, to),
             state' = [state EXCEPT ![f] = "here"], parent' = [parent EXCEPT ![f] = to], place' = place
      PROVE  Apart'
  BY <1>k DEF SplitInv, Apart, TypeOK
<1>1. ASSUME NEW f \in Folders, NEW to \in Places, CreateCheck(h, f, to) PROVE SplitInv'
  <2>1. SplitJob([NoJob EXCEPT !.op = "create", !.it = f, !.to = to])
    BY <1>1, <1>p DEF CreateCheck, SplitJob, NoJob
  <2> QED
    BY <1>1, <1>a, <2>1, SplitBecomes DEF CreateCheck
<1>2. ASSUME NEW f \in Folders, NEW to \in Places, MoveCheck(h, f, to) PROVE SplitInv'
  <2>1. /\ SplitJob([NoJob EXCEPT !.op = "climb", !.it = f, !.to = to, !.cur = to])
        /\ SplitJob([NoJob EXCEPT !.op = "find", !.it = f, !.to = to])
    BY <1>2, <1>p DEF MoveCheck, SplitJob, NoJob
  <2>2. PICK j : Becomes(h, j) /\ SplitJob(j) /\ UNCHANGED <<state, parent, place>>
    BY <1>2, <2>1 DEF MoveCheck
  <2> QED
    BY <1>a, <2>2, SplitBecomes
<1>3. ASSUME NEW p \in Projects, NEW to \in Places, PlaceCheck(h, p, to) PROVE SplitInv'
  <2>1. SplitJob([NoJob EXCEPT !.op = "place", !.it = p, !.to = to])
    BY <1>3, PlacesApart DEF PlaceCheck, Parents, SameTree, SplitJob, NoJob
  <2> QED
    BY <1>3, <1>a, <2>1, SplitBecomes DEF PlaceCheck
<1>4. CASE CreatePut(h)
  <2>1. job[h].it \in Folders /\ job[h].to \in Places /\ Alike(job[h].it, job[h].to)
    BY <1>4, <1>j DEF CreatePut, Does, ItFits, SplitJob, Jobs
  <2>2. Apart'
    BY <1>4, <1>k, <2>1 DEF CreatePut
  <2> QED
    BY <1>4, <2>2, NoJobSplit, SplitBecomes DEF CreatePut
<1>5. CASE Climb(h)
  <2>1. /\ SplitJob([job[h] EXCEPT !.op = "find", !.cur = Root])
        /\ \A x : SplitJob([job[h] EXCEPT !.cur = x])
    BY <1>5, <1>j DEF Climb, Does, SplitJob, Jobs
  <2>2. PICK j : Becomes(h, j) /\ SplitJob(j) /\ UNCHANGED <<state, parent, place>>
    BY <1>5, <2>1, NoJobSplit DEF Climb
  <2> QED
    BY <1>a, <2>2, SplitBecomes
<1>6. CASE Find(h)
  <2>1. SplitJob([job[h] EXCEPT !.op = "put"])
    BY <1>6, <1>j DEF Find, Does, SplitJob, Jobs
  <2>2. PICK j : Becomes(h, j) /\ SplitJob(j) /\ UNCHANGED <<state, parent, place>>
    BY <1>6, <2>1, NoJobSplit DEF Find, Goes
  <2> QED
    BY <1>a, <2>2, SplitBecomes
<1>7. CASE MovePut(h)
  <2>1. job[h].it \in Folders /\ job[h].to \in Places /\ Alike(job[h].it, job[h].to)
    BY <1>7, <1>j DEF MovePut, Does, ItFits, SplitJob, Jobs
  <2>2. state' = state /\ parent' = [parent EXCEPT ![job[h].it] = job[h].to] /\ place' = place
    BY <1>7, <2>1 DEF MovePut, Updated, TypeOK
  <2>3. Apart'
    BY <2>1, <2>2 DEF SplitInv, Apart, TypeOK
  <2>4. ASSUME NEW g \in Handlers PROVE SplitJob(job'[g])
    <3>1. job[g] \in Jobs /\ SplitJob(job[g])
      BY DEF SplitInv, TypeOK
    <3>2. SplitJob([job[g] EXCEPT !.clean = FALSE])
      BY <3>1 DEF SplitJob, Jobs
    <3> QED
      BY <1>7, <3>1, <3>2, NoJobSplit DEF MovePut
  <2> QED
    BY <2>3, <2>4 DEF SplitInv, Apart, SplitJob
<1>8. CASE PlaceWrite(h)
  <2>1. job[h].it \in Projects /\ (job[h].it \in OwnProjects => job[h].to \notin Courses)
    BY <1>8, <1>j DEF PlaceWrite, Does, ItFits, SplitJob
  <2>2. UNCHANGED <<state, parent>> /\ \A p \in OwnProjects : place'[p] = place[p] \/ place'[p] \notin Courses
    BY <1>8, <2>1, PlacesApart DEF PlaceWrite, TypeOK
  <2> QED
    BY <1>8, <2>2, ApartStays, NoJobSplit, SplitBecomes DEF PlaceWrite
<1> QED
  BY <1>1, <1>2, <1>3, <1>4, <1>5, <1>6, <1>7, <1>8 DEF MoveSteps

LEMMA RemoveApart ==
  ASSUME TypeOK, SplitInv, NEW f, Remove(f), place' = place
  PROVE  Apart'
BY DEF Remove, SplitInv, Apart, TypeOK, Alike

LEMMA SplitEmpties ==
  ASSUME TypeOK, SplitInv, NEW h \in Handlers, EmptySteps(h), LiftPut(h) => state[job[h].cur] = "here"
  PROVE  SplitInv'
<1>j. job[h] \in Jobs /\ ItFits(job[h])
  BY JobsOK DEF JobOK
<1>a. ASSUME UNCHANGED <<state, parent, place>> PROVE Apart'
  BY <1>a, ApartStays
<1>1. ASSUME NEW f \in Folders, EmptyStart(h, f) PROVE SplitInv'
  <2>1. SplitJob([NoJob EXCEPT !.op = "empty", !.it = f, !.todo = ProjectsIn(f)])
    BY DEF NoJob, SplitJob
  <2> QED
    BY <1>1, <1>a, <2>1, SplitBecomes DEF EmptyStart
<1>2. ASSUME NEW g \in Folders \cup {NoId}, LiftFind(h, g) PROVE SplitInv'
  <2>1. SplitJob([job[h] EXCEPT !.op = "lifting", !.cur = g])
    BY <1>j DEF Jobs, SplitJob
  <2>2. PICK j : Becomes(h, j) /\ SplitJob(j) /\ UNCHANGED <<state, parent, place>>
    BY <1>2, <2>1, NoJobSplit DEF LiftFind
  <2> QED
    BY <1>a, <2>2, SplitBecomes
<1>3. ASSUME NEW p \in Projects, EmptyProject(h, p) PROVE SplitInv'
  <2>1. SplitJob([job[h] EXCEPT !.todo = @ \ {p}])
    BY <1>j, <1>3 DEF Jobs, EmptyProject, Does, SplitJob
  <2>2. PICK j : Becomes(h, j) /\ SplitJob(j)
    BY <1>3, <2>1, NoJobSplit DEF EmptyProject
  <2>3. UNCHANGED <<state, parent>> /\ \A q \in OwnProjects : place'[q] = place[q] \/ place'[q] \notin Courses
    BY <1>3, PlacesApart DEF EmptyProject, TypeOK
  <2> QED
    BY <2>2, <2>3, ApartStays, SplitBecomes
<1>4. CASE EmptyList(h)
  <2>1. SplitJob([job[h] EXCEPT !.op = "lift", !.todo = Subfolders(job[h].it)])
    BY <1>j DEF Jobs, SplitJob
  <2> QED
    BY <1>4, <1>a, <2>1, SplitBecomes DEF EmptyList
<1>5. CASE LiftPut(h)
  <2>1. SplitJob([job[h] EXCEPT !.op = "lift", !.cur = Root, !.todo = @ \ {job[h].cur}])
    BY <1>j DEF Jobs, SplitJob
  <2>2. job[h].cur \in Folders
    BY <1>5, <1>j DEF LiftPut, Does, ItFits
  <2>3. state' = state /\ parent' = [parent EXCEPT ![job[h].cur] = Root] /\ place' = place
    BY <1>5, <2>2 DEF LiftPut, Updated, TypeOK
  <2>4. Apart'
    BY <2>2, <2>3 DEF SplitInv, Apart, TypeOK, Alike
  <2> QED
    BY <1>5, <2>1, <2>4, SplitBecomes DEF LiftPut
<1>6. CASE RemoveFolder(h)
  BY <1>6, RemoveApart, NoJobSplit, SplitBecomes DEF RemoveFolder
<1> QED
  BY <1>1, <1>2, <1>3, <1>4, <1>5, <1>6 DEF EmptySteps

LEMMA SplitPurges ==
  ASSUME TypeOK, SplitInv, NEW h \in Handlers, PurgeSteps(h)
  PROVE  SplitInv'
<1>a. ASSUME UNCHANGED <<state, parent, place>> PROVE Apart'
  BY <1>a, ApartStays
<1>s. ASSUME NEW j, j.op = "purge", j.stack \in Seq(CourseFrames) PROVE SplitJob(j)
  BY <1>s DEF SplitJob
<1>1. ASSUME NEW c \in Folders, PurgeStart(h, c) PROVE SplitInv'
  <2> DEFINE j == [NoJob EXCEPT !.op = "purge", !.stack = <<Frame(c, Root, "subs", Subfolders(c))>>]
  <2>1. Frame(c, Root, "subs", Subfolders(c)) \in CourseFrames
    BY <1>1, ListsSplit DEF PurgeStart
  <2>2. j.op = "purge" /\ j.stack \in Seq(CourseFrames)
    BY <2>1 DEF NoJob
  <2> QED
    BY <1>1, <1>a, <1>s, <2>2, SplitBecomes DEF PurgeStart
<1>2. ASSUME job[h].op = "purge" PROVE job[h].stack \in Seq(CourseFrames) /\ Top(h) \in CourseFrames
  BY <1>2, StackSplit DEF SplitInv, SplitJob
<1>3. ASSUME NEW fr \in CourseFrames, job[h].op = "purge" PROVE SplitJob(WithTop(h, fr))
  BY <1>2, <1>3, <1>s, StackSplit
<1>4. ASSUME NEW s \in Folders \cup {NoId}, PurgeDescend(h, s) PROVE SplitInv'
  <2> DEFINE new == Frame(s, Root, "subs", Subfolders(s))
             old == [Top(h) EXCEPT !.todo = @ \ {s}]
  <2>0. job[h].op = "purge"
    BY <1>4 DEF PurgeDescend, TopDoes, Does
  <2>a. Top(h) \in CourseFrames /\ s \in Top(h).todo
    BY <1>2, <1>4, <2>0 DEF PurgeDescend
  <2>b. s \in Courses
    BY <2>a, PlacesApart DEF CourseFrames
  <2>c. old \in CourseFrames
    BY <2>a DEF CourseFrames
  <2>1. s \in Courses /\ old \in CourseFrames
    BY <2>b, <2>c
  <2>2. new \in CourseFrames
    BY <2>1, ListsSplit
  <2>3. Becomes(h, Stacked(h, <<new, old>> \o Below(h))) /\ UNCHANGED <<state, parent, place>>
    BY <1>4 DEF PurgeDescend
  <2> HIDE DEF new, old
  <2>4. Below(h) \in Seq(CourseFrames)
    BY <1>2, <2>0, StackSplit
  <2>5. <<new, old>> \o Below(h) \in Seq(CourseFrames)
    BY <2>1, <2>2, <2>4, Push2
  <2>6. SplitJob(Stacked(h, <<new, old>> \o Below(h)))
    BY <1>2, <1>s, <2>0, <2>5, StackSplit
  <2> QED
    BY <1>a, <2>3, <2>6, SplitBecomes
<1>5. CASE PurgeScan(h)
  <2> DEFINE fr == Frame(Top(h).at, Root, "projects",
                         ProjectsIn(IF Top(h).at = NoId THEN Root ELSE Top(h).at))
  <2>0. job[h].op = "purge"
    BY <1>5 DEF PurgeScan, TopDoes, Does
  <2>1. Top(h).at \in Courses /\ Top(h).at # NoId
    BY <1>2, <2>0, PlacesApart DEF CourseFrames
  <2>2. fr \in CourseFrames
    BY <2>1, ListsSplit
  <2>3. Becomes(h, WithTop(h, fr)) /\ UNCHANGED <<state, parent, place>>
    BY <1>5 DEF PurgeScan
  <2> HIDE DEF fr
  <2> QED
    BY <1>a, <1>3, <2>0, <2>2, <2>3, SplitBecomes
<1>6. ASSUME NEW p \in Projects, PurgeProject(h, p) PROVE SplitInv'
  <2> DEFINE fr == [Top(h) EXCEPT !.todo = @ \ {p}]
  <2>0. job[h].op = "purge"
    BY <1>6 DEF PurgeProject, TopDoes, Does
  <2>1. fr \in CourseFrames
    BY <1>2, <2>0 DEF CourseFrames
  <2>2. Becomes(h, WithTop(h, fr)) /\ UNCHANGED <<state, parent>>
    BY <1>6 DEF PurgeProject, WithoutItem
  <2>3. \A q \in OwnProjects : place'[q] = place[q] \/ place'[q] \notin Courses
    BY <1>6, PlacesApart DEF PurgeProject, TypeOK
  <2> HIDE DEF fr
  <2> QED
    BY <1>3, <2>0, <2>1, <2>2, <2>3, ApartStays, SplitBecomes
<1>7. CASE PurgeReturn(h)
  <2>0. job[h].op = "purge"
    BY <1>7 DEF PurgeReturn, TopDoes, Does
  <2>1. SplitJob(Returned(h))
    BY <1>2, <1>s, <2>0, StackSplit, NoJobSplit
  <2> QED
    BY <1>7, <2>1, RemoveApart, SplitBecomes DEF PurgeReturn
<1> QED
  BY <1>1, <1>4, <1>5, <1>6, <1>7 DEF PurgeSteps

LEMMA SplitCopies ==
  ASSUME TypeOK, SplitInv, NEW h \in Handlers, CopySteps(h)
  PROVE  SplitInv'
<1>a. ASSUME UNCHANGED <<state, parent, place>> PROVE Apart'
  BY <1>a, ApartStays
<1>s. ASSUME NEW j, j.op = "copy", j.stack \in Seq(OwnFrames) PROVE SplitJob(j)
  BY <1>s DEF SplitJob
<1>1. ASSUME NEW c \in Folders, NEW f \in Folders, NEW to \in Personal \cup {Root},
             NEW below \in Seq(OwnFrames), Copied(h, c, f, to, below), place' = place
      PROVE  SplitInv'
  <2> DEFINE fr == Frame(c, f, "projects", ProjectsIn(c))
             j == [NoJob EXCEPT !.op = "copy", !.stack = <<fr>> \o below]
  <2>1. f \in Personal
    BY <1>1 DEF Copied
  <2>2. fr \in Frames /\ fr.dst = f
    BY <2>1, ListsType, Frame1, PlacesApart DEF Frame, Places
  <2>3. fr \in OwnFrames
    BY <2>1, <2>2 DEF OwnFrames
  <2>4. Becomes(h, j)
    BY <1>1 DEF Copied
  <2> HIDE DEF fr
  <2>5. j.op = "copy" /\ j.stack \in Seq(OwnFrames)
    BY <2>3, Push DEF NoJob
  <2>6. Apart'
    BY <1>1, <2>1, PlacesApart DEF Copied, SplitInv, Apart, TypeOK, Alike
  <2> HIDE DEF j
  <2> QED
    BY <1>s, <2>4, <2>5, <2>6, SplitBecomes
<1>2. ASSUME job[h].op = "copy"
      PROVE  job[h].stack \in Seq(OwnFrames) /\ Top(h) \in OwnFrames /\ Below(h) \in Seq(OwnFrames)
  BY <1>2, StackSplit DEF SplitInv, SplitJob
<1>3. ASSUME NEW fr \in OwnFrames, job[h].op = "copy" PROVE SplitJob(WithTop(h, fr))
  BY <1>2, <1>3, <1>s, StackSplit
<1>4. ASSUME job[h].op = "copy", NEW x PROVE [Top(h) EXCEPT !.todo = @ \ {x}] \in OwnFrames
  BY <1>2, <1>4 DEF OwnFrames, Frames
<1>5. ASSUME NEW c \in Folders, NEW f \in Folders, NEW to \in Places, CopyStart(h, c, f, to) PROVE SplitInv'
  <2>1. <<>> \in Seq(OwnFrames) /\ to \in Personal \cup {Root}
    BY <1>5 DEF CopyStart
  <2> QED
    BY <1>1, <1>5, <2>1 DEF CopyStart
<1>6. ASSUME NEW s \in Folders \cup {NoId}, NEW f \in Folders, CopyDescend(h, s, f) PROVE SplitInv'
  <2> DEFINE old == [Top(h) EXCEPT !.todo = @ \ {s}]
  <2>0. job[h].op = "copy" /\ s \in Folders
    BY <1>6 DEF CopyDescend, TopDoes, Does
  <2>1. old \in OwnFrames
    BY <1>4, <2>0
  <2>2. Copied(h, s, f, Top(h).dst, <<old>> \o Below(h)) /\ place' = place
    BY <1>6 DEF CopyDescend
  <2> HIDE DEF old
  <2>3. <<old>> \o Below(h) \in Seq(OwnFrames) /\ Top(h).dst \in Personal \cup {Root}
    BY <1>2, <2>0, <2>1, Push DEF OwnFrames
  <2> QED
    BY <1>1, <2>0, <2>2, <2>3
<1>7. ASSUME NEW p \in Projects, NEW q \in Projects, CopyProject(h, p, q) PROVE SplitInv'
  <2> DEFINE fr == [Top(h) EXCEPT !.todo = @ \ {p}]
  <2>0. job[h].op = "copy"
    BY <1>7 DEF CopyProject, TopDoes, Does
  <2>1. fr \in OwnFrames
    BY <1>4, <2>0
  <2>2. Becomes(h, WithTop(h, fr)) /\ UNCHANGED <<state, parent>>
    BY <1>7 DEF CopyProject, WithoutItem
  <2>3. Top(h).dst \in Personal
    BY <1>2, <2>0 DEF OwnFrames
  <2>4. \A x \in OwnProjects : place'[x] = place[x] \/ place'[x] \notin Courses
    BY <1>7, <2>3, PlacesApart DEF CopyProject, TypeOK
  <2> HIDE DEF fr
  <2> QED
    BY <1>3, <2>0, <2>1, <2>2, <2>4, ApartStays, SplitBecomes
<1>8. CASE CopyList(h)
  <2> DEFINE fr == Frame(Top(h).at, Top(h).dst, "subs", Subfolders(Top(h).at))
  <2>0. job[h].op = "copy"
    BY <1>8 DEF CopyList, TopDoes, Does
  <2>1. Top(h) \in Frames /\ Top(h).dst \in Personal
    BY <1>2, <2>0 DEF OwnFrames
  <2>2. fr \in Frames /\ fr.dst = Top(h).dst
    BY <2>1, ListsType, Frame1 DEF Frames, Frame
  <2>3. fr \in OwnFrames
    BY <2>1, <2>2 DEF OwnFrames
  <2>4. Becomes(h, WithTop(h, fr)) /\ UNCHANGED <<state, parent, place>>
    BY <1>8 DEF CopyList
  <2> HIDE DEF fr
  <2> QED
    BY <1>a, <1>3, <2>0, <2>3, <2>4, SplitBecomes
<1>9. CASE CopyReturn(h)
  <2>0. job[h].op = "copy"
    BY <1>9 DEF CopyReturn, TopDoes, Does
  <2>1. SplitJob(Returned(h))
    BY <1>2, <1>s, <2>0, StackSplit, NoJobSplit
  <2> QED
    BY <1>9, <1>a, <2>1, SplitBecomes DEF CopyReturn
<1> QED
  BY <1>5, <1>6, <1>7, <1>8, <1>9 DEF CopySteps

LEMMA SplitStep ==
  ASSUME TypeOK, SplitInv, [Next]_vars,
         \A h \in Handlers : /\ MovePut(h) => state[job[h].it] = "here"
                             /\ LiftPut(h) => state[job[h].cur] = "here"
  PROVE  SplitInv'
<1>1. ASSUME NEW h \in Handlers, Dies(h) PROVE SplitInv'
  BY <1>1, ApartStays, NoJobSplit, SplitBecomes DEF Dies
<1>2. ASSUME NEW p \in Projects, DeleteProject(p) PROVE SplitInv'
  <2>1. UNCHANGED <<state, parent, job>> /\ \A q \in OwnProjects : place'[q] = place[q] \/ place'[q] \notin Courses
    BY <1>2, PlacesApart DEF DeleteProject, TypeOK
  <2> QED
    BY <2>1 DEF SplitInv, SplitJob
<1>3. CASE UNCHANGED vars
  BY <1>3 DEF vars, SplitInv, SplitJob
<1> QED
  BY <1>1, <1>2, <1>3, SplitMoves, SplitEmpties, SplitPurges, SplitCopies DEF Next

\* What a deletion of a course does to the student's own projects.
LEMMA PurgesSpare ==
  ASSUME TypeOK, SplitInv, [Next]_vars, NEW p \in OwnProjects, NEW h \in Handlers,
         Does(h, "purge"), job'[h] # job[h], place[p] # "gone"
  PROVE  place'[p] # "gone"
<1>j. job[h] \in Jobs /\ job[h].op = "purge" /\ \A g \in Handlers : job[g] \in Jobs
  BY DEF Does, TypeOK
<1>1. ASSUME NEW g \in Handlers, MovePut(g) PROVE FALSE
  <2>1. g # h /\ ~Checked(h)
    BY <1>1, <1>j DEF MovePut, Does, Checked
  <2> QED
    BY <1>1, <2>1 DEF MovePut
<1>2. ASSUME NEW g \in Handlers, NEW j, Becomes(g, j) PROVE g = h
  BY <1>2 DEF Becomes, TypeOK
<1>3. ASSUME NEW g \in Handlers, MoveSteps(g) \/ EmptySteps(g) \/ CopySteps(g) PROVE FALSE
  <2>1. PICK j : Becomes(g, j)
    BY <1>1, <1>3
       DEF MoveSteps, EmptySteps, CopySteps, CreateCheck, MoveCheck, CreatePut, Climb, Find, PlaceCheck,
           PlaceWrite, EmptyStart, LiftFind, EmptyProject, EmptyList, LiftPut, RemoveFolder, CopyStart,
           CopyDescend, CopyProject, CopyList, CopyReturn, Copied, Goes
  <2>2. g = h
    BY <1>2, <2>1
  <2> QED
    BY <1>j, <1>1, <1>3, <2>2
       DEF MoveSteps, EmptySteps, CopySteps, CreateCheck, MoveCheck, CreatePut, Climb, Find, PlaceCheck,
           PlaceWrite, EmptyStart, LiftFind, EmptyProject, EmptyList, LiftPut, RemoveFolder, CopyStart,
           CopyDescend, CopyProject, CopyList, CopyReturn, Idle, Does, TopDoes
<1>4. ASSUME NEW g \in Handlers, PurgeSteps(g) PROVE place'[p] # "gone"
  <2>1. ASSUME NEW q \in Projects, PurgeProject(g, q) PROVE place'[p] # "gone"
    <3>1. job[g].op = "purge" /\ job[g].stack \in Seq(CourseFrames)
      BY <2>1 DEF PurgeProject, TopDoes, Does, SplitInv, SplitJob
    <3>2. Top(g) \in CourseFrames
      BY <3>1, StackSplit
    <3>3. q \notin OwnProjects
      BY <2>1, <3>2, PlacesApart DEF PurgeProject, CourseFrames
    <3> QED
      BY <2>1, <3>3, PlacesApart DEF PurgeProject, TypeOK
  <2> QED
    BY <1>4, <2>1 DEF PurgeSteps, PurgeStart, PurgeDescend, PurgeScan, PurgeReturn
<1>5. CASE (\E g \in Handlers : Dies(g)) \/ (\E q \in Projects : DeleteProject(q)) \/ UNCHANGED vars
  BY <1>5 DEF Dies, DeleteProject, vars
<1> QED
  BY <1>3, <1>4, <1>5 DEF Next

(* The deletion of a course deletes no project of a student's own, when no *)
(* update writes an item that was deleted after it was read: only the item *)
(* without an id that such an update creates makes delete_course list the  *)
(* projects that are in no folder.                                         *)
THEOREM OwnProjectsStayCorrect == Spec /\ UpdatesInTime => OwnProjectsStay
<1> DEFINE A == \A h \in Handlers : /\ MovePut(h) => state[job[h].it] = "here"
                                    /\ LiftPut(h) => state[job[h].cur] = "here"
           B == \A p \in OwnProjects, h \in Handlers : Does(h, "purge") /\ job'[h] # job[h]
                  /\ place[p] # "gone" => place'[p] # "gone"
<1>1. Init => SplitInv
  BY NoJobSplit, PlacesApart, FolderAssumption DEF Init, SplitInv, Alike
<1>2. TypeOK /\ SplitInv /\ [Next]_vars /\ [A]_vars => SplitInv'
  <2> SUFFICES ASSUME TypeOK, SplitInv, [Next]_vars, [A]_vars PROVE SplitInv'
    OBVIOUS
  <2>1. CASE A
    BY <2>1, SplitStep
  <2>2. CASE UNCHANGED vars
    BY <2>2 DEF vars, SplitInv, SplitJob
  <2> QED
    BY <2>1, <2>2
<1>3. TypeOK /\ SplitInv /\ [Next]_vars => [B]_vars
  BY PurgesSpare
<1>4. UpdatesInTime <=> [][A]_vars
  BY DEF UpdatesInTime
<1>5. OwnProjectsStay <=> [][B]_vars
  BY DEF OwnProjectsStay
<1> HIDE DEF A, B
<1> QED
  BY <1>1, <1>2, <1>3, <1>4, <1>5, TypeCorrect, PTL DEF Spec
=============================================================================

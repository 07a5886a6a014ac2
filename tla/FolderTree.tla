------------------------------ MODULE FolderTree ------------------------------
(***************************************************************************)
(* The folders of a user and the courses, both trees of items that name    *)
(* their parent, and the projects in them.  Requests of several instances  *)
(* of the projects service read and write the items one at a time, so they *)
(* interleave, and any of them may die between two of its steps.           *)
(***************************************************************************)
EXTENDS Naturals, FiniteSets, Sequences

CONSTANTS
  Personal, Courses,              \* ids of personal folders and of courses
  OwnProjects, CourseProjects,
  Editors, Removers,              \* requests that run at once, a bound: the ones that
                                  \* create and move, and that delete and copy
  Root, NoId,                     \* no parent; the id of an item without one
  MaxDepth                        \* how deep a recursion goes before it fails, a bound

Folders == Personal \cup Courses
Projects == OwnProjects \cup CourseProjects
Handlers == Editors \cup Removers

ASSUME FolderAssumption ==
  /\ Personal \cap Courses = {} /\ Folders \cap Projects = {}
  /\ OwnProjects \cap CourseProjects = {}
  /\ Root \notin Folders \cup Projects /\ NoId \notin Folders \cup Projects \cup {Root}
  /\ {"new", "gone"} \cap (Folders \cup {Root, NoId}) = {}   \* no place of a project
  /\ MaxDepth \in Nat \ {0}

VARIABLES
  state,     \* of a folder: free (an id not used yet), here, gone, or ghost
  parent,
  place,     \* the folder of a project, Root, or what it is not in: new, gone
  job,       \* what each handler is doing
  raced,     \* a folder was moved on a check that another move had outdated
  loose      \* what was put into a folder that is gone, or being deleted

vars == <<state, parent, place, job, raced, loose>>

NoJob == [op |-> "idle", it |-> Root, to |-> Root, cur |-> Root,
          clean |-> TRUE, todo |-> {}, stack |-> <<>>]

Init ==
  /\ state = [f \in Folders |-> "free"] /\ parent = [f \in Folders |-> Root]
  /\ place = [p \in Projects |-> "new"]
  /\ job = [h \in Handlers |-> NoJob]
  /\ raced = FALSE /\ loose = {}

Idle(h) == job[h].op = "idle"
Does(h, op) == job[h].op = op
Becomes(h, j) == job' = [job EXCEPT ![h] = j]
Goes(h, op) == Becomes(h, [job[h] EXCEPT !.op = op])

\* What get_folder finds of the parent: a ghost has no key in the index.
Up(f) == IF state[f] = "here" THEN parent[f] ELSE Root

SameTree(x, to) ==
  IF x \in Personal \cup OwnProjects THEN to \in Personal ELSE to \in Courses
Parents(x) ==
  {to \in Folders : state[to] = "here" /\ SameTree(x, to)}
    \cup (IF x \in CourseProjects THEN {} ELSE {Root})

\* Some handler has begun to delete the folder.
Closing(f) ==
  \E h \in Handlers :
    \/ job[h].op \in {"empty", "lift", "lifting"} /\ job[h].it = f
    \/ job[h].op = "purge" /\ \E i \in DOMAIN job[h].stack : job[h].stack[i].at = f

Put(x, to) ==
  loose' = IF to # Root /\ (state[to] # "here" \/ Closing(to))
           THEN loose \cup {x} ELSE loose \ {x}
--------------------------------------------------------------------------------
(* create_folder and create_course.                                        *)

CreateCheck(h, f, to) ==
  /\ Idle(h) /\ h \in Editors /\ state[f] = "free" /\ to \in Parents(f)
  /\ \A g \in Handlers : ~(Does(g, "create") /\ job[g].it = f)
  /\ Becomes(h, [NoJob EXCEPT !.op = "create", !.it = f, !.to = to])
  /\ UNCHANGED <<state, parent, place, raced, loose>>

CreatePut(h) ==
  /\ Does(h, "create") /\ state[job[h].it] = "free"
  /\ state' = [state EXCEPT ![job[h].it] = "here"]
  /\ parent' = [parent EXCEPT ![job[h].it] = job[h].to]
  /\ Put(job[h].it, job[h].to)
  /\ Becomes(h, NoJob)
  /\ UNCHANGED <<place, raced>>
--------------------------------------------------------------------------------
(* update_folder and update_course.  Only the first looks for a cycle.     *)

\* mutant: the walk up the tree is left out
MoveUnchecked(h, f, to) ==
  /\ Idle(h) /\ h \in Editors /\ state[f] = "here" /\ to \in Parents(f)
  /\ f \in Personal => to # f
  /\ Becomes(h, [NoJob EXCEPT !.op = "find", !.it = f, !.to = to])
  /\ UNCHANGED <<state, parent, place, raced, loose>>

MoveCheck(h, f, to) ==
  /\ Idle(h) /\ h \in Editors /\ state[f] = "here" /\ to \in Parents(f)
  /\ f \in Personal => to # f
  /\ Becomes(h, IF f \in Personal /\ to # Root
                 THEN [NoJob EXCEPT !.op = "climb", !.it = f, !.to = to, !.cur = to]
                 ELSE [NoJob EXCEPT !.op = "find", !.it = f, !.to = to])
  /\ UNCHANGED <<state, parent, place, raced, loose>>

\* One turn of _check_folder_cycle.
Climb(h) ==
  /\ Does(h, "climb")
  /\ IF job[h].cur = job[h].it THEN Becomes(h, NoJob)
     ELSE IF Up(job[h].cur) = Root THEN Becomes(h, [job[h] EXCEPT !.op = "find", !.cur = Root])
     ELSE Becomes(h, [job[h] EXCEPT !.cur = Up(job[h].cur)])
  /\ UNCHANGED <<state, parent, place, raced, loose>>

\* The repository reads the item once more.
Find(h) ==
  /\ Does(h, "find")
  /\ IF state[job[h].it] = "here" THEN Goes(h, "put") ELSE Becomes(h, NoJob)
  /\ UNCHANGED <<state, parent, place, raced, loose>>

\* update_item creates the item again when it has gone.
Updated(f, to) ==
  /\ parent' = [parent EXCEPT ![f] = to]
  /\ state' = [state EXCEPT ![f] = IF @ = "here" THEN "here" ELSE "ghost"]
  /\ Put(f, to)

\* A move into another folder that has begun to look for a cycle.
Checked(h) ==
  job[h].op \in {"climb", "find", "put"} /\ job[h].it \in Personal /\ job[h].to # Root

MovePut(h) ==
  /\ Does(h, "put")
  /\ Updated(job[h].it, job[h].to)
  /\ raced' = (raced \/ ~job[h].clean)
  /\ job' = [g \in Handlers |->
       IF g = h THEN NoJob
       ELSE IF Checked(g) /\ job[h].it \in Personal THEN [job[g] EXCEPT !.clean = FALSE]
       ELSE job[g]]
  /\ UNCHANGED place
--------------------------------------------------------------------------------
(* A project is created in a folder, or moved into it.                     *)

PlaceCheck(h, p, to) ==
  /\ Idle(h) /\ h \in Editors /\ place[p] # "gone" /\ to \in Parents(p)
  /\ Becomes(h, [NoJob EXCEPT !.op = "place", !.it = p, !.to = to])
  /\ UNCHANGED <<state, parent, place, raced, loose>>

PlaceWrite(h) ==
  /\ Does(h, "place")
  /\ IF place[job[h].it] = "gone" THEN UNCHANGED <<place, loose>>
     ELSE /\ place' = [place EXCEPT ![job[h].it] = job[h].to]
          /\ Put(job[h].it, job[h].to)
  /\ Becomes(h, NoJob)
  /\ UNCHANGED <<state, parent, raced>>

DeleteProject(p) ==
  /\ place[p] \notin {"new", "gone"}
  /\ place' = [place EXCEPT ![p] = "gone"] /\ loose' = loose \ {p}
  /\ UNCHANGED <<state, parent, job, raced>>
--------------------------------------------------------------------------------
(* delete_folder: what is inside is moved to the root, piece by piece.     *)

ProjectsIn(f) == {p \in Projects : place[p] = f}

\* What list_subfolders returns: a ghost has no id.
Subfolders(f) ==
  IF f \notin Folders \/ state[f] # "here" THEN {}
  ELSE {IF state[g] = "here" THEN g ELSE NoId :
          g \in {g \in Folders : state[g] \in {"here", "ghost"} /\ parent[g] = f}}

EmptyStart(h, f) ==
  /\ Idle(h) /\ h \in Removers /\ f \in Personal /\ state[f] = "here"
  /\ Becomes(h, [NoJob EXCEPT !.op = "empty", !.it = f, !.todo = ProjectsIn(f)])
  /\ UNCHANGED <<state, parent, place, raced, loose>>

EmptyProject(h, p) ==
  /\ Does(h, "empty") /\ p \in job[h].todo
  /\ IF place[p] = "gone" THEN Becomes(h, NoJob) /\ UNCHANGED <<place, loose>>
     ELSE /\ place' = [place EXCEPT ![p] = Root] /\ Put(p, Root)
          /\ Becomes(h, [job[h] EXCEPT !.todo = @ \ {p}])
  /\ UNCHANGED <<state, parent, raced>>

\* mutant: the subfolders are forgotten
EmptyOnlyProjects(h) ==
  /\ Does(h, "empty") /\ job[h].todo = {}
  /\ Goes(h, "lift")
  /\ UNCHANGED <<state, parent, place, raced, loose>>

EmptyList(h) ==
  /\ Does(h, "empty") /\ job[h].todo = {}
  /\ Becomes(h, [job[h] EXCEPT !.op = "lift", !.todo = Subfolders(job[h].it)])
  /\ UNCHANGED <<state, parent, place, raced, loose>>

\* A subfolder that is gone by now, or a ghost, ends the request with an error.
LiftFind(h, g) ==
  /\ Does(h, "lift") /\ g \in job[h].todo
  /\ IF g # NoId /\ state[g] = "here"
     THEN Becomes(h, [job[h] EXCEPT !.op = "lifting", !.cur = g])
     ELSE Becomes(h, NoJob)
  /\ UNCHANGED <<state, parent, place, raced, loose>>

LiftPut(h) ==
  /\ Does(h, "lifting")
  /\ Updated(job[h].cur, Root)
  /\ Becomes(h, [job[h] EXCEPT !.op = "lift", !.cur = Root, !.todo = @ \ {job[h].cur}])
  /\ UNCHANGED <<place, raced>>

\* The repository's delete_folder: an item without an id is not found.
Remove(f) ==
  IF f \in Folders /\ state[f] = "here"
  THEN /\ state' = [state EXCEPT ![f] = "gone"] /\ parent' = [parent EXCEPT ![f] = Root]
       /\ loose' = loose \ {f}
  ELSE UNCHANGED <<state, parent, loose>>

RemoveFolder(h) ==
  /\ Does(h, "lift") /\ job[h].todo = {}
  /\ Remove(job[h].it)
  /\ Becomes(h, NoJob)
  /\ UNCHANGED <<place, raced>>
--------------------------------------------------------------------------------
(* The recursions over a course: a stack of frames.                        *)

Frame(at, dst, step, todo) == [at |-> at, dst |-> dst, step |-> step, todo |-> todo]
Top(h) == job[h].stack[1]
Below(h) == Tail(job[h].stack)
Stacked(h, frames) == [job[h] EXCEPT !.stack = frames]
TopDoes(h, op, step) == Does(h, op) /\ Top(h).step = step
WithTop(h, frame) == Stacked(h, <<frame>> \o Below(h))
WithoutItem(h, x) == WithTop(h, [Top(h) EXCEPT !.todo = @ \ {x}])
Returned(h) == IF Len(job[h].stack) = 1 THEN NoJob ELSE Stacked(h, Below(h))

(* delete_course: subcourses first, then projects, then the folder.        *)

PurgeStart(h, c) ==
  /\ Idle(h) /\ h \in Removers /\ c \in Courses /\ state[c] = "here"
  /\ Becomes(h, [NoJob EXCEPT !.op = "purge",
                              !.stack = <<Frame(c, Root, "subs", Subfolders(c))>>])
  /\ UNCHANGED <<state, parent, place, raced, loose>>

\* mutant: nothing ends the recursion of a course that contains itself
PurgeEndless(h, s) ==
  /\ TopDoes(h, "purge", "subs") /\ s \in Top(h).todo
  /\ Becomes(h, Stacked(h, <<Frame(s, Root, "subs", Subfolders(s)),
                             [Top(h) EXCEPT !.todo = @ \ {s}]>> \o Below(h)))
  /\ UNCHANGED <<state, parent, place, raced, loose>>

PurgeDescend(h, s) ==
  /\ TopDoes(h, "purge", "subs") /\ s \in Top(h).todo
  /\ Len(job[h].stack) < MaxDepth
  /\ Becomes(h, Stacked(h, <<Frame(s, Root, "subs", Subfolders(s)),
                             [Top(h) EXCEPT !.todo = @ \ {s}]>> \o Below(h)))
  /\ UNCHANGED <<state, parent, place, raced, loose>>

\* mutant: subcourses are deleted, what is in them is not
PurgeShallow(h) ==
  /\ TopDoes(h, "purge", "subs") /\ Top(h).todo = {}
  /\ Becomes(h, WithTop(h, Frame(Top(h).at, Root, "projects",
       IF Len(job[h].stack) = 1 THEN ProjectsIn(Top(h).at) ELSE {})))
  /\ UNCHANGED <<state, parent, place, raced, loose>>

\* A scan of all projects whose folder is this one; of an item without id it
\* is that of the projects without a folder.
PurgeScan(h) ==
  /\ TopDoes(h, "purge", "subs") /\ Top(h).todo = {}
  /\ Becomes(h, WithTop(h, Frame(Top(h).at, Root, "projects",
       ProjectsIn(IF Top(h).at = NoId THEN Root ELSE Top(h).at))))
  /\ UNCHANGED <<state, parent, place, raced, loose>>

PurgeProject(h, p) ==
  /\ TopDoes(h, "purge", "projects") /\ p \in Top(h).todo
  /\ place' = [place EXCEPT ![p] = "gone"] /\ loose' = loose \ {p}
  /\ Becomes(h, WithoutItem(h, p))
  /\ UNCHANGED <<state, parent, raced>>

PurgeReturn(h) ==
  /\ TopDoes(h, "purge", "projects") /\ Top(h).todo = {}
  /\ Remove(Top(h).at)
  /\ Becomes(h, Returned(h))
  /\ UNCHANGED <<place, raced>>

(* copy_course_to_user: the folder, then its projects, then its subcourses. *)

\* A frame of the copy of c begins: a folder f is made in the folder to.
Copied(h, c, f, to, below) ==
  /\ state[f] = "free" /\ f \in Personal
  /\ \A g \in Handlers : ~(Does(g, "create") /\ job[g].it = f)
  /\ state' = [state EXCEPT ![f] = "here"] /\ parent' = [parent EXCEPT ![f] = to]
  /\ Put(f, to)
  /\ Becomes(h, [NoJob EXCEPT !.op = "copy",
                   !.stack = <<Frame(c, f, "projects", ProjectsIn(c))>> \o below])

\* The target folder is not looked at: it may be gone.
CopyStart(h, c, f, to) ==
  /\ Idle(h) /\ h \in Removers /\ c \in Courses /\ state[c] = "here"
  /\ to = Root \/ (to \in Personal /\ state[to] \in {"here", "gone"})
  /\ Copied(h, c, f, to, <<>>)
  /\ UNCHANGED <<place, raced>>

CopyProject(h, p, q) ==
  /\ TopDoes(h, "copy", "projects") /\ p \in Top(h).todo
  /\ q \in OwnProjects /\ place[q] = "new"
  /\ place' = [place EXCEPT ![q] = Top(h).dst] /\ Put(q, Top(h).dst)
  /\ Becomes(h, WithoutItem(h, p))
  /\ UNCHANGED <<state, parent, raced>>

CopyList(h) ==
  /\ TopDoes(h, "copy", "projects") /\ Top(h).todo = {}
  /\ Becomes(h, WithTop(h, Frame(Top(h).at, Top(h).dst, "subs", Subfolders(Top(h).at))))
  /\ UNCHANGED <<state, parent, place, raced, loose>>

CopyDescend(h, s, f) ==
  /\ TopDoes(h, "copy", "subs") /\ s \in Top(h).todo /\ s # NoId /\ state[s] = "here"
  /\ Len(job[h].stack) < MaxDepth
  /\ Copied(h, s, f, Top(h).dst, <<[Top(h) EXCEPT !.todo = @ \ {s}]>> \o Below(h))
  /\ UNCHANGED <<place, raced>>

CopyReturn(h) ==
  /\ TopDoes(h, "copy", "subs") /\ Top(h).todo = {}
  /\ Becomes(h, Returned(h))
  /\ UNCHANGED <<state, parent, place, raced, loose>>
--------------------------------------------------------------------------------
\* The request fails, times out or recurses too deeply, or its instance dies.
Dies(h) ==
  /\ ~Idle(h)
  /\ Becomes(h, NoJob)
  /\ UNCHANGED <<state, parent, place, raced, loose>>

Places == Folders \cup {Root}

MoveSteps(h) ==
  \/ \E f \in Folders, to \in Places : CreateCheck(h, f, to) \/ MoveCheck(h, f, to)
  \/ CreatePut(h) \/ Climb(h) \/ Find(h) \/ MovePut(h)
  \/ \E p \in Projects, to \in Places : PlaceCheck(h, p, to)
  \/ PlaceWrite(h)

EmptySteps(h) ==
  \/ \E f \in Folders : EmptyStart(h, f)
  \/ \E g \in Folders \cup {NoId} : LiftFind(h, g)
  \/ \E p \in Projects : EmptyProject(h, p)
  \/ EmptyList(h) \/ LiftPut(h) \/ RemoveFolder(h)

PurgeSteps(h) ==
  \/ \E c \in Folders : PurgeStart(h, c)
  \/ \E s \in Folders \cup {NoId} : PurgeDescend(h, s)
  \/ \E p \in Projects : PurgeProject(h, p)
  \/ PurgeScan(h) \/ PurgeReturn(h)

CopySteps(h) ==
  \/ \E c, f \in Folders, to \in Places : CopyStart(h, c, f, to)
  \/ \E s \in Folders \cup {NoId}, f \in Folders : CopyDescend(h, s, f)
  \/ \E p, q \in Projects : CopyProject(h, p, q)
  \/ CopyList(h) \/ CopyReturn(h)

Next ==
  \/ \E h \in Handlers : MoveSteps(h) \/ EmptySteps(h) \/ PurgeSteps(h) \/ CopySteps(h) \/ Dies(h)
  \/ \E p \in Projects : DeleteProject(p)

Spec == Init /\ [][Next]_vars
--------------------------------------------------------------------------------
Things == Folders \cup Projects
Frames == [at : Folders \cup {NoId}, dst : Places, step : {"subs", "projects"},
           todo : SUBSET (Things \cup {NoId})]
Ops == {"idle", "create", "climb", "find", "put", "place", "empty", "lift", "lifting",
        "purge", "copy"}

Jobs == [op : Ops, it : Things \cup {Root}, to : Places, cur : Places, clean : BOOLEAN,
         todo : SUBSET (Things \cup {NoId}), stack : Seq(Frames)]
StackFits(j) ==
  /\ Len(j.stack) <= MaxDepth
  /\ j.stack = <<>> <=> j.op \notin {"purge", "copy"}
ItFits(j) ==
  /\ j.op \in {"create", "climb", "find", "put", "empty", "lift", "lifting"} => j.it \in Folders
  /\ j.op = "climb" => j.cur \in Folders
  /\ j.op = "place" => j.it \in Projects
  /\ j.op = "lifting" => j.cur \in Folders

TypeOK ==
  /\ state \in [Folders -> {"free", "here", "gone", "ghost"}]
  /\ parent \in [Folders -> Places]
  /\ place \in [Projects -> Places \cup {"new", "gone"}]
  /\ job \in [Handlers -> Jobs] /\ \A h \in Handlers : StackFits(job[h]) /\ ItFits(job[h])
  /\ raced \in BOOLEAN /\ loose \subseteq Things

\* Personal folders form a tree: in every set of them one is not below another
\* of the set.
Acyclic == \A S \in SUBSET Personal : S # {} => \E f \in S : Up(f) \notin S

\* A move alone makes no cycle, whatever else is created, emptied and deleted
\* while it walks up the tree; it takes two moves that overlap.
CycleTakesARace == Acyclic \/ raced

\* Nothing is left in a folder or a course that is gone, except what was put
\* there behind the deletion.
NothingStranded ==
  /\ \A f \in Folders \ loose : state[f] = "here" => Up(f) = Root \/ state[Up(f)] = "here"
  /\ \A p \in Projects \ loose : place[p] \in Folders => state[place[p]] = "here"

\* What the documentation claims, and the code does not do.

\* "Folder moves include cycle detection to prevent A->B->A loops." (projects/README.md:39)
CoursesAcyclic == \A S \in SUBSET Courses : S # {} => \E f \in S : Up(f) \notin S

\* "Students' own copies of course projects are theirs and stay." (folder_routes.py:364)
OwnProjectsStay ==
  [][\A p \in OwnProjects, h \in Handlers : Does(h, "purge") /\ job'[h] # job[h]
       /\ place[p] # "gone" => place'[p] # "gone"]_vars

\* A place of the courses from which no way up leads to f: the place and all
\* that is above it are among some courses without f.
Outside(f, to) ==
  \/ to = Root
  \/ \E S \in SUBSET (Courses \ {f}) : to \in S /\ \A x \in S : Up(x) \in S \cup {Root}

\* What update_course (folder_routes.py:343) does not look at and leaves to the
\* maintainers: no course is put into itself or below itself.
MovesOutside ==
  [][\A h \in Handlers : MovePut(h) /\ job[h].it \in Courses
       => Outside(job[h].it, job[h].to)]_vars

\* What nothing in update_folder (folder_routes.py:179) makes sure of: no folder
\* is moved while another move is between its check and its write.
MovesApart ==
  [][\A h \in Handlers : MovePut(h) /\ job[h].it \in Personal
       => \A g \in Handlers \ {h} : ~Checked(g)]_vars

\* A course lies in no id that is still free.
CoursesKnown == \A x \in Courses : Up(x) = Root \/ (Up(x) \in Folders /\ state[Up(x)] # "free")

\* What nothing in update_item makes sure of: an update finds the folder that
\* was read before it, so that it creates no item without an id.
UpdatesInTime ==
  [][\A h \in Handlers :
       /\ MovePut(h) => state[job[h].it] = "here"
       /\ LiftPut(h) => state[job[h].cur] = "here"]_vars

\* Then courses and what is a student's own never mix: neither is put into the
\* other, a deletion recurses over courses only, a copy fills folders only.
Alike(x, to) ==
  to = Root \/ {x, to} \subseteq Personal \/ {x, to} \subseteq Courses
CourseFrames == [at : Courses, dst : Places, step : {"subs", "projects"},
                 todo : SUBSET (Courses \cup CourseProjects)]
OwnFrames == {f \in Frames : f.dst \in Personal}
SplitJob(j) ==
  /\ j.op \in {"create", "climb", "find", "put"} => Alike(j.it, j.to)
  /\ j.op = "place" /\ j.it \in OwnProjects => j.to \notin Courses
  /\ j.op = "purge" => j.stack \in Seq(CourseFrames)
  /\ j.op = "copy" => j.stack \in Seq(OwnFrames)

SplitInv ==
  /\ \A f \in Folders : state[f] # "ghost" /\ Alike(f, parent[f])
  /\ \A p \in OwnProjects : place[p] \notin Courses
  /\ \A h \in Handlers : SplitJob(job[h])
================================================================================

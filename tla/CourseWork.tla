------------------------------ MODULE CourseWork ------------------------------
(***************************************************************************)
(* Enrolments and submissions of courses in the projects service.  Both    *)
(* are stored twice, under COURSE# and under USER#, and a submission has   *)
(* objects in S3 under a namespace of its own.  Handlers of different      *)
(* instances interleave at every access to the table or to S3, and the     *)
(* deletions (of an account, of a course, of an old submission) run        *)
(* against them and may stop anywhere.                                     *)
(***************************************************************************)
EXTENDS Naturals, FiniteSets

CONSTANTS
  Students, Courses,
  MaxSubs,      \* bound of the submissions of a student to a course
  MaxSaves,     \* bound of the versions of a student's project
  MaxStops,     \* bound of the deletions that stop half way
  Deletions     \* the targets that may be deleted, a bound

ASSUME CourseAssumption ==
  /\ MaxSubs \in Nat /\ MaxSaves \in Nat \ {0} /\ MaxStops \in Nat
  /\ Students \cap Courses = {}
  /\ (Students \cup Courses) \cap (Students \X Courses \X (0 .. MaxSubs)) = {}

\* The enrolment of a student, and the submissions by their number.
Entries == Students \X Courses \X (0 .. MaxSubs)
Submissions == {e \in Entries : e[3] # 0}
Enrolment(e) == <<e[1], e[2], 0>>
Targets == Students \cup Courses \cup Submissions
Keys == (Entries \X {"course", "user"}) \cup (Students \X {"profile"})

VARIABLES
  table,        \* the two copies of an entry: none, full, or bare (a ghost)
  objects,      \* what S3 holds in the namespace of a submission
  frozen,       \* what the item and the snapshot of a submission say
  pc,           \* where submit_project stands
  project,      \* the version of the student's project, 0 when deleted
  enrolling,    \* enrolments checked but not yet written
  reviewing,    \* reviews that have read the item: the copies they will write
  wipe,         \* the deletions under way
  live,         \* students whose profile exists
  old,          \* submissions past the retention time
  stops,        \* deletions that stopped half way
  loose,        \* entries a stopped deletion tore, or written behind a deletion
  escaped       \* those of them that were written behind one

vars == <<table, objects, frozen, pc, project, enrolling, reviewing, wipe, live, old, stops, loose, escaped>>

NoCopies == [course |-> "none", user |-> "none"]
FullCopies == [course |-> "full", user |-> "full"]
NoWipe == [step |-> "no", objs |-> {}, keys |-> {}]

Init ==
  /\ table = [e \in Entries |-> NoCopies]
  /\ objects = [s \in Submissions |-> {}]
  /\ frozen = [s \in Submissions |-> [kind |-> "none", design |-> 0, results |-> 0]]
  /\ pc = [s \in Submissions |-> "idle"]
  /\ project = [u \in Students |-> 1]
  /\ enrolling = {} /\ reviewing = [s \in Submissions |-> {}]
  /\ wipe = [t \in Targets |-> NoWipe]
  /\ live = Students /\ old = {} /\ stops = 0 /\ loose = {} /\ escaped = {}

Covers(t, e) == t \in {e[1], e[2], e}
Covered(e) == \E t \in Targets : Covers(t, e) /\ wipe[t].step # "no"
Exists(c) == wipe[c].step # "done"

\* An entry is written; if it is new and a deletion has already listed what it
\* deletes, or the write brings back what one has deleted, the entry escapes.
Escapes(e, copies) ==
  (Covered(e) /\ copies # table[e]) \/ \E k \in {"course", "user"} : copies[k] = "bare"

Written(e, copies) ==
  /\ table' = [table EXCEPT ![e] = copies]
  /\ loose' = IF Escapes(e, copies) THEN loose \cup {e} ELSE loose
  /\ escaped' = IF Escapes(e, copies) THEN escaped \cup {e} ELSE escaped
--------------------------------------------------------------------------------
(* Enrolment: by an admin, or on the first copy of the course. *)

EnrolCheck(e) ==
  /\ e[3] = 0 /\ Exists(e[2]) /\ table[e].course = "none"
  /\ enrolling' = enrolling \cup {e}
  /\ UNCHANGED <<table, objects, frozen, pc, project, reviewing, wipe, live, old, stops, loose, escaped>>

EnrolWrite(e) ==
  /\ e \in enrolling
  /\ enrolling' = enrolling \ {e}
  /\ Written(e, FullCopies)
  /\ UNCHANGED <<objects, frozen, pc, project, reviewing, wipe, live, old, stops>>

\* mutant: only the copy of the course is deleted
UnenrolHalf(e) ==
  /\ e[3] = 0 /\ Exists(e[2])
  /\ table' = [table EXCEPT ![e].course = "none"]
  /\ UNCHANGED <<objects, frozen, pc, project, enrolling, reviewing, wipe, live, old, stops, loose, escaped>>

Unenrol(e) ==
  /\ e[3] = 0 /\ Exists(e[2])
  /\ table' = [table EXCEPT ![e] = NoCopies]
  /\ UNCHANGED <<objects, frozen, pc, project, enrolling, reviewing, wipe, live, old, stops, loose, escaped>>
--------------------------------------------------------------------------------
(* The student's project changes, or goes. *)

SaveProject(u) ==
  /\ project[u] \in 1 .. (MaxSaves - 1)
  /\ project' = [project EXCEPT ![u] = @ + 1]
  /\ UNCHANGED <<table, objects, frozen, pc, enrolling, reviewing, wipe, live, old, stops, loose, escaped>>

DeleteProject(u) ==
  /\ project[u] # 0
  /\ project' = [project EXCEPT ![u] = 0]
  /\ UNCHANGED <<table, objects, frozen, pc, enrolling, reviewing, wipe, live, old, stops, loose, escaped>>
--------------------------------------------------------------------------------
(* submit_project. *)

SubmitCheck(s) ==
  /\ pc[s] = "idle" /\ table[Enrolment(s)].course # "none"
  /\ pc' = [pc EXCEPT ![s] = "enrolled"]
  /\ UNCHANGED <<table, objects, frozen, project, enrolling, reviewing, wipe, live, old, stops, loose, escaped>>

SubmitRead(s) ==
  /\ pc[s] = "enrolled"
  /\ IF project[s[1]] = 0
     THEN pc' = [pc EXCEPT ![s] = "idle"] /\ UNCHANGED frozen
     ELSE /\ pc' = [pc EXCEPT ![s] = "read"]
          /\ frozen' = [frozen EXCEPT ![s].design = project[s[1]]]
  /\ UNCHANGED <<table, objects, project, enrolling, reviewing, wipe, live, old, stops, loose, escaped>>

\* The project's results as they are now are copied; none if it was deleted.
SubmitCopy(s) ==
  /\ pc[s] = "read"
  /\ pc' = [pc EXCEPT ![s] = "copied"]
  /\ frozen' = [frozen EXCEPT ![s].results = project[s[1]]]
  /\ objects' = [objects EXCEPT ![s] = IF project[s[1]] = 0 THEN {} ELSE {"results"}]
  /\ UNCHANGED <<table, project, enrolling, reviewing, wipe, live, old, stops, loose, escaped>>

SubmitStore(s) ==
  /\ pc[s] = "copied"
  /\ pc' = [pc EXCEPT ![s] = "stored"]
  /\ frozen' = [frozen EXCEPT ![s].kind = "s3"]
  /\ objects' = [objects EXCEPT ![s] = @ \cup {"snapshot"}]
  /\ UNCHANGED <<table, project, enrolling, reviewing, wipe, live, old, stops, loose, escaped>>

\* S3 fails: the item itself will hold the design, and the keys of results.
SubmitInline(s) ==
  /\ pc[s] \in {"read", "copied"}
  /\ pc' = [pc EXCEPT ![s] = "stored"]
  /\ frozen' = [frozen EXCEPT ![s].kind = "inline"]
  /\ UNCHANGED <<table, objects, project, enrolling, reviewing, wipe, live, old, stops, loose, escaped>>

SubmitCreate(s) ==
  /\ pc[s] = "stored"
  /\ pc' = [pc EXCEPT ![s] = "done"]
  /\ Written(s, FullCopies)
  /\ UNCHANGED <<objects, frozen, project, enrolling, reviewing, wipe, live, old, stops>>

SubmitDies(s) ==
  /\ pc[s] \in {"enrolled", "read", "copied", "stored"}
  /\ pc' = [pc EXCEPT ![s] = "died"]
  /\ UNCHANGED <<table, objects, frozen, project, enrolling, reviewing, wipe, live, old, stops, loose, escaped>>

Submit(s) ==
  \/ SubmitCheck(s) \/ SubmitRead(s) \/ SubmitCopy(s) \/ SubmitStore(s)
  \/ SubmitInline(s) \/ SubmitCreate(s) \/ SubmitDies(s)

\* mutant: the results are read from the project's own namespace
DetailOfProject(s) ==
  [design |-> frozen[s].design, results |-> project[s[1]]]

\* What get_submission_detail shows; 0 where it shows nothing.
Detail(s) ==
  IF frozen[s].kind = "inline"
  THEN [design |-> frozen[s].design, results |-> 0]
  ELSE [design |-> IF "snapshot" \in objects[s] THEN frozen[s].design ELSE 0,
        results |-> IF {"snapshot", "results"} \subseteq objects[s] THEN frozen[s].results ELSE 0]
--------------------------------------------------------------------------------
(* review_submission reads the item and updates both copies without a      *)
(* condition: a copy deleted in between comes back bare, without the user  *)
(* and the course. The user of a bare item is unknown.                     *)

ReviewRead(s) ==
  /\ reviewing[s] = {} /\ table[s].course # "none"
  /\ reviewing' = [reviewing EXCEPT ![s] =
       IF table[s].course = "full" THEN {"course", "user"} ELSE {"course"}]
  /\ UNCHANGED <<table, objects, frozen, pc, project, enrolling, wipe, live, old, stops, loose, escaped>>

ReviewWrite(s) ==
  /\ reviewing[s] # {}
  /\ Written(s, [k \in {"course", "user"} |->
       IF k \in reviewing[s] /\ table[s][k] = "none" THEN "bare" ELSE table[s][k]])
  /\ reviewing' = [reviewing EXCEPT ![s] = {}]
  /\ UNCHANGED <<objects, frozen, pc, project, enrolling, wipe, live, old, stops>>
--------------------------------------------------------------------------------
(* The deletions: list the items of a partition, delete the objects of the *)
(* submissions among them, then delete the items and their other copies.   *)

Copies(e, sides) == {e} \X sides

\* mutant: the copy under the course is not found
CopiesOfUserOnly(u, e) == Copies(e, {"user"})

\* The item of the user, and the copy of the course: a bare item names none.
CopiesOfUser(u, e) ==
  Copies(e, IF table[e].user = "bare" THEN {"user"} ELSE {"user", "course"})

\* The item of the course, and the copy of the user: a bare item names none.
CopiesOfCourse(e) ==
  Copies(e, IF table[e].course = "bare" THEN {"course"} ELSE {"user", "course"})

Lists(t) ==
  IF t \in Students THEN {e \in Entries : e[1] = t /\ table[e].user # "none"}
  ELSE {e \in Entries : Covers(t, e) /\ table[e].course # "none"}

KeysOf(t) ==
  IF t \in Students
  THEN (UNION {CopiesOfUser(t, e) : e \in Lists(t)}) \cup {<<t, "profile">>}
  ELSE UNION {CopiesOfCourse(e) : e \in Lists(t)}

\* delete_user_data, delete_course_records, and run_retention for a submission.
WipeStart(t) ==
  /\ wipe[t].step = "no" /\ t \in Deletions
  /\ t \in Students => t \in live
  /\ t \in Submissions => t \in old /\ table[t].course = "full"
  /\ wipe' = [wipe EXCEPT ![t] =
       [step |-> "objects", objs |-> Lists(t) \cap Submissions, keys |-> KeysOf(t)]]
  /\ UNCHANGED <<table, objects, frozen, pc, project, enrolling, reviewing, live, old, stops, loose, escaped>>

WipeObject(t, s) ==
  /\ wipe[t].step = "objects" /\ s \in wipe[t].objs
  /\ objects' = [objects EXCEPT ![s] = {}]
  /\ wipe' = [wipe EXCEPT ![t].objs = @ \ {s}]
  /\ UNCHANGED <<table, frozen, pc, project, enrolling, reviewing, live, old, stops, loose, escaped>>

\* mutant: the items go first
WipeTurnsEarly(t) ==
  /\ wipe[t].step = "objects"
  /\ wipe' = [wipe EXCEPT ![t].step = "items"]
  /\ project' = IF t \in Students THEN [project EXCEPT ![t] = 0] ELSE project
  /\ UNCHANGED <<table, objects, frozen, pc, enrolling, reviewing, live, old, stops, loose, escaped>>

WipeTurns(t) ==
  /\ wipe[t].step = "objects" /\ wipe[t].objs = {}
  /\ wipe' = [wipe EXCEPT ![t].step = "items"]
  /\ project' = IF t \in Students THEN [project EXCEPT ![t] = 0] ELSE project
  /\ UNCHANGED <<table, objects, frozen, pc, enrolling, reviewing, live, old, stops, loose, escaped>>

\* A batch deletes its items one by one, in no order.
WipeItem(t, k) ==
  /\ wipe[t].step = "items" /\ k \in wipe[t].keys
  /\ wipe' = [wipe EXCEPT ![t].keys = @ \ {k}]
  /\ IF k[2] = "profile"
     THEN live' = live \ {k[1]} /\ UNCHANGED table
     ELSE table' = [table EXCEPT ![k[1]][k[2]] = "none"] /\ UNCHANGED live
  /\ UNCHANGED <<objects, frozen, pc, project, enrolling, reviewing, old, stops, loose, escaped>>

\* mutant: the failure is swallowed and the deletion counts as done
WipeGivesUp(t) ==
  /\ wipe[t].step \in {"objects", "items"}
  /\ wipe' = [wipe EXCEPT ![t] = [NoWipe EXCEPT !.step = "done"]]
  /\ UNCHANGED <<table, objects, frozen, pc, project, enrolling, reviewing, live, old, stops, loose, escaped>>

\* mutant: the failure is kept in a state that nothing handles
WipeFailed(t) ==
  /\ wipe[t].step \in {"objects", "items"} /\ stops < MaxStops
  /\ wipe' = [wipe EXCEPT ![t].step = "failed"]
  /\ stops' = stops + 1
  /\ UNCHANGED <<table, objects, frozen, pc, project, enrolling, reviewing, live, old, loose, escaped>>

WipeEnds(t) ==
  /\ wipe[t].step = "items" /\ wipe[t].keys = {}
  /\ wipe' = [wipe EXCEPT ![t].step = "done"]
  /\ UNCHANGED <<table, objects, frozen, pc, project, enrolling, reviewing, live, old, stops, loose, escaped>>

Half(e) == (table[e].course = "none") # (table[e].user = "none")

\* S3 or DynamoDB fails, or the instance dies: the caller may start again.
WipeStops(t) ==
  /\ wipe[t].step \in {"objects", "items"} /\ stops < MaxStops
  /\ wipe' = [wipe EXCEPT ![t] = NoWipe]
  /\ loose' = loose \cup {e \in Entries : Covers(t, e) /\ Half(e)}
  /\ stops' = stops + 1
  /\ UNCHANGED <<table, objects, frozen, pc, project, enrolling, reviewing, live, old, escaped>>

Age(s) ==
  /\ table[s].course = "full"
  /\ old' = old \cup {s}
  /\ UNCHANGED <<table, objects, frozen, pc, project, enrolling, reviewing, wipe, live, stops, loose, escaped>>

WipeStep(t) ==
  \/ \E s \in Submissions : WipeObject(t, s)
  \/ WipeTurns(t) \/ WipeEnds(t)
  \/ \E k \in Keys : WipeItem(t, k)

Next ==
  \/ \E e \in Entries : EnrolCheck(e) \/ EnrolWrite(e) \/ Unenrol(e)
  \/ \E u \in Students : SaveProject(u) \/ DeleteProject(u)
  \/ \E s \in Submissions : Submit(s) \/ ReviewRead(s) \/ ReviewWrite(s) \/ Age(s)
  \/ \E t \in Targets : WipeStart(t) \/ WipeStep(t) \/ WipeStops(t)

Spec == Init /\ [][Next]_vars

\* The retention run is scheduled every day, and an invocation takes its steps
\* until it ends or fails.
Retention(s) == WipeStart(s) \/ WipeStep(s)
FairSpec == Spec /\ \A s \in Submissions : WF_vars(Retention(s))
--------------------------------------------------------------------------------
TypeOK ==
  /\ table \in [Entries -> [{"course", "user"} -> {"none", "full", "bare"}]]
  /\ objects \in [Submissions -> SUBSET {"results", "snapshot"}]
  /\ frozen \in [Submissions -> [kind : {"none", "s3", "inline"},
                                 design : 0 .. MaxSaves, results : 0 .. MaxSaves]]
  /\ pc \in [Submissions -> {"idle", "enrolled", "read", "copied", "stored", "done", "died"}]
  /\ project \in [Students -> 0 .. MaxSaves]
  /\ enrolling \subseteq Entries
  /\ reviewing \in [Submissions -> SUBSET {"course", "user"}]
  /\ wipe \in [Targets -> [step : {"no", "objects", "items", "done"},
                           objs : SUBSET Submissions, keys : SUBSET Keys]]
  /\ live \subseteq Students /\ old \subseteq Submissions
  /\ stops \in 0 .. MaxStops /\ loose \subseteq Entries /\ escaped \subseteq loose

\* A deletion that still has a copy of the entry on its list.
Pending(e) == \E t \in Targets : wipe[t].keys \cap Copies(e, {"course", "user"}) # {}

\* The two copies of an entry exist together, except while a deletion removes
\* them, and except where a deletion stopped between the two, an entry was
\* written behind a deletion, or a review wrote back a copy that was deleted after
\* it had read the item.
PairsAgree == \A e \in Entries \ loose : Half(e) => Pending(e)

\* The copies by which a deletion finds what it covers.
Listing(t) == IF t \in Students THEN "user" ELSE "course"

\* When a deletion has ended no copy is left in the partition it listed, also when
\* it was begun again after one that stopped, and nothing it covers is left in
\* either copy; except what was written behind a deletion or written back by a
\* review, and, of the other copies, those whose own was deleted by a deletion
\* that stopped then: no later one of this kind finds them.
Erased ==
  \A t \in Targets : wipe[t].step = "done" =>
    \A e \in Entries \ escaped : Covers(t, e) =>
      /\ table[e][Listing(t)] = "none"
      /\ e \in loose \/ table[e] = NoCopies \/ Pending(e)

\* Objects in S3 are found again by a deletion, however often one stops: an item
\* still leads to them, or their submission is under way; except those of a
\* submission that died before it was recorded, to which nothing ever leads.
SnapshotReachable ==
  \A s \in Submissions :
    objects[s] # {} => pc[s] \in {"copied", "stored", "died"} \/ table[s] # NoCopies

\* What is shown of a submission never changes, whatever becomes of the project;
\* it can only go.
FrozenStays ==
  [][\A s \in Submissions : table[s].course = "full" /\ table'[s].course = "full" =>
       /\ Detail(s)'.design \in {0, Detail(s).design}
       /\ Detail(s)'.results \in {0, Detail(s).results}]_vars

\* An old submission leaves its course, although a run of the retention may fail.
ExpiredLeaves ==
  \A s \in Submissions : s \in old /\ table[s].course = "full" ~> table[s].course # "full"

\* What the documentation claims, and the code does not do.

\* "Course submissions older than RETENTION_DAYS are deleted (forward and reverse
\* item plus the S3 snapshot)" (retention.py:7).
ExpiredIsGone ==
  \A s \in Submissions : wipe[s].step = "done" => table[s] = NoCopies

\* "Creates a frozen snapshot of the project's current state" (submission_routes.py:128):
\* the design and the results are of one version.
FrozenIsOneState ==
  \A s \in Submissions : table[s].course = "full" /\ Detail(s).results # 0 =>
    Detail(s).results = Detail(s).design

\* "these helpers write both or neither" (transactions.py:5): no half pair at rest.
NoHalfPair == \A e \in Entries : Half(e) => Pending(e)

\* "Delete all data of user_id" (account_service.py:50).
AllDeleted ==
  \A u \in Students : wipe[u].step = "done" =>
    /\ \A e \in Entries : e[1] = u => table[e] = NoCopies \/ Pending(e)
    /\ \A s \in Submissions : s[1] = u /\ pc[s] \in {"done", "died"} => objects[s] = {}
--------------------------------------------------------------------------------
\* Under which circumstances they hold after all.

\* A review brings back no copy that was deleted after it had read the item
\* (submission_repository.py:163 updates both without a condition).
ReviewsInTime ==
  [][\A s \in Submissions : ReviewWrite(s) => \A k \in reviewing[s] : table[s][k] # "none"]_vars

\* Nobody enrols, and no submission is created, behind the listing of a
\* deletion that covers it.
WritesInTime ==
  [][\A e \in Entries : EnrolWrite(e) \/ (e \in Submissions /\ SubmitCreate(e)) => ~Covered(e)]_vars

\* No deletion stops between the two copies of an entry.
StopsWhole == [][\A t \in Targets : WipeStops(t) => \A e \in Entries : Covers(t, e) => ~Half(e)]_vars

\* No submission dies with objects in S3 and no item.
DiesEmpty == [][\A s \in Submissions : SubmitDies(s) => objects[s] = {}]_vars

\* The project is not saved between the reading of its design and the copying
\* of its results.
SavesWait == [][\A s \in Submissions : pc[s] = "read" => ~SaveProject(s[1])]_vars

\* The inductive invariants behind them.

\* The retention run lists both copies of a submission.
ExpiredInv ==
  \A s \in Submissions : wipe[s].step # "no" =>
    /\ pc[s] = "done"
    /\ \A k \in {"course", "user"} : table[s][k] # "none" => <<s, k>> \in wipe[s].keys

\* Results that were copied are of the version of the design.
FrozenInv ==
  \A s \in Submissions :
    /\ pc[s] \in {"idle", "enrolled", "read"} => frozen[s].results = 0
    /\ pc[s] = "read" => project[s[1]] \in {0, frozen[s].design}
    /\ frozen[s].results \in {0, frozen[s].design}

\* Nothing escaped; a submission with one copy, or that died, has no objects.
TidyInv ==
  /\ loose = {}
  /\ \A s \in Submissions : Half(s) \/ pc[s] = "died" => objects[s] = {}
================================================================================

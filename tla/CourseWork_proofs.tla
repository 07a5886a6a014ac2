-------------------------- MODULE CourseWork_proofs --------------------------
(***************************************************************************)
(* Proofs about CourseWork, for every set of students and courses and any  *)
(* number of submissions, versions and interrupted deletions.              *)
(***************************************************************************)
EXTENDS CourseWork, TLAPS

Sides == {"course", "user"}
CopyStates == {"none", "full", "bare"}
Wipes == [step : {"no", "objects", "items", "done"},
          objs : SUBSET Submissions, keys : SUBSET Keys]

LEMMA EntryFacts ==
  /\ Submissions \subseteq Entries
  /\ \A e \in Entries : e[1] \in Students /\ e[2] \in Courses /\ Enrolment(e) \in Entries
  /\ \A s \in Submissions : s[3] # 0
BY CourseAssumption DEF Submissions, Entries, Enrolment

(* What a target covers: a student his entries, a course its own.          *)
LEMMA CoverFacts ==
  ASSUME NEW t \in Targets, NEW e \in Entries
  PROVE  /\ t \in Students => (Covers(t, e) <=> e[1] = t)
         /\ t \in Students => t \notin Submissions /\ t \notin Courses
<1>1. t \in Students => t \notin Courses /\ t \notin Entries
  BY CourseAssumption DEF Entries
<1> QED
  BY <1>1, EntryFacts DEF Covers

LEMMA CopyConstants ==
  NoCopies \in [Sides -> CopyStates] /\ FullCopies \in [Sides -> CopyStates]
<1>1. NoCopies = [k \in Sides |-> "none"] /\ FullCopies = [k \in Sides |-> "full"]
  BY DEF NoCopies, FullCopies, Sides
<1> QED
  BY <1>1 DEF CopyStates

LEMMA WrittenType ==
  ASSUME TypeOK, NEW e \in Entries, NEW copies \in [Sides -> CopyStates], Written(e, copies)
  PROVE  /\ table' \in [Entries -> [Sides -> CopyStates]] /\ loose' \subseteq Entries
         /\ escaped' \subseteq loose'
BY DEF TypeOK, Written, Escapes, Sides, CopyStates

LEMMA KeysOfType ==
  ASSUME NEW t \in Targets
  PROVE  /\ KeysOf(t) \subseteq Keys
         /\ Lists(t) \subseteq Entries
<1>1. Lists(t) \subseteq Entries
  BY DEF Lists
<1>2. \A e \in Entries : /\ CopiesOfUser(t, e) \subseteq Keys
                         /\ CopiesOfCourse(e) \subseteq Keys
  BY DEF CopiesOfUser, CopiesOfCourse, Copies, Keys
<1>3. t \in Students => {<<t, "profile">>} \subseteq Keys
  BY DEF Keys
<1>4. CASE t \in Students
  <2>1. KeysOf(t) = (UNION {CopiesOfUser(t, e) : e \in Lists(t)}) \cup {<<t, "profile">>}
    BY <1>4 DEF KeysOf
  <2>2. UNION {CopiesOfUser(t, e) : e \in Lists(t)} \subseteq Keys
    BY <1>1, <1>2
  <2> QED
    BY <2>1, <2>2, <1>1, <1>3, <1>4
<1>5. CASE t \notin Students
  <2>1. KeysOf(t) = UNION {CopiesOfCourse(e) : e \in Lists(t)}
    BY <1>5 DEF KeysOf
  <2> QED
    BY <2>1, <1>1, <1>2
<1> QED
  BY <1>1, <1>4, <1>5

LEMMA TypeInit == Init => TypeOK
<1> USE EntryFacts
<1> SUFFICES ASSUME Init PROVE TypeOK
  OBVIOUS
<1>1. table \in [Entries -> [{"course", "user"} -> {"none", "full", "bare"}]]
  BY CopyConstants DEF Init, Sides, CopyStates
<1>2. frozen \in [Submissions -> [kind : {"none", "s3", "inline"},
                                  design : 0 .. MaxSaves, results : 0 .. MaxSaves]]
  BY CourseAssumption DEF Init
<1>3. wipe \in [Targets -> Wipes]
  BY DEF Init, NoWipe, Wipes
<1>4. project \in [Students -> 0 .. MaxSaves] /\ stops \in 0 .. MaxStops
  BY CourseAssumption DEF Init
<1> QED
  BY <1>1, <1>2, <1>3, <1>4 DEF Init, TypeOK, Wipes

LEMMA TypeStep == TypeOK /\ [Next]_vars => TypeOK'
<1> SUFFICES ASSUME TypeOK, [Next]_vars PROVE TypeOK'
  OBVIOUS
<1> USE EntryFacts
<1> USE DEF TypeOK
<1>1. ASSUME NEW e \in Entries, EnrolCheck(e) \/ Unenrol(e) PROVE TypeOK'
  <2>1. [table EXCEPT ![e] = NoCopies] \in [Entries -> [{"course", "user"} -> {"none", "full", "bare"}]]
    BY CopyConstants DEF Sides, CopyStates
  <2> QED
    BY <1>1, <2>1 DEF EnrolCheck, Unenrol
<1>2. ASSUME NEW e \in Entries, EnrolWrite(e) PROVE TypeOK'
  BY <1>2, CopyConstants, WrittenType DEF EnrolWrite, Sides, CopyStates
<1>3. ASSUME NEW u \in Students, SaveProject(u) \/ DeleteProject(u) PROVE TypeOK'
  <2>1. \A n \in 1 .. (MaxSaves - 1) : n + 1 \in 0 .. MaxSaves
    BY CourseAssumption
  <2>2. project' \in [Students -> 0 .. MaxSaves]
    BY <1>3, <2>1, CourseAssumption DEF SaveProject, DeleteProject
  <2> QED
    BY <1>3, <2>2 DEF SaveProject, DeleteProject
<1>4. ASSUME NEW s \in Submissions, Submit(s) PROVE TypeOK'
  <2>1. CASE SubmitCheck(s)
    BY <2>1 DEF SubmitCheck
  <2>2. CASE SubmitRead(s)
    <3>1. CASE project[s[1]] = 0
      BY <2>2, <3>1 DEF SubmitRead
    <3>2. CASE project[s[1]] # 0
      <4>0. project[s[1]] \in 0 .. MaxSaves /\
            frozen[s] \in [kind : {"none", "s3", "inline"},
                           design : 0 .. MaxSaves, results : 0 .. MaxSaves]
        OBVIOUS
      <4>1. [frozen[s] EXCEPT !.design = project[s[1]]] \in
              [kind : {"none", "s3", "inline"}, design : 0 .. MaxSaves, results : 0 .. MaxSaves]
        <5> HIDE DEF TypeOK
        <5> QED
          BY <4>0
      <4>2. frozen' = [frozen EXCEPT ![s] = [frozen[s] EXCEPT !.design = project[s[1]]]]
        BY <2>2, <3>2 DEF SubmitRead
      <4>3. pc' \in [Submissions -> {"idle", "enrolled", "read", "copied", "stored", "done", "died"}]
        BY <2>2, <3>2 DEF SubmitRead
      <4> QED
        BY <2>2, <4>1, <4>2, <4>3 DEF SubmitRead
    <3> QED
      BY <3>1, <3>2
  <2>3. CASE SubmitCopy(s)
    BY <2>3 DEF SubmitCopy
  <2>4. CASE SubmitStore(s)
    BY <2>4 DEF SubmitStore
  <2>5. CASE SubmitInline(s)
    BY <2>5 DEF SubmitInline
  <2>6. CASE SubmitCreate(s)
    BY <2>6, CopyConstants, WrittenType DEF SubmitCreate, Sides, CopyStates
  <2>7. CASE SubmitDies(s)
    BY <2>7 DEF SubmitDies
  <2> QED
    BY <1>4, <2>1, <2>2, <2>3, <2>4, <2>5, <2>6, <2>7 DEF Submit
<1>5. ASSUME NEW s \in Submissions, ReviewRead(s) \/ Age(s) PROVE TypeOK'
  <2>1. CASE ReviewRead(s)
    <3>1. reviewing' \in [Submissions -> SUBSET {"course", "user"}]
      BY <2>1 DEF ReviewRead
    <3> QED
      BY <2>1, <3>1 DEF ReviewRead
  <2>2. CASE Age(s)
    BY <2>2 DEF Age
  <2> QED
    BY <1>5, <2>1, <2>2
<1>6. ASSUME NEW s \in Submissions, ReviewWrite(s) PROVE TypeOK'
  <2>1. [k \in {"course", "user"} |-> IF k \in reviewing[s] /\ table[s][k] = "none"
           THEN "bare" ELSE table[s][k]] \in [Sides -> CopyStates]
    BY DEF Sides, CopyStates
  <2>2. /\ table' \in [Entries -> [Sides -> CopyStates]] /\ loose' \subseteq Entries
        /\ escaped' \subseteq loose'
    BY <1>6, <2>1, WrittenType DEF ReviewWrite
  <2> QED
    BY <1>6, <2>2 DEF ReviewWrite, Sides, CopyStates
<1>7. ASSUME NEW t \in Targets, WipeStart(t) PROVE TypeOK'
  <2>1. [step |-> "objects", objs |-> Lists(t) \cap Submissions, keys |-> KeysOf(t)] \in Wipes
    BY KeysOfType DEF Wipes
  <2>2. wipe' \in [Targets -> Wipes]
    BY <1>7, <2>1 DEF WipeStart, Wipes
  <2> QED
    BY <1>7, <2>2 DEF WipeStart, Wipes
<1>8. ASSUME NEW t \in Targets, WipeStep(t) PROVE TypeOK'
  <2>1. ASSUME NEW s \in Submissions, WipeObject(t, s) PROVE TypeOK'
    BY <2>1 DEF WipeObject
  <2>2. CASE WipeTurns(t)
    <3>1. project' \in [Students -> 0 .. MaxSaves]
      BY <2>2, CourseAssumption DEF WipeTurns
    <3>2. wipe' \in [Targets -> Wipes]
      BY <2>2 DEF WipeTurns, Wipes
    <3> QED
      BY <2>2, <3>1, <3>2 DEF WipeTurns, Wipes
  <2>3. CASE WipeEnds(t)
    BY <2>3 DEF WipeEnds
  <2>4. ASSUME NEW k \in Keys, WipeItem(t, k) PROVE TypeOK'
    <3>1. wipe' \in [Targets -> [step : {"no", "objects", "items", "done"},
                                 objs : SUBSET Submissions, keys : SUBSET Keys]]
      <4>1. [wipe[t] EXCEPT !.keys = @ \ {k}] \in
              [step : {"no", "objects", "items", "done"},
               objs : SUBSET Submissions, keys : SUBSET Keys]
        OBVIOUS
      <4> QED
        BY <2>4, <4>1 DEF WipeItem
    <3>2. CASE k[2] = "profile"
      BY <2>4, <3>1, <3>2 DEF WipeItem
    <3>3. CASE k[2] # "profile"
      <4>1. k[1] \in Entries /\ k[2] \in {"course", "user"}
        BY <3>3 DEF Keys
      <4>2. table' \in [Entries -> [{"course", "user"} -> {"none", "full", "bare"}]]
        <5>1. [table[k[1]] EXCEPT ![k[2]] = "none"] \in
                [{"course", "user"} -> {"none", "full", "bare"}]
          BY <4>1
        <5>2. table' = [table EXCEPT ![k[1]] = [table[k[1]] EXCEPT ![k[2]] = "none"]]
          BY <2>4, <3>3 DEF WipeItem
        <5> QED
          BY <4>1, <5>1, <5>2
      <4> QED
        BY <2>4, <3>1, <3>3, <4>2 DEF WipeItem
    <3> QED
      BY <3>2, <3>3
  <2> QED
    BY <1>8, <2>1, <2>2, <2>3, <2>4 DEF WipeStep
<1>9. ASSUME NEW t \in Targets, WipeStops(t) PROVE TypeOK'
  <2>1. stops + 1 \in 0 .. MaxStops
    BY <1>9, CourseAssumption DEF WipeStops
  <2>2. NoWipe \in [step : {"no", "objects", "items", "done"},
                    objs : SUBSET Submissions, keys : SUBSET Keys]
    BY DEF NoWipe
  <2> QED
    BY <1>9, <2>1, <2>2 DEF WipeStops
<1>10. CASE UNCHANGED vars
  BY <1>10 DEF vars
<1> QED
  BY <1>1, <1>2, <1>3, <1>4, <1>5, <1>6, <1>7, <1>8, <1>9, <1>10 DEF Next

(* Every variable keeps its type.                                          *)
THEOREM TypeCorrect == Spec => []TypeOK
<1> QED
  BY TypeInit, TypeStep, PTL DEF Spec

(* The inductive invariant.                                                *)

HasKey(t, e, side) == <<e, side>> \in wipe[t].keys
PendingSide(e, side) == \E t \in Targets : HasKey(t, e, side)

\* What a deletion lists is what it covers, and written long ago; the objects
\* go before the items.
KeysInv ==
  \A t \in Targets :
    /\ wipe[t].step \in {"no", "done"} => wipe[t].keys = {}
    /\ \A e \in Entries : \A side \in Sides : HasKey(t, e, side) =>
         /\ Covers(t, e)
         /\ e \in Submissions =>
              /\ pc[e] = "done"
              /\ objects[e] = {} \/ (wipe[t].step = "objects" /\ e \in wipe[t].objs)

\* A submission has items, and is reviewed, only once its creation has ended;
\* a bare copy is a loose one.
ItemsInv ==
  /\ \A e \in enrolling : e[3] = 0
  /\ \A s \in Submissions :
       /\ table[s] # NoCopies \/ reviewing[s] # {} => pc[s] = "done"
       /\ reviewing[s] # {} => "course" \in reviewing[s]
       /\ objects[s] # {} => pc[s] \in {"copied", "stored", "died"} \/ table[s] # NoCopies
  /\ \A e \in Entries : \A side \in Sides : table[e][side] = "bare" => e \in loose

\* One copy alone is about to be deleted as well.
HalfInv ==
  \A e \in Entries \ loose : \A side \in Sides :
    Half(e) /\ table[e][side] # "none" => PendingSide(e, side)

\* A copy that a deletion covers is on its list, or is the last one and on the
\* list of another.
ListedInv ==
  \A t \in Targets : \A e \in Entries \ loose : \A side \in Sides :
    Covers(t, e) /\ wipe[t].step # "no" /\ table[e][side] # "none" =>
      HasKey(t, e, side) \/ (Half(e) /\ PendingSide(e, side))

IInv == TypeOK /\ KeysInv /\ ItemsInv /\ HalfInv /\ ListedInv

LEMMA CopiesFacts ==
  ASSUME TypeOK, NEW e \in Entries
  PROVE  /\ table[e] \in [Sides -> CopyStates]
         /\ table[e] = NoCopies <=> table[e]["course"] = "none" /\ table[e]["user"] = "none"
         /\ "course" \in Sides /\ "user" \in Sides
<1>1. table[e] \in [Sides -> CopyStates]
  BY DEF TypeOK, Sides, CopyStates
<1>2. NoCopies = [k \in Sides |-> "none"]
  BY DEF NoCopies, Sides
<1> QED
  BY <1>1, <1>2 DEF Sides

LEMMA InitInv == Init => KeysInv /\ ItemsInv /\ HalfInv /\ ListedInv
<1> SUFFICES ASSUME Init PROVE KeysInv /\ ItemsInv /\ HalfInv /\ ListedInv
  OBVIOUS
<1>1. \A e \in Entries : \A side \in Sides : table[e][side] = "none"
  BY DEF Init, NoCopies, Sides
<1>2. \A e \in Entries : table[e] = NoCopies
  BY DEF Init
<1>3. \A t \in Targets : wipe[t].step = "no" /\ wipe[t].keys = {}
  BY DEF Init, NoWipe
<1>4. KeysInv
  BY <1>3 DEF KeysInv, HasKey
<1>5. ItemsInv
  BY <1>1, <1>2, EntryFacts DEF ItemsInv, Init
<1>6. HalfInv /\ ListedInv
  BY <1>1 DEF HalfInv, ListedInv
<1> QED
  BY <1>4, <1>5, <1>6

(* A step that touches no copy of an entry and no deletion.                *)
LEMMA QuietStep ==
  ASSUME IInv, TypeOK', UNCHANGED <<table, wipe, loose>>,
         enrolling' \subseteq {e \in Entries : e[3] = 0},
         \A s \in Submissions :
           /\ pc[s] = "done" => pc'[s] = "done" /\ objects'[s] = objects[s]
           /\ \/ reviewing'[s] = reviewing[s]
              \/ "course" \in reviewing'[s] /\ table[s] # NoCopies
           /\ objects'[s] # {} =>
                \/ objects[s] # {} /\ pc'[s] = pc[s]
                \/ pc'[s] \in {"copied", "stored", "died"}
                \/ pc'[s] = "done" /\ table[s] # NoCopies
  PROVE  IInv'
<1>1. KeysInv'
  BY EntryFacts DEF IInv, KeysInv, HasKey
<1>2. ItemsInv'
  BY DEF IInv, ItemsInv
<1>3. HalfInv'
  BY DEF IInv, HalfInv, PendingSide, HasKey, Half
<1>4. ListedInv'
  BY DEF IInv, ListedInv, PendingSide, HasKey, Half
<1> QED
  BY <1>1, <1>2, <1>3, <1>4 DEF IInv

(* A handler writes an entry, or deletes both its copies.                  *)
LEMMA WriteStep ==
  ASSUME IInv, TypeOK', NEW e \in Entries, NEW copies \in [Sides -> CopyStates],
         Written(e, copies),
         copies["course"] # "none" \/ copies["user"] # "none"
           => \/ \E k \in Sides : copies[k] = "bare"
              \/ copies = table[e] \/ copies = FullCopies,
         e \in Submissions => pc'[e] = "done" /\ copies # NoCopies,
         \A s \in Submissions \ {e} : pc'[s] = pc[s],
         UNCHANGED <<wipe, objects>>, enrolling' \subseteq enrolling,
         \A s \in Submissions : reviewing'[s] \in {{}, reviewing[s]}
  PROVE  IInv'
<1>1. table'[e] = copies /\ \A f \in Entries \ {e} : table'[f] = table[f]
  BY DEF IInv, TypeOK, Written, Escapes
<1>2. /\ loose \subseteq loose' /\ loose' \subseteq loose \cup {e}
      /\ Covered(e) => e \in loose' \/ copies = table[e]
      /\ (\E k \in Sides : copies[k] = "bare") => e \in loose'
  BY DEF Written, Escapes, Sides
<1>3. \A f \in Entries : \A t \in Targets : \A side \in Sides :
        /\ HasKey(t, f, side)' <=> HasKey(t, f, side)
        /\ PendingSide(f, side)' <=> PendingSide(f, side)
  BY DEF HasKey, PendingSide
<1>4. \A f \in Entries \ {e} : Half(f)' <=> Half(f)
  BY <1>1 DEF Half
<1>5. KeysInv'
  BY <1>3, EntryFacts DEF IInv, KeysInv, HasKey
<1>6. ItemsInv'
  <2>1. \A f \in enrolling' : f[3] = 0
    BY DEF IInv, ItemsInv
  <2>2. ASSUME NEW s \in Submissions
        PROVE  /\ table'[s] # NoCopies \/ reviewing'[s] # {} => pc'[s] = "done"
               /\ reviewing'[s] # {} => "course" \in reviewing'[s]
               /\ objects'[s] # {} => pc'[s] \in {"copied", "stored", "died"} \/ table'[s] # NoCopies
    <3>1. CASE s = e
      BY <3>1, <1>1 DEF IInv, ItemsInv
    <3>2. CASE s # e
      BY <3>2, <1>1, EntryFacts DEF IInv, ItemsInv
    <3> QED
      BY <3>1, <3>2
  <2>3. \A f \in Entries : \A side \in Sides : table'[f][side] = "bare" => f \in loose'
    BY <1>1, <1>2 DEF IInv, ItemsInv
  <2> QED
    BY <2>1, <2>2, <2>3 DEF ItemsInv
<1>7. HalfInv'
  <2> SUFFICES ASSUME NEW f \in Entries, f \notin loose', NEW side \in Sides,
                      Half(f)', table'[f][side] # "none"
               PROVE  PendingSide(f, side)
    BY DEF HalfInv, Half, PendingSide, HasKey
  <2>1. CASE f # e
    BY <2>1, <1>1, <1>2, <1>4 DEF IInv, HalfInv
  <2>2. CASE f = e
    <3>1. copies = table[e]
      <4>1. copies # FullCopies
        BY <2>2, <1>1 DEF Half, FullCopies
      <4>2. copies["course"] # "none" \/ copies["user"] # "none"
        BY <2>2, <1>1 DEF Half
      <4> QED
        BY <2>2, <4>1, <4>2, <1>2
    <3> QED
      BY <2>2, <3>1, <1>1, <1>2 DEF IInv, HalfInv, Half
  <2> QED
    BY <2>1, <2>2
<1>8. ListedInv'
  <2> SUFFICES ASSUME NEW t \in Targets, NEW f \in Entries, f \notin loose', NEW side \in Sides,
                      Covers(t, f), wipe[t].step # "no", table'[f][side] # "none"
               PROVE  HasKey(t, f, side) \/ (Half(f)' /\ PendingSide(f, side))
    BY DEF ListedInv, Half, PendingSide, HasKey, Covers
  <2>1. table'[f] = table[f]
    BY <1>1, <1>2 DEF Covered
  <2> QED
    BY <2>1, <1>2 DEF IInv, ListedInv, Half
<1> QED
  BY <1>5, <1>6, <1>7, <1>8 DEF IInv

(* What a deletion lists when it starts.                                   *)
LEMMA StartKeys ==
  ASSUME NEW t \in Targets, NEW e \in Entries, NEW side \in Sides
  PROVE  /\ <<e, side>> \in KeysOf(t) => e \in Lists(t)
         /\ e \in Lists(t) => Covers(t, e)
         /\ e \in Lists(t) /\ table[e]["user"] # "bare" /\ table[e]["course"] # "bare"
              => <<e, side>> \in KeysOf(t)
<1>1. \A f \in Entries :
        /\ <<e, side>> \in CopiesOfUser(t, f) => e = f
        /\ <<e, side>> \in CopiesOfCourse(f) => e = f
  BY DEF CopiesOfUser, CopiesOfCourse, Copies
<1>2. /\ table[e]["user"] # "bare" => <<e, side>> \in CopiesOfUser(t, e)
      /\ table[e]["course"] # "bare" => <<e, side>> \in CopiesOfCourse(e)
  BY DEF CopiesOfUser, CopiesOfCourse, Copies, Sides
<1>3. <<e, side>> # <<t, "profile">>
  BY DEF Sides
<1>4. Lists(t) \subseteq Entries
  BY DEF Lists
<1>5. e \in Lists(t) => Covers(t, e)
  BY DEF Lists, Covers
<1>6. CASE t \in Students
  BY <1>1, <1>2, <1>3, <1>4, <1>5, <1>6 DEF KeysOf
<1>7. CASE t \notin Students
  BY <1>1, <1>2, <1>4, <1>5, <1>7 DEF KeysOf
<1> QED
  BY <1>6, <1>7

LEMMA WipeStartStep ==
  ASSUME IInv, TypeOK', NEW t \in Targets, WipeStart(t)
  PROVE  IInv'
<1>1. /\ wipe'[t].step = "objects" /\ wipe'[t].objs = Lists(t) \cap Submissions
      /\ wipe'[t].keys = KeysOf(t)
      /\ \A v \in Targets \ {t} : wipe'[v] = wipe[v]
      /\ wipe[t].keys = {}
      /\ UNCHANGED <<table, objects, pc, enrolling, reviewing, loose>>
  BY DEF WipeStart, IInv, TypeOK, KeysInv
<1>2. \A e \in Entries : \A side \in Sides : PendingSide(e, side) => PendingSide(e, side)'
  BY <1>1 DEF PendingSide, HasKey
<1>3. \A e \in Lists(t) : table[e] # NoCopies
  BY CopiesFacts DEF Lists, IInv
<1>4. KeysInv'
  <2> SUFFICES ASSUME NEW v \in Targets
               PROVE  /\ wipe'[v].step \in {"no", "done"} => wipe'[v].keys = {}
                      /\ \A e \in Entries : \A side \in Sides : <<e, side>> \in wipe'[v].keys =>
                           /\ Covers(v, e)
                           /\ e \in Submissions =>
                                /\ pc'[e] = "done"
                                /\ objects'[e] = {} \/ (wipe'[v].step = "objects" /\ e \in wipe'[v].objs)
    BY DEF KeysInv, HasKey, Covers
  <2>1. CASE v = t
    BY <2>1, <1>1, <1>3, StartKeys DEF IInv, ItemsInv
  <2>2. CASE v # t
    BY <2>2, <1>1 DEF IInv, KeysInv, HasKey
  <2> QED
    BY <2>1, <2>2
<1>5. ItemsInv'
  BY <1>1 DEF IInv, ItemsInv
<1>6. HalfInv'
  BY <1>1, <1>2 DEF IInv, HalfInv, Half
<1>7. ListedInv'
  <2> SUFFICES ASSUME NEW v \in Targets, NEW e \in Entries, e \notin loose, NEW side \in Sides,
                      Covers(v, e), wipe'[v].step # "no", table[e][side] # "none"
               PROVE  <<e, side>> \in wipe'[v].keys \/ (Half(e) /\ PendingSide(e, side)')
    BY <1>1 DEF ListedInv, Half, HasKey, Covers
  <2>1. CASE v # t
    BY <2>1, <1>1, <1>2 DEF IInv, ListedInv, HasKey
  <2>2. CASE v = t /\ e \in Lists(t)
    <3>1. table[e]["user"] # "bare" /\ table[e]["course"] # "bare"
      BY DEF IInv, ItemsInv, Sides
    <3> QED
      BY <2>2, <3>1, <1>1, StartKeys
  <2>3. CASE v = t /\ e \notin Lists(t)
    <3>1. table[e]["user"] = "none" \/ table[e]["course"] = "none"
      BY <2>3, CoverFacts DEF Lists
    <3>2. Half(e)
      BY <3>1 DEF Half, Sides
    <3> QED
      BY <3>2, <1>2 DEF IInv, HalfInv
  <2> QED
    BY <2>1, <2>2, <2>3
<1> QED
  BY <1>4, <1>5, <1>6, <1>7 DEF IInv

(* The steps of a deletion that keep its list.                             *)
LEMMA WipeObjectsStep ==
  ASSUME IInv, TypeOK', NEW t \in Targets,
         WipeTurns(t) \/ WipeEnds(t) \/ \E s \in Submissions : WipeObject(t, s)
  PROVE  IInv'
<1>1. /\ wipe'[t].keys = wipe[t].keys /\ wipe'[t].step # "no" /\ wipe[t].step # "no"
      /\ wipe'[t].step = "done" => wipe[t].keys = {}
      /\ \A v \in Targets \ {t} : wipe'[v] = wipe[v]
      /\ UNCHANGED <<table, pc, enrolling, reviewing, loose>>
  BY DEF WipeTurns, WipeEnds, WipeObject, IInv, TypeOK
<1>2. \A e \in Submissions :
        /\ objects'[e] = {} \/ objects'[e] = objects[e]
        /\ wipe[t].step = "objects" /\ e \in wipe[t].objs =>
             objects'[e] = {} \/ (wipe'[t].step = "objects" /\ e \in wipe'[t].objs)
  BY DEF WipeTurns, WipeEnds, WipeObject, IInv, TypeOK
<1>3. \A v \in Targets : /\ wipe'[v].keys = wipe[v].keys
                         /\ wipe'[v].step = "no" <=> wipe[v].step = "no"
  BY <1>1
<1>4. KeysInv'
  <2> SUFFICES ASSUME NEW v \in Targets
               PROVE  /\ wipe'[v].step \in {"no", "done"} => wipe[v].keys = {}
                      /\ \A e \in Entries : \A side \in Sides : <<e, side>> \in wipe[v].keys =>
                           /\ Covers(v, e)
                           /\ e \in Submissions =>
                                /\ pc[e] = "done"
                                /\ objects'[e] = {} \/ (wipe'[v].step = "objects" /\ e \in wipe'[v].objs)
    BY <1>1, <1>3 DEF KeysInv, HasKey, Covers
  <2>1. CASE v = t
    BY <2>1, <1>1, <1>2 DEF IInv, KeysInv, HasKey
  <2>2. CASE v # t
    BY <2>2, <1>1, <1>2 DEF IInv, KeysInv, HasKey
  <2> QED
    BY <2>1, <2>2
<1>5. ItemsInv'
  BY <1>1, <1>2 DEF IInv, ItemsInv
<1>6. HalfInv'
  BY <1>1, <1>3 DEF IInv, HalfInv, Half, PendingSide, HasKey
<1>7. ListedInv'
  BY <1>1, <1>3 DEF IInv, ListedInv, Half, PendingSide, HasKey, Covers
<1> QED
  BY <1>4, <1>5, <1>6, <1>7 DEF IInv

LEMMA WipeItemStep ==
  ASSUME IInv, TypeOK', NEW t \in Targets, NEW k \in Keys, WipeItem(t, k)
  PROVE  IInv'
<1>1. /\ wipe'[t].keys = wipe[t].keys \ {k} /\ wipe'[t].step = "items" /\ wipe[t].step = "items"
      /\ \A v \in Targets \ {t} : wipe'[v] = wipe[v]
      /\ UNCHANGED <<objects, pc, enrolling, reviewing, loose>>
      /\ k \in wipe[t].keys
  BY DEF WipeItem, IInv, TypeOK
<1>2. \A v \in Targets : /\ wipe'[v].keys \subseteq wipe[v].keys
                         /\ wipe'[v].step = wipe[v].step
  BY <1>1
<1>3. KeysInv'
  BY <1>1, <1>2 DEF IInv, KeysInv, HasKey, Covers
<1>4. CASE k[2] = "profile"
  <2>1. \A e \in Entries : \A side \in Sides : <<e, side>> # k
    BY <1>4 DEF Sides
  <2>2. table' = table
    BY <1>4 DEF WipeItem
  <2>3. \A v \in Targets : \A e \in Entries : \A side \in Sides :
          <<e, side>> \in wipe'[v].keys <=> <<e, side>> \in wipe[v].keys
    BY <2>1, <1>1
  <2>4. ItemsInv'
    BY <1>1, <2>2 DEF IInv, ItemsInv
  <2>5. HalfInv'
    BY <1>1, <2>2, <2>3 DEF IInv, HalfInv, Half, PendingSide, HasKey
  <2>6. ListedInv'
    BY <1>1, <1>2, <2>2, <2>3 DEF IInv, ListedInv, Half, PendingSide, HasKey, Covers
  <2> QED
    BY <1>3, <2>4, <2>5, <2>6 DEF IInv
<1>5. CASE k[2] # "profile"
  <2>1. PICK e \in Entries, side \in Sides : k = <<e, side>>
    BY <1>5 DEF Keys, Sides
  <2>2. /\ table'[e][side] = "none"
        /\ \A x \in Sides \ {side} : table'[e][x] = table[e][x]
        /\ \A f \in Entries \ {e} : table'[f] = table[f]
    <3>1. table' = [table EXCEPT ![e] = [table[e] EXCEPT ![side] = "none"]]
      BY <1>5, <2>1 DEF WipeItem
    <3> QED
      BY <3>1 DEF IInv, TypeOK, Sides
  <2>3. \A v \in Targets : \A f \in Entries : \A x \in Sides :
          HasKey(v, f, x) /\ ~(v = t /\ f = e /\ x = side) => <<f, x>> \in wipe'[v].keys
    BY <1>1, <2>1 DEF HasKey
  <2>4. HasKey(t, e, side) /\ Covers(t, e)
    BY <1>1, <2>1 DEF HasKey, IInv, KeysInv
  <2>5. \A f \in Entries : \A x \in Sides : table'[f][x] # "none" =>
          /\ ~(f = e /\ x = side) /\ table'[f][x] = table[f][x]
          /\ PendingSide(f, x) => \E v \in Targets : <<f, x>> \in wipe'[v].keys
    BY <2>2, <2>3 DEF PendingSide
  <2>6. ItemsInv'
    <3>1. \A s \in Submissions : objects[s] # {} /\ s = e => FALSE
      BY <2>4, <1>1 DEF IInv, KeysInv
    <3>2. \A f \in Entries : table'[f] # NoCopies => table[f] # NoCopies
      <4> SUFFICES ASSUME NEW f \in Entries, table'[f] # NoCopies PROVE table[f] # NoCopies
        OBVIOUS
      <4>1. CASE f # e
        BY <4>1, <2>2
      <4>2. CASE f = e
        <5>1. table'[e] \in [Sides -> CopyStates]
          BY DEF TypeOK, Sides, CopyStates
        <5>2. PICK x \in Sides : table'[e][x] # "none"
          <6>1. NoCopies = [y \in Sides |-> "none"]
            BY DEF NoCopies, Sides
          <6> QED
            BY <4>2, <5>1, <6>1
        <5>3. table[e][x] # "none"
          BY <5>2, <2>5
        <5> QED
          BY <4>2, <5>3 DEF NoCopies, Sides
      <4> QED
        BY <4>1, <4>2
    <3>3. \A f \in Entries : \A x \in Sides : table'[f][x] = "bare" => f \in loose
      BY <2>5 DEF IInv, ItemsInv
    <3>4. \A s \in Submissions : objects[s] # {} => s # e
      BY <3>1
    <3> QED
      BY <1>1, <2>2, <3>2, <3>3, <3>4, EntryFacts DEF IInv, ItemsInv
  <2>7. \A f \in Entries \ loose : \A x \in Sides : table'[f][x] # "none" /\ f = e =>
          HasKey(t, f, x) \/ (Half(f) /\ PendingSide(f, x))
    BY <2>4, <2>5, <1>1 DEF IInv, ListedInv
  <2>8. HalfInv'
    <3> SUFFICES ASSUME NEW f \in Entries, f \notin loose, NEW x \in Sides,
                        (table'[f]["course"] = "none") # (table'[f]["user"] = "none"),
                        table'[f][x] # "none"
                 PROVE  \E v \in Targets : <<f, x>> \in wipe'[v].keys
      BY <1>1 DEF HalfInv, Half, PendingSide, HasKey
    <3>1. CASE f = e
      <4>1. PendingSide(f, x)
        BY <3>1, <2>7 DEF PendingSide
      <4> QED
        BY <4>1, <2>5
    <3>2. CASE f # e
      <4>1. Half(f) /\ table[f][x] # "none"
        BY <3>2, <2>2 DEF Half
      <4>2. PendingSide(f, x)
        BY <4>1 DEF IInv, HalfInv
      <4> QED
        BY <4>2, <2>5
    <3> QED
      BY <3>1, <3>2
  <2>9. ListedInv'
    <3> SUFFICES ASSUME NEW v \in Targets, NEW f \in Entries, f \notin loose, NEW x \in Sides,
                        Covers(v, f), wipe[v].step # "no", table'[f][x] # "none"
                 PROVE  \/ <<f, x>> \in wipe'[v].keys
                        \/ /\ (table'[f]["course"] = "none") # (table'[f]["user"] = "none")
                           /\ \E w \in Targets : <<f, x>> \in wipe'[w].keys
      BY <1>1, <1>2 DEF ListedInv, Half, PendingSide, HasKey, Covers
    <3>1. table[f][x] # "none" /\ ~(f = e /\ x = side)
      BY <2>5
    <3>2. HasKey(v, f, x) \/ (Half(f) /\ PendingSide(f, x))
      BY <3>1 DEF IInv, ListedInv
    <3>3. CASE HasKey(v, f, x)
      BY <3>1, <3>3, <2>3
    <3>4. CASE Half(f) /\ PendingSide(f, x)
      <4>1. (table'[f]["course"] = "none") # (table'[f]["user"] = "none")
        BY <3>1, <3>4, <2>2 DEF Half, Sides
      <4> QED
        BY <4>1, <3>4, <2>5
    <3> QED
      BY <3>2, <3>3, <3>4
  <2> QED
    BY <1>3, <2>6, <2>8, <2>9 DEF IInv
<1> QED
  BY <1>4, <1>5

LEMMA WipeStopsStep ==
  ASSUME IInv, TypeOK', NEW t \in Targets, WipeStops(t)
  PROVE  IInv'
<1>1. /\ wipe'[t] = NoWipe /\ \A v \in Targets \ {t} : wipe'[v] = wipe[v]
      /\ UNCHANGED <<table, objects, pc, enrolling, reviewing>>
      /\ loose' = loose \cup {e \in Entries : Covers(t, e) /\ Half(e)}
  BY DEF WipeStops, IInv, TypeOK
<1>2. NoWipe.keys = {} /\ NoWipe.step = "no"
  BY DEF NoWipe
<1>3. KeysInv'
  BY <1>1, <1>2 DEF IInv, KeysInv, HasKey, Covers
<1>4. ItemsInv'
  BY <1>1 DEF IInv, ItemsInv
<1>5. \A e \in Entries \ loose' : Half(e) =>
        \A side \in Sides : PendingSide(e, side) => \E v \in Targets : <<e, side>> \in wipe'[v].keys
  <2> SUFFICES ASSUME NEW e \in Entries, e \notin loose', Half(e), NEW side \in Sides,
                      NEW v \in Targets, HasKey(v, e, side)
               PROVE  <<e, side>> \in wipe'[v].keys
    BY DEF PendingSide
  <2>1. ~Covers(t, e) /\ Covers(v, e)
    BY <1>1 DEF IInv, KeysInv
  <2> QED
    BY <2>1, <1>1 DEF HasKey
<1>6. HalfInv'
  BY <1>1, <1>5 DEF IInv, HalfInv, Half, PendingSide, HasKey
<1>7. ListedInv'
  <2> SUFFICES ASSUME NEW v \in Targets, NEW e \in Entries, e \notin loose', NEW side \in Sides,
                      Covers(v, e), wipe'[v].step # "no", table[e][side] # "none"
               PROVE  \/ <<e, side>> \in wipe'[v].keys
                      \/ Half(e) /\ \E w \in Targets : <<e, side>> \in wipe'[w].keys
    BY <1>1 DEF ListedInv, Half, PendingSide, HasKey, Covers
  <2>1. v # t /\ wipe'[v] = wipe[v] /\ e \notin loose
    BY <1>1, <1>2
  <2>2. HasKey(v, e, side) \/ (Half(e) /\ PendingSide(e, side))
    BY <2>1 DEF IInv, ListedInv
  <2> QED
    BY <2>1, <2>2, <1>5 DEF HasKey
<1> QED
  BY <1>3, <1>4, <1>6, <1>7 DEF IInv

LEMMA UnenrolStep ==
  ASSUME IInv, TypeOK', NEW e \in Entries, Unenrol(e)
  PROVE  IInv'
<1>1. /\ e[3] = 0 /\ table'[e] = NoCopies /\ \A f \in Entries \ {e} : table'[f] = table[f]
      /\ UNCHANGED <<objects, pc, enrolling, reviewing, wipe, loose>>
  BY DEF Unenrol, IInv, TypeOK
<1>2. \A side \in Sides : NoCopies[side] = "none"
  BY DEF NoCopies, Sides
<1>3. KeysInv'
  BY <1>1 DEF IInv, KeysInv, HasKey, Covers
<1>4. ItemsInv'
  <2>1. e \notin Submissions
    BY <1>1, EntryFacts
  <2>2. \A f \in Entries : \A side \in Sides : table'[f][side] = "bare" => f \in loose
    BY <1>1, <1>2 DEF IInv, ItemsInv
  <2> QED
    BY <1>1, <2>1, <2>2, EntryFacts DEF IInv, ItemsInv
<1>5. HalfInv'
  <2> SUFFICES ASSUME NEW f \in Entries, f \notin loose, NEW side \in Sides,
                      Half(f)', table'[f][side] # "none"
               PROVE  PendingSide(f, side)
    BY <1>1 DEF HalfInv, Half, PendingSide, HasKey
  <2>1. f # e
    BY <1>1, <1>2
  <2> QED
    BY <2>1, <1>1 DEF IInv, HalfInv, Half
<1>6. ListedInv'
  <2> SUFFICES ASSUME NEW t \in Targets, NEW f \in Entries, f \notin loose, NEW side \in Sides,
                      Covers(t, f), wipe[t].step # "no", table'[f][side] # "none"
               PROVE  HasKey(t, f, side) \/ (Half(f)' /\ PendingSide(f, side))
    BY <1>1 DEF ListedInv, Half, PendingSide, HasKey, Covers
  <2>1. f # e
    BY <1>1, <1>2
  <2> QED
    BY <2>1, <1>1 DEF IInv, ListedInv, Half
<1> QED
  BY <1>3, <1>4, <1>5, <1>6 DEF IInv

(* A step of submit_project that writes no item.                           *)
LEMMA SubmitQuiet ==
  ASSUME IInv, TypeOK', NEW s \in Submissions, Submit(s), ~SubmitCreate(s)
  PROVE  IInv'
<1>1. /\ UNCHANGED <<table, wipe, loose, enrolling, reviewing>>
      /\ \A r \in Submissions \ {s} : pc'[r] = pc[r] /\ objects'[r] = objects[r]
      /\ pc[s] # "done"
      /\ \/ pc'[s] \in {"copied", "stored", "died"}
         \/ objects' = objects /\ pc[s] \in {"idle", "enrolled"}
  <2>1. CASE SubmitCheck(s)
    BY <2>1 DEF SubmitCheck, IInv, TypeOK
  <2>2. CASE SubmitRead(s)
    BY <2>2 DEF SubmitRead, IInv, TypeOK
  <2>3. CASE SubmitCopy(s)
    BY <2>3 DEF SubmitCopy, IInv, TypeOK
  <2>4. CASE SubmitStore(s)
    BY <2>4 DEF SubmitStore, IInv, TypeOK
  <2>5. CASE SubmitInline(s)
    BY <2>5 DEF SubmitInline, IInv, TypeOK
  <2>6. CASE SubmitDies(s)
    BY <2>6 DEF SubmitDies, IInv, TypeOK
  <2> QED
    BY <2>1, <2>2, <2>3, <2>4, <2>5, <2>6 DEF Submit
<1>2. objects[s] # {} => pc[s] \in {"copied", "stored", "died"}
  BY <1>1 DEF IInv, ItemsInv
<1>3. \A r \in Submissions : objects'[r] # {} =>
        \/ objects[r] # {} /\ pc'[r] = pc[r]
        \/ pc'[r] \in {"copied", "stored", "died"}
  BY <1>1, <1>2
<1>4. enrolling' \subseteq {e \in Entries : e[3] = 0}
  BY <1>1 DEF IInv, TypeOK, ItemsInv
<1> QED
  BY <1>1, <1>3, <1>4, QuietStep

LEMMA ReviewWriteStep ==
  ASSUME IInv, TypeOK', NEW s \in Submissions, ReviewWrite(s)
  PROVE  IInv'
<1> DEFINE copies == [k \in Sides |->
       IF k \in reviewing[s] /\ table[s][k] = "none" THEN "bare" ELSE table[s][k]]
<1>1. /\ Written(s, copies)
      /\ reviewing' = [reviewing EXCEPT ![s] = {}] /\ reviewing[s] # {}
      /\ UNCHANGED <<objects, pc, enrolling, wipe>>
  BY DEF ReviewWrite, Sides
<1>2. table[s] \in [Sides -> CopyStates] /\ "course" \in Sides
  BY CopiesFacts, EntryFacts DEF IInv
<1>3. copies \in [Sides -> CopyStates]
  BY <1>2 DEF CopyStates
<1>4. "course" \in reviewing[s] /\ pc[s] = "done"
  BY <1>1 DEF IInv, ItemsInv
<1>5. copies["course"] # "none"
  BY <1>2, <1>4
<1>6. copies # NoCopies
  BY <1>5 DEF NoCopies
<1>7. (\E k \in Sides : copies[k] = "bare") \/ copies = table[s]
  <2> SUFFICES ASSUME \A k \in Sides : copies[k] # "bare" PROVE copies = table[s]
    OBVIOUS
  <2>1. \A k \in Sides : copies[k] = table[s][k]
    OBVIOUS
  <2> QED
    BY <2>1, <1>2, <1>3
<1>8. \A r \in Submissions : reviewing'[r] \in {{}, reviewing[r]}
  BY <1>1 DEF IInv, TypeOK
<1>9. enrolling' \subseteq enrolling /\ \A r \in Submissions : pc'[r] = pc[r]
  BY <1>1
<1> HIDE DEF copies
<1> QED
  BY <1>1, <1>3, <1>4, <1>6, <1>7, <1>8, <1>9, WriteStep, EntryFacts

(* The invariant is inductive.                                             *)
THEOREM CourseInvariant == Spec => []IInv
<1>1. Init => IInv
  BY InitInv, TypeInit DEF IInv
<1>2. IInv /\ [Next]_vars => IInv'
  <2> SUFFICES ASSUME IInv, [Next]_vars PROVE IInv'
    OBVIOUS
  <2> USE EntryFacts
  <2>0. TypeOK'
    BY TypeStep DEF IInv
  <2>1. ASSUME NEW e \in Entries, EnrolCheck(e) PROVE IInv'
    <3>1. enrolling' \subseteq {f \in Entries : f[3] = 0}
      BY <2>1 DEF EnrolCheck, IInv, TypeOK, ItemsInv
    <3> QED
      BY <2>0, <2>1, <3>1, QuietStep DEF EnrolCheck
  <2>2. ASSUME NEW e \in Entries, EnrolWrite(e) PROVE IInv'
    <3>1. e \notin Submissions
      BY <2>2 DEF EnrolWrite, IInv, ItemsInv
    <3> QED
      BY <2>0, <2>2, <3>1, WriteStep, CopyConstants DEF EnrolWrite
  <2>3. ASSUME NEW e \in Entries, Unenrol(e) PROVE IInv'
    BY <2>0, <2>3, UnenrolStep
  <2>4. ASSUME NEW u \in Students, SaveProject(u) \/ DeleteProject(u) PROVE IInv'
    <3>1. UNCHANGED <<table, wipe, loose, enrolling, pc, objects, reviewing>>
      BY <2>4 DEF SaveProject, DeleteProject
    <3>2. enrolling' \subseteq {f \in Entries : f[3] = 0}
      BY <3>1 DEF IInv, TypeOK, ItemsInv
    <3> QED
      BY <2>0, <3>1, <3>2, QuietStep
  <2>5. ASSUME NEW s \in Submissions, Submit(s) PROVE IInv'
    <3>1. CASE ~SubmitCreate(s)
      BY <2>0, <2>5, <3>1, SubmitQuiet
    <3>2. CASE SubmitCreate(s)
      <4>1. FullCopies # NoCopies
        BY DEF FullCopies, NoCopies
      <4>2. pc'[s] = "done" /\ \A r \in Submissions \ {s} : pc'[r] = pc[r]
        BY <3>2 DEF SubmitCreate, IInv, TypeOK
      <4> QED
        BY <2>0, <3>2, <4>1, <4>2, WriteStep, CopyConstants DEF SubmitCreate
    <3> QED
      BY <3>1, <3>2
  <2>6. ASSUME NEW s \in Submissions, ReviewRead(s) PROVE IInv'
    <3>1. \A r \in Submissions :
            reviewing'[r] = reviewing[r] \/ ("course" \in reviewing'[r] /\ table[r] # NoCopies)
      BY <2>6 DEF ReviewRead, IInv, TypeOK, NoCopies
    <3>2. UNCHANGED <<table, wipe, loose, enrolling, pc, objects>>
      BY <2>6 DEF ReviewRead
    <3>3. enrolling' \subseteq {f \in Entries : f[3] = 0}
      BY <3>2 DEF IInv, TypeOK, ItemsInv
    <3> QED
      BY <2>0, <3>1, <3>2, <3>3, QuietStep
  <2>7. ASSUME NEW s \in Submissions, ReviewWrite(s) PROVE IInv'
    BY <2>0, <2>7, ReviewWriteStep
  <2>8. ASSUME NEW s \in Submissions, Age(s) PROVE IInv'
    <3>1. UNCHANGED <<table, wipe, loose, enrolling, pc, objects, reviewing>>
      BY <2>8 DEF Age
    <3>2. enrolling' \subseteq {f \in Entries : f[3] = 0}
      BY <3>1 DEF IInv, TypeOK, ItemsInv
    <3> QED
      BY <2>0, <3>1, <3>2, QuietStep
  <2>9. ASSUME NEW t \in Targets, WipeStart(t) \/ WipeStep(t) \/ WipeStops(t) PROVE IInv'
    BY <2>0, <2>9, WipeStartStep, WipeObjectsStep, WipeItemStep, WipeStopsStep DEF WipeStep
  <2>10. CASE UNCHANGED vars
    <3>1. UNCHANGED <<table, wipe, loose, enrolling, pc, objects, reviewing>>
      BY <2>10 DEF vars
    <3>2. enrolling' \subseteq {f \in Entries : f[3] = 0}
      BY <3>1 DEF IInv, TypeOK, ItemsInv
    <3> QED
      BY <2>0, <3>1, <3>2, QuietStep
  <2> QED
    BY <2>1, <2>2, <2>3, <2>4, <2>5, <2>6, <2>7, <2>8, <2>9, <2>10 DEF Next
<1> QED
  BY <1>1, <1>2, PTL DEF Spec

(* The two copies of an enrolment or a submission exist together, whatever *)
(* interleaves (enrol_user, create_submission, the batch deletions), but   *)
(* for those that a deletion is about to remove, that one which stopped    *)
(* has torn, that were written behind one, or that a review wrote back.    *)
THEOREM CopiesAgree == Spec => []PairsAgree
<1>1. IInv => PairsAgree
  <2> SUFFICES ASSUME IInv, NEW e \in Entries, e \notin loose, Half(e) PROVE Pending(e)
    BY DEF PairsAgree
  <2>1. PICK side \in Sides : table[e][side] # "none"
    BY DEF Half, Sides
  <2>2. PICK t \in Targets : <<e, side>> \in wipe[t].keys
    BY <2>1 DEF IInv, HalfInv, PendingSide, HasKey
  <2> QED
    BY <2>2 DEF Pending, Copies, Sides
<1> QED
  BY <1>1, CourseInvariant, PTL

(* What a deletion covers is on its list by the copy that it lists, until  *)
(* it has deleted that copy.                                               *)
SideInv ==
  \A t \in Targets : \A e \in Entries \ escaped :
    Covers(t, e) /\ wipe[t].step # "no" /\ table[e][Listing(t)] # "none" => HasKey(t, e, Listing(t))

LEMMA SideStep ==
  ASSUME TypeOK, SideInv, [Next]_vars
  PROVE  SideInv'
<1> USE EntryFacts
<1>0. \A t \in Targets : Listing(t) \in Sides
  BY DEF Listing, Sides
<1>1. ASSUME UNCHANGED <<wipe, escaped>>,
             \A e \in Entries : \A k \in Sides : table'[e][k] # "none" => table[e][k] # "none"
      PROVE  SideInv'
  BY <1>0, <1>1 DEF SideInv, HasKey, Covers, Listing
<1>2. ASSUME NEW e \in Entries, NEW copies, Written(e, copies), UNCHANGED wipe PROVE SideInv'
  <2>1. table'[e] = copies /\ \A f \in Entries \ {e} : table'[f] = table[f]
    BY <1>2 DEF TypeOK, Written
  <2>2. escaped \subseteq escaped' /\ (Covered(e) => e \in escaped' \/ copies = table[e])
    BY <1>2 DEF Written, Escapes
  <2> SUFFICES ASSUME NEW t \in Targets, NEW f \in Entries, f \notin escaped', Covers(t, f),
                      wipe[t].step # "no", table'[f][Listing(t)] # "none"
               PROVE  HasKey(t, f, Listing(t))
    BY <1>2 DEF SideInv, HasKey, Covers, Listing
  <2>3. table'[f] = table[f]
    BY <2>1, <2>2 DEF Covered
  <2> QED
    BY <2>2, <2>3 DEF SideInv
<1>3. ASSUME NEW e \in Entries, EnrolCheck(e) \/ EnrolWrite(e) \/ Unenrol(e) PROVE SideInv'
  <2>1. CASE Unenrol(e)
    <3>1. \A f \in Entries : \A k \in Sides : table'[f][k] # "none" => table[f][k] # "none"
      BY <2>1 DEF Unenrol, TypeOK, NoCopies, Sides
    <3> QED
      BY <1>1, <2>1, <3>1 DEF Unenrol
  <2>2. CASE EnrolCheck(e)
    BY <1>1, <2>2 DEF EnrolCheck
  <2>3. CASE EnrolWrite(e)
    BY <1>2, <2>3 DEF EnrolWrite
  <2> QED
    BY <1>3, <2>1, <2>2, <2>3
<1>4. ASSUME NEW u \in Students, SaveProject(u) \/ DeleteProject(u) PROVE SideInv'
  BY <1>1, <1>4 DEF SaveProject, DeleteProject
<1>5. ASSUME NEW s \in Submissions, Submit(s) PROVE SideInv'
  <2>1. CASE SubmitCreate(s)
    BY <1>2, <2>1 DEF SubmitCreate
  <2>2. CASE ~SubmitCreate(s)
    BY <1>1, <1>5, <2>2
       DEF Submit, SubmitCheck, SubmitRead, SubmitCopy, SubmitStore, SubmitInline, SubmitDies
  <2> QED
    BY <2>1, <2>2
<1>6. ASSUME NEW s \in Submissions, ReviewRead(s) \/ ReviewWrite(s) \/ Age(s) PROVE SideInv'
  <2>1. CASE ReviewWrite(s)
    BY <1>2, <2>1 DEF ReviewWrite
  <2>2. CASE ReviewRead(s) \/ Age(s)
    BY <1>1, <2>2 DEF ReviewRead, Age
  <2> QED
    BY <1>6, <2>1, <2>2
<1>7. ASSUME NEW t \in Targets, WipeStart(t) PROVE SideInv'
  <2>1. /\ UNCHANGED <<table, escaped>> /\ wipe'[t].keys = KeysOf(t)
        /\ \A v \in Targets \ {t} : wipe'[v] = wipe[v]
    BY <1>7 DEF WipeStart, TypeOK
  <2>2. ASSUME NEW e \in Entries, Covers(t, e), table[e][Listing(t)] # "none"
        PROVE  <<e, Listing(t)>> \in KeysOf(t)
    <3>1. CASE t \in Students
      <4>1. e \in Lists(t) /\ <<e, "user">> \in CopiesOfUser(t, e)
        BY <2>2, <3>1, CoverFacts DEF Lists, Listing, CopiesOfUser, Copies
      <4> QED
        BY <3>1, <4>1 DEF KeysOf, Listing
    <3>2. CASE t \notin Students
      <4>1. e \in Lists(t) /\ <<e, "course">> \in CopiesOfCourse(e)
        BY <2>2, <3>2 DEF Lists, Listing, CopiesOfCourse, Copies
      <4> QED
        BY <3>2, <4>1 DEF KeysOf, Listing
    <3> QED
      BY <3>1, <3>2
  <2> SUFFICES ASSUME NEW v \in Targets, NEW e \in Entries, e \notin escaped, Covers(v, e),
                      wipe'[v].step # "no", table[e][Listing(v)] # "none"
               PROVE  <<e, Listing(v)>> \in wipe'[v].keys
    BY <2>1 DEF SideInv, HasKey, Covers, Listing
  <2> QED
    BY <2>1, <2>2 DEF SideInv, HasKey
<1>8. ASSUME NEW t \in Targets, WipeStep(t) PROVE SideInv'
  <2>1. CASE (\E s \in Submissions : WipeObject(t, s)) \/ WipeTurns(t) \/ WipeEnds(t)
    <3>1. /\ UNCHANGED <<table, escaped>>
          /\ \A v \in Targets : wipe'[v].keys = wipe[v].keys
                                /\ (wipe'[v].step # "no" => wipe[v].step # "no")
      <4> DEFINE T == [step : {"no", "objects", "items", "done"},
                       objs : SUBSET Submissions, keys : SUBSET Keys]
      <4>1. /\ UNCHANGED <<table, escaped>> /\ wipe[t].step # "no"
            /\ \A v \in Targets \ {t} : wipe'[v] = wipe[v]
        BY <2>1 DEF WipeObject, WipeTurns, WipeEnds, TypeOK
      <4>2. wipe'[t].keys = wipe[t].keys
        <5>1. wipe[t] \in T
          BY DEF TypeOK
        <5>2. CASE \E s \in Submissions : WipeObject(t, s)
          BY <5>1, <5>2 DEF WipeObject, TypeOK
        <5>3. CASE WipeTurns(t)
          BY <5>1, <5>3 DEF WipeTurns, TypeOK
        <5>4. CASE WipeEnds(t)
          BY <5>1, <5>4 DEF WipeEnds, TypeOK
        <5> QED
          BY <2>1, <5>2, <5>3, <5>4
      <4> QED
        BY <4>1, <4>2
    <3> QED
      BY <3>1 DEF SideInv, HasKey, Covers, Listing
  <2>2. ASSUME NEW k \in Keys, WipeItem(t, k) PROVE SideInv'
    <3>1. /\ UNCHANGED escaped /\ wipe'[t].keys = wipe[t].keys \ {k} /\ wipe[t].step = "items"
          /\ \A v \in Targets \ {t} : wipe'[v] = wipe[v]
      BY <2>2 DEF WipeItem, TypeOK
    <3>2. ASSUME NEW e \in Entries, NEW side \in Sides, table'[e][side] # "none"
          PROVE  table[e][side] # "none" /\ k # <<e, side>>
      <4>1. CASE k[2] = "profile"
        BY <2>2, <3>2, <4>1 DEF WipeItem, Sides
      <4>2. CASE k[2] # "profile"
        <5>1. k[1] \in Entries /\ k[2] \in Sides
          BY <4>2 DEF Keys, Sides
        <5>2. table' = [table EXCEPT ![k[1]] = [table[k[1]] EXCEPT ![k[2]] = "none"]]
          BY <2>2, <4>2 DEF WipeItem
        <5>4. CASE k[1] # e
          <6>1. table'[e] = table[e]
            BY <5>2, <5>4 DEF TypeOK
          <6> QED
            BY <3>2, <5>4, <6>1
        <5>5. CASE k[1] = e
          <6>1. table'[e] = [table[e] EXCEPT ![k[2]] = "none"]
            BY <5>1, <5>2, <5>5 DEF TypeOK
          <6>2. table[e] \in [Sides -> {"none", "full", "bare"}]
            BY DEF TypeOK, Sides
          <6>3. k[2] # side /\ table'[e][side] = table[e][side]
            BY <3>2, <5>1, <6>1, <6>2
          <6> QED
            BY <3>2, <6>3
        <5> QED
          BY <5>4, <5>5
      <4> QED
        BY <4>1, <4>2
    <3> SUFFICES ASSUME NEW v \in Targets, NEW e \in Entries, e \notin escaped, Covers(v, e),
                        wipe'[v].step # "no", table'[e][Listing(v)] # "none"
                 PROVE  <<e, Listing(v)>> \in wipe'[v].keys
      BY <3>1 DEF SideInv, HasKey, Covers, Listing
    <3> QED
      BY <1>0, <3>1, <3>2 DEF SideInv, HasKey
  <2> QED
    BY <1>8, <2>1, <2>2 DEF WipeStep
<1>9. ASSUME NEW t \in Targets, WipeStops(t) PROVE SideInv'
  <2>1. /\ UNCHANGED <<table, escaped>> /\ wipe'[t].step = "no"
        /\ \A v \in Targets \ {t} : wipe'[v] = wipe[v]
    BY <1>9 DEF WipeStops, TypeOK, NoWipe
  <2> QED
    BY <2>1 DEF SideInv, HasKey, Covers, Listing
<1>10. CASE UNCHANGED vars
  BY <1>1, <1>10 DEF vars
<1> QED
  BY <1>3, <1>4, <1>5, <1>6, <1>7, <1>8, <1>9, <1>10 DEF Next

LEMMA SidesListed == Spec => []SideInv
<1>1. Init => SideInv
  BY DEF Init, SideInv, NoWipe
<1> QED
  BY <1>1, SideStep, TypeCorrect, PTL DEF Spec

(* A deletion of an account, a course or a submission that has ended has   *)
(* left no copy in the partition it listed, also when it is the repetition *)
(* of one that stopped, and neither copy of what it covers; except of what *)
(* was written behind a deletion or written back by a review, and the      *)
(* other copy of what one that stopped between the two has torn.           *)
THEOREM NothingLeft == Spec => []Erased
<1>1. ASSUME IInv, NEW t \in Targets, wipe[t].step = "done",
             NEW e \in Entries, e \notin loose, Covers(t, e), table[e] # NoCopies
      PROVE  Pending(e)
  <2> USE <1>1
  <2>1. PICK side \in Sides : table[e][side] # "none"
    BY CopiesFacts DEF IInv
  <2>2. ~HasKey(t, e, side)
    BY DEF IInv, KeysInv, HasKey
  <2>3. PendingSide(e, side)
    BY <2>1, <2>2 DEF IInv, ListedInv
  <2> QED
    BY <2>3 DEF PendingSide, HasKey, Pending, Copies, Sides
<1>2. IInv /\ SideInv => Erased
  <2> SUFFICES ASSUME IInv, SideInv, NEW t \in Targets, wipe[t].step = "done",
                      NEW e \in Entries, e \notin escaped, Covers(t, e)
               PROVE  /\ table[e][Listing(t)] = "none"
                      /\ e \in loose \/ table[e] = NoCopies \/ Pending(e)
    BY DEF Erased
  <2>1. ~HasKey(t, e, Listing(t))
    BY DEF IInv, KeysInv, HasKey, Listing, Sides
  <2> QED
    BY <1>1, <2>1 DEF SideInv
<1> QED
  BY <1>2, CourseInvariant, SidesListed, PTL

(* The objects of a submission in S3 stay reachable for a later deletion,  *)
(* however often a deletion stops half way; except when submit_project     *)
(* itself dies between its objects and its item, which leaves them for     *)
(* good (AllDeletedCorrect assumes that it does not).                      *)
THEOREM ObjectsReachable == Spec => []SnapshotReachable
<1>1. IInv => SnapshotReachable
  BY DEF IInv, ItemsInv, SnapshotReachable
<1> QED
  BY <1>1, CourseInvariant, PTL

-----------------------------------------------------------------------------
(* A submission that is stored keeps what it says, and its objects only go. *)
LEMMA StoredStays ==
  ASSUME TypeOK, Next, NEW s \in Submissions, pc[s] = "done"
  PROVE  /\ frozen'[s] = frozen[s]
         /\ objects'[s] = objects[s] \/ objects'[s] = {}
<1>1. ASSUME NEW r \in Submissions, Submit(r) PROVE frozen'[s] = frozen[s] /\ objects'[s] = objects[s]
  <2>1. CASE r = s
    BY <1>1, <2>1 DEF Submit, SubmitCheck, SubmitRead, SubmitCopy, SubmitStore, SubmitInline,
       SubmitCreate, SubmitDies
  <2>2. CASE r # s
    BY <1>1, <2>2 DEF Submit, SubmitCheck, SubmitRead, SubmitCopy, SubmitStore, SubmitInline,
       SubmitCreate, SubmitDies, TypeOK
  <2> QED
    BY <2>1, <2>2
<1>2. ASSUME NEW t \in Targets, WipeStart(t) \/ WipeStep(t) \/ WipeStops(t)
      PROVE  frozen'[s] = frozen[s] /\ (objects'[s] = objects[s] \/ objects'[s] = {})
  <2>1. ASSUME NEW r \in Submissions, WipeObject(t, r) PROVE objects'[s] = objects[s] \/ objects'[s] = {}
    BY <2>1 DEF WipeObject, TypeOK
  <2>2. UNCHANGED frozen
    BY <1>2 DEF WipeStart, WipeStep, WipeObject, WipeTurns, WipeItem, WipeEnds, WipeStops
  <2>3. CASE ~(\E r \in Submissions : WipeObject(t, r))
    BY <1>2, <2>2, <2>3 DEF WipeStart, WipeStep, WipeTurns, WipeItem, WipeEnds, WipeStops
  <2> QED
    BY <2>1, <2>2, <2>3
<1>3. ASSUME NEW e \in Entries, EnrolCheck(e) \/ EnrolWrite(e) \/ Unenrol(e)
      PROVE  UNCHANGED <<frozen, objects>>
  BY <1>3 DEF EnrolCheck, EnrolWrite, Unenrol
<1>4. ASSUME NEW u \in Students, SaveProject(u) \/ DeleteProject(u) PROVE UNCHANGED <<frozen, objects>>
  BY <1>4 DEF SaveProject, DeleteProject
<1>5. ASSUME NEW r \in Submissions, ReviewRead(r) \/ ReviewWrite(r) \/ Age(r)
      PROVE  UNCHANGED <<frozen, objects>>
  BY <1>5 DEF ReviewRead, ReviewWrite, Age
<1> QED
  BY <1>1, <1>2, <1>3, <1>4, <1>5 DEF Next

(* A submission that is stored is not submitted again.                     *)
LEMMA DoneStays ==
  ASSUME TypeOK, Next, NEW s \in Submissions, pc[s] = "done"
  PROVE  pc'[s] = "done"
<1>1. ASSUME NEW r \in Submissions, Submit(r) PROVE pc'[s] = "done"
  BY <1>1 DEF Submit, SubmitCheck, SubmitRead, SubmitCopy, SubmitStore, SubmitInline, SubmitCreate,
     SubmitDies, TypeOK
<1>2. ASSUME NEW t \in Targets, WipeStart(t) \/ WipeStep(t) \/ WipeStops(t) PROVE UNCHANGED pc
  BY <1>2 DEF WipeStart, WipeStep, WipeObject, WipeTurns, WipeItem, WipeEnds, WipeStops
<1>3. ASSUME NEW e \in Entries, EnrolCheck(e) \/ EnrolWrite(e) \/ Unenrol(e) PROVE UNCHANGED pc
  BY <1>3 DEF EnrolCheck, EnrolWrite, Unenrol
<1>4. ASSUME NEW u \in Students, SaveProject(u) \/ DeleteProject(u) PROVE UNCHANGED pc
  BY <1>4 DEF SaveProject, DeleteProject
<1>5. ASSUME NEW r \in Submissions, ReviewRead(r) \/ ReviewWrite(r) \/ Age(r) PROVE UNCHANGED pc
  BY <1>5 DEF ReviewRead, ReviewWrite, Age
<1> QED
  BY <1>1, <1>2, <1>3, <1>4, <1>5 DEF Next

(* What is shown of a submission never changes, whatever becomes of the    *)
(* project it was made of; it can only go (get_submission_detail).         *)
THEOREM SubmissionsFrozen == Spec => FrozenStays
<1>1. IInv /\ [Next]_vars =>
        [\A s \in Submissions : table[s].course = "full" /\ table'[s].course = "full" =>
           /\ Detail(s)'.design \in {0, Detail(s).design}
           /\ Detail(s)'.results \in {0, Detail(s).results}]_vars
  <2> SUFFICES ASSUME IInv, Next, NEW s \in Submissions, table[s].course = "full"
               PROVE  /\ Detail(s)'.design \in {0, Detail(s).design}
                      /\ Detail(s)'.results \in {0, Detail(s).results}
    OBVIOUS
  <2>1. pc[s] = "done"
    BY DEF IInv, ItemsInv, NoCopies
  <2>2. /\ frozen'[s] = frozen[s]
        /\ objects'[s] = objects[s] \/ objects'[s] = {}
    BY <2>1, StoredStays DEF IInv
  <2> QED
    BY <2>2 DEF Detail
<1> QED
  BY <1>1, CourseInvariant, PTL DEF Spec, FrozenStays

-----------------------------------------------------------------------------
(* The claims that the code does not keep, and when it keeps them.         *)

(* What the steps do to one submission s, its copies and its deletion.     *)
LEMMA CopiesMove ==
  ASSUME IInv, Next, NEW s \in Submissions
  PROVE  \/ table'[s] = table[s]
         \/ SubmitCreate(s) /\ table'[s] = FullCopies
         \/ ReviewWrite(s)
         \/ \E t \in Targets, k \in Keys : WipeItem(t, k) /\ k[1] = s
<1> USE EntryFacts DEF IInv, TypeOK
<1>1. ASSUME NEW e \in Entries, EnrolCheck(e) \/ EnrolWrite(e) \/ Unenrol(e)
      PROVE  table'[s] = table[s]
  BY <1>1 DEF EnrolCheck, EnrolWrite, Unenrol, Written, Escapes, ItemsInv
<1>2. ASSUME NEW u \in Students, SaveProject(u) \/ DeleteProject(u) PROVE table'[s] = table[s]
  BY <1>2 DEF SaveProject, DeleteProject
<1>3. ASSUME NEW r \in Submissions, Submit(r)
      PROVE  table'[s] = table[s] \/ (SubmitCreate(s) /\ table'[s] = FullCopies)
  <2>1. CASE SubmitCreate(r)
    BY <2>1 DEF SubmitCreate, Written, Escapes
  <2>2. CASE ~SubmitCreate(r)
    BY <1>3, <2>2 DEF Submit, SubmitCheck, SubmitRead, SubmitCopy, SubmitStore, SubmitInline, SubmitDies
  <2> QED
    BY <2>1, <2>2
<1>4. ASSUME NEW r \in Submissions, ReviewRead(r) \/ ReviewWrite(r) \/ Age(r)
      PROVE  table'[s] = table[s] \/ ReviewWrite(s)
  BY <1>4 DEF ReviewRead, ReviewWrite, Age, Written, Escapes
<1>5. ASSUME NEW t \in Targets, WipeStart(t) \/ WipeStep(t) \/ WipeStops(t)
      PROVE  table'[s] = table[s] \/ \E k \in Keys : WipeItem(t, k) /\ k[1] = s
  <2>1. ASSUME NEW k \in Keys, WipeItem(t, k) PROVE table'[s] = table[s] \/ k[1] = s
    BY <2>1 DEF WipeItem
  <2>2. CASE ~\E k \in Keys : WipeItem(t, k)
    BY <1>5, <2>2 DEF WipeStart, WipeStep, WipeStops, WipeObject, WipeTurns, WipeEnds
  <2> QED
    BY <2>1, <2>2
<1> QED
  BY <1>1, <1>2, <1>3, <1>4, <1>5 DEF Next

(* Objects come to a submission by its own creation only.                  *)
LEMMA ObjectsMove ==
  ASSUME TypeOK, Next, NEW s \in Submissions, pc[s] \in {"done", "died"}
  PROVE  pc'[s] = pc[s] /\ objects'[s] \in {objects[s], {}}
<1>1. ASSUME NEW r \in Submissions, Submit(r) PROVE pc'[s] = pc[s] /\ objects'[s] = objects[s]
  <2>1. r # s
    BY <1>1 DEF Submit, SubmitCheck, SubmitRead, SubmitCopy, SubmitStore, SubmitInline,
       SubmitCreate, SubmitDies
  <2> QED
    BY <1>1, <2>1 DEF Submit, SubmitCheck, SubmitRead, SubmitCopy, SubmitStore, SubmitInline,
       SubmitCreate, SubmitDies, TypeOK
<1>2. ASSUME NEW t \in Targets, WipeStart(t) \/ WipeStep(t) \/ WipeStops(t)
      PROVE  UNCHANGED pc /\ objects'[s] \in {objects[s], {}}
  BY <1>2 DEF WipeStart, WipeStep, WipeObject, WipeTurns, WipeItem, WipeEnds, WipeStops, TypeOK
<1>3. ASSUME NEW e \in Entries, EnrolCheck(e) \/ EnrolWrite(e) \/ Unenrol(e)
      PROVE  UNCHANGED <<pc, objects>>
  BY <1>3 DEF EnrolCheck, EnrolWrite, Unenrol
<1>4. ASSUME NEW u \in Students, SaveProject(u) \/ DeleteProject(u) PROVE UNCHANGED <<pc, objects>>
  BY <1>4 DEF SaveProject, DeleteProject
<1>5. ASSUME NEW r \in Submissions, ReviewRead(r) \/ ReviewWrite(r) \/ Age(r)
      PROVE  UNCHANGED <<pc, objects>>
  BY <1>5 DEF ReviewRead, ReviewWrite, Age
<1> QED
  BY <1>1, <1>2, <1>3, <1>4, <1>5 DEF Next

(* Only SubmitDies leaves a submission dead, and it touches no object.     *)
LEMMA DyingMove ==
  ASSUME TypeOK, Next, NEW s \in Submissions, pc[s] # "died", pc'[s] = "died"
  PROVE  SubmitDies(s) /\ objects' = objects
<1>1. ASSUME NEW r \in Submissions, Submit(r) PROVE SubmitDies(s) /\ objects' = objects
  <2>1. CASE SubmitDies(r)
    BY <2>1 DEF SubmitDies, TypeOK
  <2>2. CASE ~SubmitDies(r)
    BY <1>1, <2>2 DEF Submit, SubmitCheck, SubmitRead, SubmitCopy, SubmitStore, SubmitInline,
       SubmitCreate, TypeOK
  <2> QED
    BY <2>1, <2>2
<1>2. ~\E t \in Targets : WipeStart(t) \/ WipeStep(t) \/ WipeStops(t)
  BY DEF WipeStart, WipeStep, WipeObject, WipeTurns, WipeItem, WipeEnds, WipeStops
<1>3. ~\E e \in Entries : EnrolCheck(e) \/ EnrolWrite(e) \/ Unenrol(e)
  BY DEF EnrolCheck, EnrolWrite, Unenrol
<1>4. ~\E u \in Students : SaveProject(u) \/ DeleteProject(u)
  BY DEF SaveProject, DeleteProject
<1>5. ~\E r \in Submissions : ReviewRead(r) \/ ReviewWrite(r) \/ Age(r)
  BY DEF ReviewRead, ReviewWrite, Age
<1> QED
  BY <1>1, <1>2, <1>3, <1>4, <1>5 DEF Next

(* A review in time changes no copy.                                       *)
LEMMA ReviewLeaves ==
  ASSUME TypeOK, NEW s \in Submissions, ReviewWrite(s),
         \A k \in reviewing[s] : table[s][k] # "none"
  PROVE  UNCHANGED table
<1>1. table[s] \in [{"course", "user"} -> {"none", "full", "bare"}]
  BY EntryFacts DEF TypeOK
<1>2. [k \in {"course", "user"} |->
         IF k \in reviewing[s] /\ table[s][k] = "none" THEN "bare" ELSE table[s][k]] = table[s]
  BY <1>1
<1> QED
  BY <1>2, EntryFacts DEF ReviewWrite, Written, Escapes, TypeOK

(* The deletion of a submission lists both its copies.                     *)
LEMMA ExpiredStep ==
  ASSUME IInv, ExpiredInv, Next,
         \A s \in Submissions : ReviewWrite(s) => \A k \in reviewing[s] : table[s][k] # "none"
  PROVE  ExpiredInv'
<1> USE EntryFacts
<1> SUFFICES ASSUME NEW s \in Submissions, wipe'[s].step # "no"
             PROVE  /\ pc'[s] = "done"
                    /\ \A k \in {"course", "user"} : table'[s][k] # "none" => <<s, k>> \in wipe'[s].keys
  BY DEF ExpiredInv
<1>0. s \in Targets
  BY DEF Targets
<1>1. CASE WipeStart(s)
  <2>1. /\ table[s].course = "full" /\ UNCHANGED <<table, pc>>
        /\ wipe'[s].keys = KeysOf(s)
    BY <1>0, <1>1 DEF WipeStart, IInv, TypeOK
  <2>2. pc[s] = "done"
    BY <2>1 DEF IInv, ItemsInv, NoCopies
  <2>3. s \in Lists(s) /\ s \notin Students
    BY <1>0, <2>1, CoverFacts DEF Lists, Covers
  <2>4. CopiesOfCourse(s) = {s} \X {"user", "course"}
    BY <2>1 DEF CopiesOfCourse, Copies
  <2>5. CopiesOfCourse(s) \subseteq KeysOf(s)
    BY <2>3 DEF KeysOf
  <2> QED
    BY <2>1, <2>2, <2>4, <2>5
<1>2. CASE ~WipeStart(s)
  <2> DEFINE Goes == /\ wipe[s].step # "no"
                     /\ \/ wipe'[s].keys = wipe[s].keys
                        \/ \E k \in Keys : WipeItem(s, k) /\ wipe'[s].keys = wipe[s].keys \ {k}
  <2>1. Goes
    <3>1. ASSUME NEW t \in Targets, WipeStart(t) \/ WipeStep(t) \/ WipeStops(t)
          PROVE  Goes
      <4>1. CASE t # s
        <5>1. wipe'[s] = wipe[s]
          BY <3>1, <4>1, <1>0 DEF WipeStart, WipeStep, WipeStops, WipeObject, WipeTurns, WipeItem,
             WipeEnds, IInv, TypeOK
        <5> QED
          BY <5>1
      <4>2. CASE t = s
        <5>1. ~WipeStops(s)
          BY <1>0 DEF WipeStops, NoWipe, IInv, TypeOK
        <5>2. WipeStep(s)
          BY <3>1, <4>2, <5>1, <1>2
        <5>3. CASE \E r \in Submissions : WipeObject(s, r)
          BY <1>0, <5>3 DEF WipeObject, IInv, TypeOK
        <5>4. CASE WipeTurns(s) \/ WipeEnds(s)
          BY <1>0, <5>4 DEF WipeTurns, WipeEnds, IInv, TypeOK
        <5>5. ASSUME NEW k \in Keys, WipeItem(s, k) PROVE Goes
          BY <1>0, <5>5 DEF WipeItem, IInv, TypeOK
        <5> QED
          BY <5>2, <5>3, <5>4, <5>5 DEF WipeStep
      <4> QED
        BY <4>1, <4>2
    <3>2. CASE UNCHANGED wipe
      BY <3>2
    <3>3. CASE \E e \in Entries : EnrolCheck(e) \/ EnrolWrite(e) \/ Unenrol(e)
      BY <3>2, <3>3 DEF EnrolCheck, EnrolWrite, Unenrol
    <3>4. CASE \E u \in Students : SaveProject(u) \/ DeleteProject(u)
      BY <3>2, <3>4 DEF SaveProject, DeleteProject
    <3>5. CASE \E r \in Submissions : Submit(r) \/ ReviewRead(r) \/ ReviewWrite(r) \/ Age(r)
      BY <3>2, <3>5 DEF Submit, SubmitCheck, SubmitRead, SubmitCopy, SubmitStore, SubmitInline,
         SubmitCreate, SubmitDies, ReviewRead, ReviewWrite, Age
    <3> QED
      BY <3>1, <3>3, <3>4, <3>5 DEF Next
  <2>2. pc[s] = "done"
    BY <2>1 DEF ExpiredInv
  <2>3. pc'[s] = "done"
    BY <2>2, DoneStays DEF IInv
  <2>4. ASSUME NEW k \in {"course", "user"}, table'[s][k] # "none" PROVE <<s, k>> \in wipe'[s].keys
    <3>1. ~SubmitCreate(s)
      BY <2>2 DEF SubmitCreate
    <3>2. table[s][k] # "none"
      <4>1. CASE ReviewWrite(s)
        BY <2>4, <4>1, ReviewLeaves DEF IInv
      <4>2. ASSUME NEW t \in Targets, NEW x \in Keys, WipeItem(t, x), x[1] = s PROVE table[s][k] # "none"
        BY <2>4, <4>2 DEF WipeItem, IInv, TypeOK
      <4> QED
        BY <2>4, <3>1, <4>1, <4>2, CopiesMove
    <3>3. <<s, k>> \in wipe[s].keys
      BY <2>1, <3>2 DEF ExpiredInv
    <3>4. ASSUME NEW x \in Keys, WipeItem(s, x) PROVE x # <<s, k>>
      BY <2>4, <3>4 DEF WipeItem, IInv, TypeOK
    <3> QED
      BY <2>1, <3>3, <3>4
  <2> QED
    BY <2>3, <2>4
<1> QED
  BY <1>1, <1>2

(* "Course submissions older than RETENTION_DAYS are deleted, forward and  *)
(* reverse item" (retention.py): when the run is through with a submission *)
(* both its copies are gone, as long as no review brings one back.         *)
THEOREM ExpiredIsGoneCorrect == Spec /\ ReviewsInTime => []ExpiredIsGone
<1> DEFINE A == \A s \in Submissions : ReviewWrite(s) => \A k \in reviewing[s] : table[s][k] # "none"
<1>1. Init => ExpiredInv
  BY EntryFacts DEF Init, ExpiredInv, NoWipe, Targets
<1>2. IInv /\ ExpiredInv /\ [Next]_vars /\ [A]_vars => ExpiredInv'
  <2> SUFFICES ASSUME IInv, ExpiredInv, [Next]_vars, [A]_vars PROVE ExpiredInv'
    OBVIOUS
  <2>1. CASE UNCHANGED vars
    BY <2>1 DEF vars, ExpiredInv
  <2>2. CASE Next /\ A
    BY <2>2, ExpiredStep
  <2>3. CASE Next /\ ~A
    BY <2>1, <2>3
  <2> QED
    BY <2>1, <2>2, <2>3
<1>3. IInv /\ ExpiredInv => ExpiredIsGone
  <2> SUFFICES ASSUME IInv, ExpiredInv, NEW s \in Submissions, wipe[s].step = "done"
               PROVE  table[s] = NoCopies
    BY DEF ExpiredIsGone
  <2>1. wipe[s].keys = {}
    BY DEF IInv, KeysInv, Targets
  <2>2. table[s]["course"] = "none" /\ table[s]["user"] = "none"
    BY <2>1 DEF ExpiredInv
  <2> QED
    BY <2>2, CopiesFacts, EntryFacts DEF IInv
<1> QED
  BY <1>1, <1>2, <1>3, CourseInvariant, PTL DEF Spec, ReviewsInTime

(* "A frozen snapshot of the project's current state": design and results  *)
(* are of one version (submit_project), as long as the project is not      *)
(* saved between the two reads.                                            *)
LEMMA FrozenStep ==
  ASSUME TypeOK, FrozenInv, Next,
         \A s \in Submissions : pc[s] = "read" => ~SaveProject(s[1])
  PROVE  FrozenInv'
<1> USE EntryFacts DEF TypeOK
<1> SUFFICES ASSUME NEW s \in Submissions
             PROVE  /\ pc'[s] \in {"idle", "enrolled", "read"} => frozen'[s].results = 0
                    /\ pc'[s] = "read" => project'[s[1]] \in {0, frozen'[s].design}
                    /\ frozen'[s].results \in {0, frozen'[s].design}
  BY DEF FrozenInv
<1>0. /\ pc[s] \in {"idle", "enrolled", "read"} => frozen[s].results = 0
      /\ pc[s] = "read" => project[s[1]] \in {0, frozen[s].design}
      /\ frozen[s].results \in {0, frozen[s].design}
      /\ s[1] \in Students
  BY DEF FrozenInv
<1>1. ASSUME UNCHANGED <<pc, frozen>>, pc[s] = "read" => project'[s[1]] \in {0, project[s[1]]}
      PROVE  /\ pc'[s] \in {"idle", "enrolled", "read"} => frozen'[s].results = 0
             /\ pc'[s] = "read" => project'[s[1]] \in {0, frozen'[s].design}
             /\ frozen'[s].results \in {0, frozen'[s].design}
  BY <1>0, <1>1
<1>2. ASSUME NEW u \in Students, SaveProject(u) \/ DeleteProject(u)
      PROVE  UNCHANGED <<pc, frozen>> /\ (pc[s] = "read" => project'[s[1]] \in {0, project[s[1]]})
  BY <1>0, <1>2 DEF SaveProject, DeleteProject
<1>3. ASSUME NEW t \in Targets, WipeStart(t) \/ WipeStep(t) \/ WipeStops(t)
      PROVE  UNCHANGED <<pc, frozen>> /\ project'[s[1]] \in {0, project[s[1]]}
  BY <1>0, <1>3 DEF WipeStart, WipeStep, WipeStops, WipeObject, WipeTurns, WipeItem, WipeEnds
<1>4. ASSUME NEW e \in Entries, EnrolCheck(e) \/ EnrolWrite(e) \/ Unenrol(e)
      PROVE  UNCHANGED <<pc, frozen, project>>
  BY <1>4 DEF EnrolCheck, EnrolWrite, Unenrol
<1>5. ASSUME NEW r \in Submissions, ReviewRead(r) \/ ReviewWrite(r) \/ Age(r)
      PROVE  UNCHANGED <<pc, frozen, project>>
  BY <1>5 DEF ReviewRead, ReviewWrite, Age
<1>6. ASSUME NEW r \in Submissions, Submit(r)
      PROVE  /\ pc'[s] \in {"idle", "enrolled", "read"} => frozen'[s].results = 0
             /\ pc'[s] = "read" => project'[s[1]] \in {0, frozen'[s].design}
             /\ frozen'[s].results \in {0, frozen'[s].design}
  <2>1. CASE r # s
    <3>1. pc'[s] = pc[s] /\ frozen'[s] = frozen[s] /\ UNCHANGED project
      BY <1>6, <2>1 DEF Submit, SubmitCheck, SubmitRead, SubmitCopy, SubmitStore, SubmitInline,
         SubmitCreate, SubmitDies
    <3> QED
      BY <3>1, <1>0
  <2>2. CASE SubmitCheck(s)
    BY <2>2, <1>0 DEF SubmitCheck
  <2>3. CASE SubmitRead(s)
    BY <2>3, <1>0 DEF SubmitRead
  <2>4. CASE SubmitCopy(s)
    BY <2>4, <1>0 DEF SubmitCopy
  <2>5. CASE SubmitStore(s) \/ SubmitInline(s)
    BY <2>5, <1>0 DEF SubmitStore, SubmitInline
  <2>6. CASE SubmitCreate(s) \/ SubmitDies(s)
    BY <2>6, <1>0 DEF SubmitCreate, SubmitDies
  <2> QED
    BY <1>6, <2>1, <2>2, <2>3, <2>4, <2>5, <2>6 DEF Submit
<1> QED
  BY <1>1, <1>2, <1>3, <1>4, <1>5, <1>6 DEF Next

(* What is shown of a submission is of one version, then.                  *)
THEOREM FrozenIsOneStateCorrect == Spec /\ SavesWait => []FrozenIsOneState
<1> DEFINE A == \A s \in Submissions : pc[s] = "read" => ~SaveProject(s[1])
<1>1. Init => FrozenInv
  BY EntryFacts DEF Init, FrozenInv
<1>2. TypeOK /\ FrozenInv /\ [Next]_vars /\ [A]_vars => FrozenInv'
  <2> SUFFICES ASSUME TypeOK, FrozenInv, [Next]_vars, [A]_vars PROVE FrozenInv'
    OBVIOUS
  <2>1. CASE UNCHANGED vars
    BY <2>1 DEF vars, FrozenInv
  <2>2. CASE Next /\ A
    BY <2>2, FrozenStep
  <2> QED
    BY <2>1, <2>2
<1>3. FrozenInv => FrozenIsOneState
  BY DEF FrozenInv, FrozenIsOneState, Detail
<1> QED
  BY <1>1, <1>2, <1>3, TypeCorrect, PTL DEF Spec, SavesWait

(* Nothing escapes the deletions, and nothing is left of what died, if     *)
(* each of the four ways to it is closed.                                  *)
InTime ==
  /\ \A s \in Submissions : ReviewWrite(s) => \A k \in reviewing[s] : table[s][k] # "none"
  /\ \A e \in Entries : EnrolWrite(e) \/ (e \in Submissions /\ SubmitCreate(e)) => ~Covered(e)
  /\ \A t \in Targets : WipeStops(t) => \A e \in Entries : Covers(t, e) => ~Half(e)

LEMMA NothingLoose ==
  ASSUME IInv, loose = {}, Next, InTime
  PROVE  loose' = {}
<1> USE EntryFacts DEF IInv, TypeOK
<1>1. ASSUME NEW e \in Entries, EnrolCheck(e) \/ EnrolWrite(e) \/ Unenrol(e) PROVE loose' = {}
  <2>1. CASE EnrolCheck(e) \/ Unenrol(e)
    BY <2>1 DEF EnrolCheck, Unenrol
  <2>2. CASE EnrolWrite(e)
    <3>1. ~Covered(e)
      BY <2>2 DEF InTime
    <3>2. Written(e, FullCopies)
      BY <2>2 DEF EnrolWrite
    <3> QED
      BY <3>1, <3>2 DEF Written, Escapes, FullCopies
  <2> QED
    BY <1>1, <2>1, <2>2
<1>2. ASSUME NEW u \in Students, SaveProject(u) \/ DeleteProject(u) PROVE loose' = {}
  BY <1>2 DEF SaveProject, DeleteProject
<1>3. ASSUME NEW s \in Submissions, Submit(s) PROVE loose' = {}
  <2>1. CASE SubmitCreate(s)
    <3>1. ~Covered(s)
      BY <2>1 DEF InTime
    <3>2. Written(s, FullCopies)
      BY <2>1 DEF SubmitCreate
    <3> QED
      BY <3>1, <3>2 DEF Written, Escapes, FullCopies
  <2>2. CASE ~SubmitCreate(s)
    BY <1>3, <2>2 DEF Submit, SubmitCheck, SubmitRead, SubmitCopy, SubmitStore, SubmitInline, SubmitDies
  <2> QED
    BY <2>1, <2>2
<1>4. ASSUME NEW s \in Submissions, ReviewRead(s) \/ ReviewWrite(s) \/ Age(s) PROVE loose' = {}
  <2>1. CASE ReviewWrite(s)
    <3> DEFINE copies == [k \in {"course", "user"} |->
                 IF k \in reviewing[s] /\ table[s][k] = "none" THEN "bare" ELSE table[s][k]]
    <3>1. copies = table[s]
      BY <2>1 DEF InTime
    <3>2. \A k \in {"course", "user"} : table[s][k] # "bare"
      BY DEF ItemsInv, Sides
    <3>3. Written(s, copies)
      BY <2>1 DEF ReviewWrite
    <3> QED
      BY <3>1, <3>2, <3>3 DEF Written, Escapes
  <2>2. CASE ReviewRead(s) \/ Age(s)
    BY <2>2 DEF ReviewRead, Age
  <2> QED
    BY <1>4, <2>1, <2>2
<1>5. ASSUME NEW t \in Targets, WipeStart(t) \/ WipeStep(t) \/ WipeStops(t) PROVE loose' = {}
  <2>1. CASE WipeStops(t)
    BY <2>1 DEF WipeStops, InTime
  <2>2. CASE WipeStart(t) \/ WipeStep(t)
    BY <2>2 DEF WipeStart, WipeStep, WipeObject, WipeTurns, WipeItem, WipeEnds
  <2> QED
    BY <1>5, <2>1, <2>2
<1> QED
  BY <1>1, <1>2, <1>3, <1>4, <1>5 DEF Next

LEMMA LooseInvariant == Spec /\ ReviewsInTime /\ WritesInTime /\ StopsWhole => [](loose = {})
<1> DEFINE A == \A s \in Submissions : ReviewWrite(s) => \A k \in reviewing[s] : table[s][k] # "none"
           B == \A e \in Entries :
                  EnrolWrite(e) \/ (e \in Submissions /\ SubmitCreate(e)) => ~Covered(e)
           C == \A t \in Targets : WipeStops(t) => \A e \in Entries : Covers(t, e) => ~Half(e)
<1>1. Init => loose = {}
  BY DEF Init
<1>2. IInv /\ loose = {} /\ [Next]_vars /\ [A]_vars /\ [B]_vars /\ [C]_vars => (loose = {})'
  <2> SUFFICES ASSUME IInv, loose = {}, [Next]_vars, [A]_vars, [B]_vars, [C]_vars PROVE loose' = {}
    OBVIOUS
  <2>1. CASE UNCHANGED vars
    BY <2>1 DEF vars
  <2>2. CASE Next /\ InTime
    BY <2>2, NothingLoose
  <2> QED
    BY <2>1, <2>2 DEF InTime
<1> QED
  BY <1>1, <1>2, CourseInvariant, PTL DEF Spec, ReviewsInTime, WritesInTime, StopsWhole

(* "These helpers write both or neither" (transactions.py): no copy stands *)
(* alone but on the list of a deletion, then.                              *)
THEOREM NoHalfPairCorrect ==
  Spec /\ ReviewsInTime /\ WritesInTime /\ StopsWhole => []NoHalfPair
<1>1. loose = {} /\ PairsAgree => NoHalfPair
  BY DEF PairsAgree, NoHalfPair
<1> QED
  BY <1>1, LooseInvariant, CopiesAgree, PTL

(* A submission that is half deleted has no objects any more: they go      *)
(* before the items.                                                       *)
LEMMA TidyStep ==
  ASSUME IInv, TidyInv, Next, InTime,
         \A s \in Submissions : SubmitDies(s) => objects[s] = {}
  PROVE  TidyInv'
<1> USE EntryFacts
<1>1. loose' = {}
  BY NothingLoose DEF TidyInv
<1>2. ASSUME NEW s \in Submissions, pc'[s] = "died" PROVE objects'[s] = {}
  <2>1. CASE pc[s] = "died"
    <3>1. objects[s] = {}
      BY <2>1 DEF TidyInv
    <3> QED
      BY <2>1, <3>1, ObjectsMove DEF IInv
  <2>2. CASE pc[s] # "died"
    BY <1>2, <2>2, DyingMove DEF IInv
  <2> QED
    BY <2>1, <2>2
<1>3. ASSUME NEW s \in Submissions, Half(s)' PROVE objects'[s] = {}
  <2>1. CASE table'[s] = table[s]
    <3>1. Half(s)
      BY <1>3, <2>1 DEF Half
    <3>2. objects[s] = {}
      BY <3>1 DEF TidyInv
    <3>3. table[s] # NoCopies
      BY <3>1, CopiesFacts DEF Half, NoCopies
    <3>4. pc[s] = "done"
      BY <3>3 DEF IInv, ItemsInv
    <3> QED
      BY <3>2, <3>4, StoredStays DEF IInv
  <2>2. CASE table'[s] = FullCopies
    BY <1>3, <2>2 DEF Half, FullCopies
  <2>3. CASE ReviewWrite(s)
    <3>1. UNCHANGED table
      BY <2>3, ReviewLeaves DEF IInv, InTime
    <3> QED
      BY <2>1, <3>1
  <2>4. ASSUME NEW t \in Targets, NEW k \in Keys, WipeItem(t, k), k[1] = s
        PROVE  objects'[s] = {}
    <3>1. s \notin Students
      BY CourseAssumption DEF Entries
    <3>2. k[2] \in Sides /\ k = <<s, k[2]>>
      BY <2>4, <3>1 DEF Keys, Sides
    <3>3. HasKey(t, s, k[2]) /\ wipe[t].step = "items" /\ objects' = objects
      BY <2>4, <3>2 DEF WipeItem, HasKey
    <3> QED
      BY <3>2, <3>3 DEF IInv, KeysInv
  <2> QED
    BY <2>1, <2>2, <2>3, <2>4, CopiesMove
<1> QED
  BY <1>1, <1>2, <1>3 DEF TidyInv

(* "Delete all data of user_id" (account_service.py): when the deletion of *)
(* an account is through, no entry of its is left but on the list of       *)
(* another deletion, and no object of a submission that has ended, if      *)
(* nothing is written behind a deletion, none stops between two copies and *)
(* no submission dies with objects.                                        *)
THEOREM AllDeletedCorrect ==
  Spec /\ ReviewsInTime /\ WritesInTime /\ StopsWhole /\ DiesEmpty => []AllDeleted
<1> DEFINE A == \A s \in Submissions : ReviewWrite(s) => \A k \in reviewing[s] : table[s][k] # "none"
           B == \A e \in Entries :
                  EnrolWrite(e) \/ (e \in Submissions /\ SubmitCreate(e)) => ~Covered(e)
           C == \A t \in Targets : WipeStops(t) => \A e \in Entries : Covers(t, e) => ~Half(e)
           D == \A s \in Submissions : SubmitDies(s) => objects[s] = {}
<1>1. Init => TidyInv
  BY EntryFacts DEF Init, TidyInv
<1>2. IInv /\ TidyInv /\ [Next]_vars /\ [A]_vars /\ [B]_vars /\ [C]_vars /\ [D]_vars => TidyInv'
  <2> SUFFICES ASSUME IInv, TidyInv, [Next]_vars, [A]_vars, [B]_vars, [C]_vars, [D]_vars
               PROVE  TidyInv'
    OBVIOUS
  <2>1. CASE UNCHANGED vars
    BY <2>1 DEF vars, TidyInv, Half
  <2>2. CASE Next /\ InTime /\ D
    BY <2>2, TidyStep
  <2> QED
    BY <2>1, <2>2 DEF InTime
<1>3. IInv /\ TidyInv /\ Erased => AllDeleted
  <2> SUFFICES ASSUME IInv, TidyInv, Erased, NEW u \in Students, wipe[u].step = "done"
               PROVE  /\ \A e \in Entries : e[1] = u => table[e] = NoCopies \/ Pending(e)
                      /\ \A s \in Submissions : s[1] = u /\ pc[s] \in {"done", "died"} => objects[s] = {}
    BY DEF AllDeleted
  <2>1. u \in Targets
    BY DEF Targets
  <2>2. \A e \in Entries : e[1] = u => table[e] = NoCopies \/ Pending(e)
    <3>1. loose = {} /\ escaped = {}
      BY DEF IInv, TypeOK, TidyInv
    <3>2. \A e \in Entries : e[1] = u => Covers(u, e)
      BY DEF Covers
    <3> QED
      BY <2>1, <3>1, <3>2 DEF Erased
  <2>3. ASSUME NEW s \in Submissions, s[1] = u, pc[s] = "done", objects[s] # {} PROVE FALSE
    <3>1. table[s] # NoCopies
      BY <2>3 DEF IInv, ItemsInv
    <3>2. PICK side \in Sides : table[s][side] # "none"
      BY <3>1, CopiesFacts, EntryFacts DEF IInv
    <3>3. ~HasKey(u, s, side)
      BY <2>1 DEF IInv, KeysInv, HasKey
    <3>4. Covers(u, s) /\ s \notin loose
      BY <2>3 DEF Covers, TidyInv
    <3>5. Half(s)
      BY <2>1, <3>2, <3>3, <3>4, EntryFacts DEF IInv, ListedInv
    <3> QED
      BY <2>3, <3>5 DEF TidyInv
  <2> QED
    BY <2>2, <2>3 DEF TidyInv
<1> QED
  BY <1>1, <1>2, <1>3, CourseInvariant, NothingLeft, PTL
     DEF Spec, ReviewsInTime, WritesInTime, StopsWhole, DiesEmpty
=============================================================================

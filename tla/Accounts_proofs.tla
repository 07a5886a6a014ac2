--------------------------- MODULE Accounts_proofs ---------------------------
(***************************************************************************)
(* Proofs about Accounts, for every number of users, registrations,        *)
(* deletions, edits and processes, and under every fault.                  *)
(***************************************************************************)
EXTENDS Accounts, TLAPS

(* The key of an e-mail is a key.                                          *)
LEMMA KeyType == \A u \in Users : Key(u) \in Keys
BY DEF Key, Keys, Emails

(* The records of the four kinds of process keep their types.              *)
LEMMA SignupGoesType ==
  ASSUME signup \in [Signups -> Signup], NEW s \in Signups, NEW to \in SignupPc, NEW from,
         SignupGoes(s, from, to)
  PROVE  signup' \in [Signups -> Signup]
<1>1. signup[s] \in Signup
  OBVIOUS
<1>2. [signup[s] EXCEPT !.pc = to] = [pc |-> to, first |-> signup[s].first]
  BY <1>1 DEF Signup
<1>3. signup[s].first \in BOOLEAN
  BY <1>1 DEF Signup
<1>4. [signup[s] EXCEPT !.pc = to] \in Signup
  BY <1>2, <1>3 DEF Signup
<1> QED
  BY <1>4 DEF SignupGoes

LEMMA DeletionType ==
  ASSUME NEW x \in Deletion, NEW to \in DeletionPc, NEW left \in SUBSET Item
  PROVE  /\ [x EXCEPT !.pc = to] \in Deletion
         /\ [x EXCEPT !.left = left] \in Deletion
         /\ [x EXCEPT !.pc = to, !.left = left] \in Deletion
BY DEF Deletion

LEMMA EditGoesType ==
  ASSUME edit \in [Edits -> Edit], NEW e \in Edits, NEW to \in EditPc, NEW from,
         EditGoes(e, from, to)
  PROVE  edit' \in [Edits -> Edit]
<1>1. [edit[e] EXCEPT !.pc = to] \in Edit
  BY DEF Edit
<1> QED
  BY <1>1 DEF EditGoes

(* Every step keeps the types.                                              *)
LEMMA TypeStays ==
  ASSUME TypeOK, [Next]_vars
  PROVE  TypeOK'
<1> USE DEF TypeOK, itemVars, procVars
<1>1. ASSUME NEW s \in Signups, SignupStep(s) \/ SignupDies(s) PROVE TypeOK'
  <2>0. s \in Users /\ Key(s) \in Keys
    BY KeyType DEF Users
  <2>1. CASE CountUsers(s)
    <3>1. PICK failed \in IF "scan" \in Faults THEN BOOLEAN ELSE {FALSE} :
            signup' = [signup EXCEPT ![s] =
                         [pc |-> "counted", first |-> failed \/ full \cup partial = {}]]
      BY <2>1 DEF CountUsers
    <3>2. (failed \/ full \cup partial = {}) \in BOOLEAN
      OBVIOUS
    <3>3. [pc |-> "counted", first |-> failed \/ full \cup partial = {}] \in Signup
      BY <3>2 DEF Signup, SignupPc
    <3> QED
      BY <2>1, <3>1, <3>3 DEF CountUsers
  <2>2. CASE ScanEmail(s)
    <3>1. signup' \in [Signups -> Signup]
      BY <2>2, SignupGoesType DEF ScanEmail, SignupPc
    <3> QED
      BY <2>2, <3>1 DEF ScanEmail
  <2>3. CASE ClaimEmail(s)
    <3>1. signup' \in [Signups -> Signup]
      BY <2>3, SignupGoesType DEF ClaimEmail, SignupPc
    <3> QED
      BY <2>0, <2>3, <3>1 DEF ClaimEmail
  <2>4. CASE PutProfile(s)
    <3>1. signup' \in [Signups -> Signup]
      BY <2>4, SignupGoesType DEF PutProfile, SignupPc
    <3> QED
      BY <2>0, <2>4, <3>1 DEF PutProfile, Roles
  <2>5. CASE Unclaim(s)
    <3>1. signup' \in [Signups -> Signup]
      BY <2>5, SignupGoesType DEF Unclaim, SignupPc
    <3> QED
      BY <2>0, <2>5, <3>1 DEF Unclaim
  <2>6. CASE SignupDies(s)
    <3>1. signup' \in [Signups -> Signup]
      BY <2>6, SignupGoesType DEF SignupDies, SignupPc
    <3> QED
      BY <2>6, <3>1 DEF SignupDies
  <2> QED
    BY <1>1, <2>1, <2>2, <2>3, <2>4, <2>5, <2>6 DEF SignupStep
<1>2. ASSUME NEW i \in Instances, NEW u \in Users, Resolve(i, u)
      PROVE  /\ cache' \in [Instances -> [Users -> Roles \cup {"none"}]]
             /\ seen' \in [Users -> Seen]
  BY <1>2 DEF Resolve, RoleSeen, Seen
<1>3. ASSUME NEW i \in Instances, NEW u \in Users,
             cache' = [cache EXCEPT ![i] = [@ EXCEPT ![u] = "none"]]
      PROVE  cache' \in [Instances -> [Users -> Roles \cup {"none"}]]
  BY <1>3
<1>4. ASSUME NEW u \in Users, NEW x \in Item, RemoveItem(u, x)
      PROVE  /\ full' \in SUBSET Users
             /\ partial' \in SUBSET Users
             /\ full' \cap partial' = {}
             /\ role' \in [Users -> Roles]
             /\ seen' \in [Users -> Seen]
             /\ claims' \in [Keys -> Users \cup {Nobody}]
  BY <1>4, KeyType DEF RemoveItem, Roles, Seen
<1>5. ASSUME NEW d \in Deletions, DeletionStep(d) \/ DeletionDies(d) PROVE TypeOK'
  <2>0. Leaver[d] \in Users /\ deletion[d].at \in Instances
    BY AccountsAssumption DEF Deletion
  <2>1. CASE AskDeletion(d)
    <3>1. cache' \in [Instances -> [Users -> Roles \cup {"none"}]] /\ seen' \in [Users -> Seen]
      BY <1>2, <2>0, <2>1 DEF AskDeletion
    <3>2. deletion' \in [Deletions -> Deletion]
      <4>1. deletion[d] \in Deletion /\ {"allowed", "refused"} \subseteq DeletionPc
        BY DEF DeletionPc
      <4>2. \A to \in {"allowed", "refused"} : [deletion[d] EXCEPT !.pc = to] \in Deletion
        BY <4>1, DeletionType
      <4> QED
        BY <2>1, <4>1, <4>2 DEF AskDeletion
    <3> QED
      BY <2>1, <3>1, <3>2 DEF AskDeletion
  <2>2. CASE ListDeletion(d)
    <3>1. ItemsOf(Leaver[d]) \in SUBSET Item /\ {"deleting", "refused"} \subseteq DeletionPc
      BY DEF ItemsOf, DeletionPc
    <3>2. deletion' \in [Deletions -> Deletion]
      <4>1. deletion[d] \in Deletion
        OBVIOUS
      <4>2. [deletion[d] EXCEPT !.pc = "deleting", !.left = ItemsOf(Leaver[d])] \in Deletion
        BY <3>1, <4>1, DeletionType
      <4>3. [deletion[d] EXCEPT !.pc = "refused"] \in Deletion
        BY <3>1, <4>1, DeletionType
      <4> QED
        BY <2>2, <4>2, <4>3 DEF ListDeletion
    <3> QED
      BY <2>2, <3>2 DEF ListDeletion
  <2>3. CASE DeleteItem(d)
    <3>1. PICK x \in deletion[d].left : RemoveItem(Leaver[d], x)
                     /\ deletion' = [deletion EXCEPT ![d] = [deletion[d] EXCEPT !.left = deletion[d].left \ {x}]]
      BY <2>3 DEF DeleteItem
    <3>2. x \in Item
      BY DEF Deletion
    <3>3. deletion' \in [Deletions -> Deletion]
      <4>1. deletion[d].left \ {x} \in SUBSET Item
        BY DEF Deletion
      <4>2. [deletion[d] EXCEPT !.left = deletion[d].left \ {x}] \in Deletion
        BY <4>1 DEF Deletion
      <4>3. deletion' = [deletion EXCEPT ![d] = [deletion[d] EXCEPT !.left = deletion[d].left \ {x}]]
        BY <3>1
      <4>4. deletion \in [Deletions -> Deletion]
        OBVIOUS
      <4> QED
        BY ONLY <4>2, <4>3, <4>4, d \in Deletions
    <3> QED
      BY <1>4, <2>0, <2>3, <3>1, <3>2, <3>3 DEF DeleteItem
  <2>4. CASE EndDeletion(d)
    BY <1>3, <2>0, <2>4 DEF EndDeletion, Deletion, DeletionPc
  <2>5. CASE DeletionDies(d)
    BY <2>5 DEF DeletionDies, Deletion, DeletionPc
  <2> QED
    BY <1>5, <2>1, <2>2, <2>3, <2>4, <2>5 DEF DeletionStep
<1>6. ASSUME NEW e \in Edits, EditStep(e) PROVE TypeOK'
  <2>0. Target[e] \in Users /\ Actor[e] \in Users /\ edit[e].at \in Instances
    BY AccountsAssumption DEF Edit
  <2>1. CASE AskEdit(e)
    <3>1. cache' \in [Instances -> [Users -> Roles \cup {"none"}]] /\ seen' \in [Users -> Seen]
      BY <1>2, <2>0, <2>1 DEF AskEdit
    <3>2. edit' \in [Edits -> Edit]
      BY <2>1, EditGoesType DEF AskEdit, EditPc
    <3> QED
      BY <2>1, <3>1, <3>2 DEF AskEdit
  <2>2. CASE ReadTarget(e)
    <3>1. edit' \in [Edits -> Edit]
      BY <2>2, EditGoesType DEF ReadTarget, EditPc
    <3> QED
      BY <2>2, <3>1 DEF ReadTarget
  <2>3. CASE WriteTarget(e)
    <3>1. role' \in [Users -> Roles]
      BY <2>0, <2>3, AccountsAssumption DEF WriteTarget
    <3>2. edit' \in [Edits -> Edit]
      BY <2>3, EditGoesType DEF WriteTarget, EditPc
    <3> QED
      BY <2>0, <2>3, <3>1, <3>2 DEF WriteTarget, Exists
  <2>4. CASE InvalidateTarget(e)
    <3>1. edit' \in [Edits -> Edit]
      BY <2>4, EditGoesType DEF InvalidateTarget, EditPc
    <3> QED
      BY <1>3, <2>0, <2>4, <3>1 DEF InvalidateTarget
  <2> QED
    BY <1>6, <2>1, <2>2, <2>3, <2>4 DEF EditStep
<1>7. ASSUME NEW i \in Instances, NEW u \in Users, Visit(i, u) \/ Forget(i, u) PROVE TypeOK'
  <2>1. CASE Visit(i, u)
    BY <1>2, <2>1 DEF Visit
  <2>2. CASE Forget(i, u)
    BY <1>3, <2>2 DEF Forget
  <2> QED
    BY <1>7, <2>1, <2>2
<1>8. ASSUME SweepStep \/ SweepDies PROVE TypeOK'
  <2>1. CASE ScanProfiles
    <3>1. {[user |-> u, role |-> role[u], seen |-> seen[u]] : u \in full \cup partial}
            \in SUBSET Snapshot
      BY DEF Snapshot
    <3> QED
      BY <2>1, <3>1 DEF ScanProfiles
  <2>2. ASSUME NEW p \in sweep.page, SkipProfile(p) \/ StartClock(p) \/ ListProfile(p)
        PROVE  TypeOK'
    <3>0. p.user \in Users
      BY DEF Snapshot
    <3>1. CASE SkipProfile(p)
      BY <3>1 DEF SkipProfile
    <3>2. CASE StartClock(p)
      BY <3>0, <3>2 DEF StartClock, Exists, Seen
    <3>3. CASE ListProfile(p)
      BY <3>0, <3>3 DEF ListProfile, ItemsOf
    <3> QED
      BY <2>2, <3>1, <3>2, <3>3
  <2>3. CASE SweepItem
    <3>1. PICK x \in sweep.left :
            RemoveItem(sweep.user, x) /\ sweep' = [sweep EXCEPT !.left = @ \ {x}]
      BY <2>3 DEF SweepItem
    <3>2. sweep.user \in Users
      BY <2>3 DEF SweepItem
    <3> QED
      BY <1>4, <2>3, <3>1, <3>2 DEF SweepItem
  <2>4. CASE EndProfile \/ EndSweep \/ SweepDies
    BY <2>4 DEF EndProfile, EndSweep, SweepDies
  <2> QED
    BY <1>8, <2>1, <2>2, <2>3, <2>4 DEF SweepStep
<1>9. CASE UNCHANGED vars
  BY <1>9 DEF vars
<1> QED
  BY <1>1, <1>5, <1>6, <1>7, <1>8, <1>9 DEF Next

(* Every variable keeps its type, under every fault.                       *)
THEOREM TypeCorrect == Spec => []TypeOK
<1>1. Init => TypeOK
  <2> SUFFICES ASSUME Init PROVE TypeOK
    OBVIOUS
  <2>1. role \in [Users -> Roles]
    BY AccountsAssumption DEF Init, Users, Roles
  <2>2. claims \in [Keys -> Users \cup {Nobody}]
    BY DEF Init, Users
  <2>3. seen \in [Users -> Seen] /\ full \in SUBSET Users
    BY DEF Init, Users
  <2>4. deletion \in [Deletions -> [pc : {"idle"}, at : Instances, left : {{}}]]
        /\ edit \in [Edits -> [pc : {"idle"}, at : Instances]]
    BY DEF Init
  <2>5. deletion \in [Deletions -> Deletion]
    BY <2>4 DEF Deletion, DeletionPc
  <2>6. edit \in [Edits -> Edit]
    BY <2>4 DEF Edit, EditPc
  <2>7. signup \in [Signups -> Signup]
    BY DEF Init, Signup, SignupPc
  <2> QED
    BY <2>1, <2>2, <2>3, <2>5, <2>6, <2>7 DEF Init, TypeOK
<1>2. TypeOK /\ [Next]_vars => TypeOK'
  BY TypeStays
<1> QED
  BY <1>1, <1>2, PTL DEF Spec

-----------------------------------------------------------------------------
(* Who has had a profile keeps having had it.                              *)
LEMMA GrownStays ==
  ASSUME TypeOK, Next, NEW u, Grown(u)
  PROVE  Grown(u)'
<1>1. ASSUME NEW s \in Signups, NEW from, NEW to, SignupGoes(s, from, to), from # "done"
      PROVE  Grown(u)'
  BY <1>1 DEF Grown, SignupGoes, TypeOK
<1>2. ASSUME NEW s \in Signups, SignupStep(s) \/ SignupDies(s) PROVE Grown(u)'
  <2>1. CASE CountUsers(s)
    BY <2>1 DEF CountUsers, Grown, TypeOK
  <2>2. CASE ScanEmail(s) \/ ClaimEmail(s) \/ PutProfile(s) \/ Unclaim(s) \/ SignupDies(s)
    BY <1>1, <2>2 DEF ScanEmail, ClaimEmail, PutProfile, Unclaim, SignupDies
  <2> QED
    BY <1>2, <2>1, <2>2 DEF SignupStep
<1>3. CASE UNCHANGED signup
  BY <1>3 DEF Grown
<1>4. ASSUME NEW d \in Deletions, DeletionStep(d) \/ DeletionDies(d) PROVE UNCHANGED signup
  BY <1>4 DEF DeletionStep, AskDeletion, ListDeletion, DeleteItem, EndDeletion, DeletionDies
<1>5. ASSUME NEW e \in Edits, EditStep(e) PROVE UNCHANGED signup
  BY <1>5 DEF EditStep, AskEdit, ReadTarget, WriteTarget, InvalidateTarget
<1>6. ASSUME NEW i \in Instances, NEW v \in Users, Visit(i, v) \/ Forget(i, v)
      PROVE  UNCHANGED signup
  BY <1>6 DEF Visit, Forget, procVars
<1>7. ASSUME SweepStep \/ SweepDies PROVE UNCHANGED signup
  BY <1>7 DEF SweepStep, ScanProfiles, SkipProfile, StartClock, ListProfile, SweepItem,
              EndProfile, EndSweep, SweepDies
<1> QED
  BY <1>2, <1>3, <1>4, <1>5, <1>6, <1>7 DEF Next

(* A step of a registration keeps the invariant: a claim is put only where *)
(* there is none, and taken back only by the registration that holds it.   *)
LEMMA SignupKeeps ==
  ASSUME Alone, TypeOK, ClaimInv, Next,
         NEW s \in Signups, SignupStep(s) \/ SignupDies(s)
  PROVE  ClaimInv'
<1> USE DEF ClaimInv, TypeOK, itemVars
<1>0. UNCHANGED <<cache, deletion, edit, sweep>>
  BY DEF SignupStep, CountUsers, ScanEmail, ClaimEmail, PutProfile, Unclaim, SignupDies
<1>1. s \in Users /\ s \notin Founders /\ s # Nobody /\ Key(s) \in Keys
  BY AccountsAssumption, KeyType DEF Users
<1>2. (\A u : Doomed(u)' <=> Doomed(u)) /\ (\A u : Grown(u) => Grown(u)')
  BY <1>0, GrownStays DEF Doomed
<1>3. GrownInv'
  <2>1. \A u \in full' \cup partial' : u \in full \cup partial \/ (u = s /\ signup'[s].pc = "done")
    <3>1. CASE PutProfile(s)
      <4>1. signup[s] \in Signup
        OBVIOUS
      <4>2. ASSUME SignupGoes(s, "claimed", "done") PROVE signup'[s].pc = "done"
        BY <4>1, <4>2 DEF SignupGoes, Signup
      <4> QED
        BY <3>1, <4>2 DEF PutProfile
    <3>2. CASE ~PutProfile(s)
      BY <3>2 DEF SignupStep, CountUsers, ScanEmail, ClaimEmail, Unclaim, SignupDies
    <3> QED
      BY <3>1, <3>2
  <2> QED
    BY <1>0, <1>2, <2>1 DEF GrownInv, Grown
<1>4. ASSUME UNCHANGED <<full, claims>>,
             \A t \in Signups : Registering(t)' => Registering(t)
      PROVE  ClaimInv'
  BY <1>0, <1>2, <1>3, <1>4 DEF EraseInv, Erasing, RegisterInv, ClaimHeld
<1>5. ASSUME NEW from, NEW to \in SignupPc, SignupGoes(s, from, to)
      PROVE  \A t \in Signups : signup'[t].pc = IF t = s THEN to ELSE signup[t].pc
  BY <1>5 DEF SignupGoes, Signup
<1>6. CASE CountUsers(s)
  BY <1>4, <1>6 DEF CountUsers, Registering
<1>7. CASE ScanEmail(s)
  BY <1>4, <1>5, <1>7 DEF ScanEmail, Registering, SignupPc
<1>8. CASE SignupDies(s)
  <2>1. \A t \in Signups : t # s => signup'[t].pc = signup[t].pc
    BY <1>8 DEF SignupDies, SignupGoes
  <2>2. signup'[s].pc = "dead"
    BY <1>8 DEF SignupDies, SignupGoes, Signup
  <2> QED
    BY <1>4, <1>8, <2>1, <2>2 DEF SignupDies, Registering
<1>9. CASE ClaimEmail(s)
  <2>1. CASE signup'[s].pc = "claimed" /\ claims[Key(s)] = Nobody
             /\ claims' = [claims EXCEPT ![Key(s)] = s]
    <3>1. \A u \in Users : claims[Key(u)] = u => claims'[Key(u)] = u
      BY <1>1, <2>1, KeyType, AccountsAssumption
    <3>2. RegisterInv'
      <4>1. \A t \in Signups : Registering(t)' => t = s \/ Registering(t)
        BY <1>9 DEF ClaimEmail, SignupGoes, Registering
      <4>2. claims'[Key(s)] = s
        BY <1>1, <2>1
      <4> QED
        BY <3>1, <4>1, <4>2 DEF RegisterInv, Users
    <3>3. EraseInv' /\ ClaimHeld'
      BY <1>0, <1>2, <1>9, <3>1, AccountsAssumption
         DEF ClaimEmail, EraseInv, Erasing, ClaimHeld
    <3> QED
      BY <1>3, <3>2, <3>3
  <2>2. CASE signup'[s].pc = "rejected" /\ UNCHANGED claims
    <3>1. \A t \in Signups : Registering(t)' => Registering(t)
      BY <1>9, <2>2 DEF ClaimEmail, SignupGoes, Registering
    <3> QED
      BY <1>4, <1>9, <2>2, <3>1 DEF ClaimEmail
  <2> QED
    BY <1>5, <1>9, <2>1, <2>2 DEF ClaimEmail, SignupPc
<1>10. CASE PutProfile(s)
  <2>1. claims[Key(s)] = s /\ UNCHANGED claims /\ signup[s].pc = "claimed"
    BY <1>10 DEF PutProfile, SignupGoes, RegisterInv, Registering
  <2>2. full' \subseteq full \cup {s}
    BY <1>10 DEF PutProfile
  <2>3. ~Grown(s)
    BY <1>1, <2>1 DEF Grown
  <2>4. EraseInv'
    BY <1>0, <2>1, <2>2, <2>3 DEF EraseInv, Erasing, GrownInv
  <2>5. RegisterInv'
    BY <2>1, <1>10 DEF RegisterInv, Registering, PutProfile, SignupGoes
  <2>6. ClaimHeld'
    BY <1>2, <2>1, <2>2 DEF ClaimHeld
  <2> QED
    BY <1>3, <2>4, <2>5, <2>6
<1>11. CASE Unclaim(s)
  <2>1. /\ claims[Key(s)] = s /\ signup[s].pc = "unclaim"
        /\ claims' = [claims EXCEPT ![Key(s)] = Nobody] /\ UNCHANGED full
    BY <1>11 DEF Unclaim, SignupGoes, RegisterInv, Registering
  <2>2. ~Grown(s)
    BY <1>1, <2>1 DEF Grown
  <2>3. \A u \in Users : claims[Key(u)] = u /\ u # s => claims'[Key(u)] = u
    BY <2>1, KeyType
  <2>4. EraseInv'
    BY <1>0, <2>1, <2>2, <2>3, AccountsAssumption DEF EraseInv, Erasing, GrownInv
  <2>5. signup'[s].pc = "rejected" /\ \A t \in Signups : t # s => signup'[t].pc = signup[t].pc
    BY <1>5, <1>11 DEF Unclaim, SignupPc
  <2>6. RegisterInv'
    BY <2>3, <2>5 DEF RegisterInv, Registering, Users
  <2>7. ClaimHeld'
    BY <1>2, <2>1, <2>2, <2>3 DEF ClaimHeld, GrownInv
  <2> QED
    BY <1>3, <2>4, <2>6, <2>7
<1> QED
  BY <1>6, <1>7, <1>8, <1>9, <1>10, <1>11 DEF SignupStep

(* A step that touches neither claims nor whole profiles, and no process   *)
(* but an edit, keeps the invariant if it keeps GrownInv.                  *)
LEMMA QuietKeeps ==
  ASSUME ClaimInv, GrownInv', UNCHANGED <<full, claims, signup, deletion, sweep>>
  PROVE  ClaimInv'
BY DEF ClaimInv, EraseInv, Erasing, RegisterInv, Registering, ClaimHeld, Doomed

(* A step of an edit or a visit keeps the invariant: neither creates a     *)
(* whole profile, and an edit that creates a part of one read it before.   *)
LEMMA OtherKeeps ==
  ASSUME TypeOK, ClaimInv, Next,
         \/ \E e \in Edits : EditStep(e)
         \/ \E i \in Instances, u \in Users : Visit(i, u) \/ Forget(i, u)
  PROVE  ClaimInv'
<1> USE DEF ClaimInv, TypeOK, itemVars, procVars
<1>0. \A u : Grown(u) => Grown(u)'
  BY GrownStays
<1>1. ASSUME NEW i \in Instances, NEW u \in Users, Resolve(i, u), Grown(u)
      PROVE  \A j \in Instances, v \in Users : cache'[j][v] # "none" => Grown(v)
  BY <1>1 DEF Resolve, GrownInv
<1>2. ASSUME NEW i \in Instances, NEW u \in Users,
             cache' = [cache EXCEPT ![i] = [@ EXCEPT ![u] = "none"]]
      PROVE  \A j \in Instances, v \in Users : cache'[j][v] # "none" => Grown(v)
  BY <1>2 DEF GrownInv
<1>3. ASSUME NEW e \in Edits, EditStep(e) PROVE ClaimInv'
  <2>0. Target[e] \in Users /\ Actor[e] \in Users /\ edit[e].at \in Instances
    BY AccountsAssumption DEF Edit
  <2>1. ASSUME NEW from, NEW to, EditGoes(e, from, to)
        PROVE  \A f \in Edits : edit'[f].pc = IF f = e THEN to ELSE edit[f].pc
    BY <2>1 DEF EditGoes, Edit
  <2>2. CASE AskEdit(e)
    <3>0. EditGoes(e, "idle", "refused") \/ EditGoes(e, "idle", "allowed")
      BY <2>2 DEF AskEdit
    <3>1. \A f \in Edits : edit'[f].pc = "write" => edit[f].pc = "write"
      BY <3>0 DEF EditGoes, Edit
    <3>2. Authenticates(edit[e].at, Actor[e]) => Grown(Actor[e])
      BY <2>0 DEF Authenticates, GrownInv
    <3>3. GrownInv'
      BY <1>0, <1>1, <2>0, <2>2, <3>1, <3>2 DEF AskEdit, GrownInv
    <3> QED
      BY <2>2, <3>3, QuietKeeps DEF AskEdit
  <2>3. CASE ReadTarget(e)
    <3>1. \A f \in Edits : edit'[f].pc = "write" => edit[f].pc = "write" \/ Target[f] \in full
      BY <2>1, <2>3 DEF ReadTarget
    <3>2. GrownInv'
      BY <1>0, <2>3, <3>1 DEF ReadTarget, GrownInv
    <3> QED
      BY <2>3, <3>2, QuietKeeps DEF ReadTarget
  <2>4. CASE WriteTarget(e)
    <3>1. \A f \in Edits : edit'[f].pc = "write" => edit[f].pc = "write"
      BY <2>1, <2>4 DEF WriteTarget
    <3>2. edit[e].pc = "write"
      BY <2>4 DEF WriteTarget, EditGoes
    <3>3. GrownInv'
      BY <1>0, <2>4, <3>1, <3>2 DEF WriteTarget, GrownInv
    <3> QED
      BY <2>4, <3>3, QuietKeeps DEF WriteTarget
  <2>5. CASE InvalidateTarget(e)
    <3>1. \A f \in Edits : edit'[f].pc = "write" => edit[f].pc = "write"
      BY <2>1, <2>5 DEF InvalidateTarget
    <3>2. GrownInv'
      BY <1>0, <1>2, <2>0, <2>5, <3>1 DEF InvalidateTarget, GrownInv
    <3> QED
      BY <2>5, <3>2, QuietKeeps DEF InvalidateTarget
  <2> QED
    BY <1>3, <2>2, <2>3, <2>4, <2>5 DEF EditStep
<1>4. ASSUME NEW i \in Instances, NEW u \in Users, Visit(i, u) \/ Forget(i, u) PROVE ClaimInv'
  <2>1. \A j \in Instances, v \in Users : cache'[j][v] # "none" => Grown(v)
    BY <1>1, <1>2, <1>4 DEF Visit, Forget, GrownInv
  <2>2. UNCHANGED <<full, partial, claims, signup, deletion, edit, sweep>>
    BY <1>4 DEF Visit, Forget
  <2>3. GrownInv'
    BY <1>0, <2>1, <2>2 DEF GrownInv
  <2> QED
    BY <2>2, <2>3, QuietKeeps
<1> QED
  BY <1>3, <1>4

(* Removing an item that a sole deletion still has to remove takes a claim *)
(* or a profile from nobody but the account that leaves.                   *)
LEMMA RemoveKeeps ==
  ASSUME TypeOK, ClaimInv, NEW u \in Users, Grown(u), Doomed(u), Doomed(u)',
         \A v : Doomed(v)' <=> Doomed(v),
         NEW x \in Item, RemoveItem(u, x), x = "claim" => claims[Key(u)] = u,
         UNCHANGED signup
  PROVE  /\ RegisterInv' /\ ClaimHeld'
         /\ \A left : \A v \in Users : Erasing(v, left) /\ v # u => Erasing(v, left)'
         /\ \A left : Erasing(u, left) => Erasing(u, left \ {x})'
<1> USE DEF ClaimInv, TypeOK
<1>1. CASE x = "profile"
  <2>1. full' = full \ {u} /\ UNCHANGED claims
    BY <1>1 DEF RemoveItem
  <2> QED
    BY <1>1, <2>1 DEF RegisterInv, Registering, ClaimHeld, Erasing
<1>2. CASE x = "claim"
  <2>1. UNCHANGED full /\ claims' = [claims EXCEPT ![Key(u)] = Nobody] /\ claims[Key(u)] = u
    BY <1>2 DEF RemoveItem
  <2>2. \A v \in Users : v # u /\ claims[Key(v)] = v => claims'[Key(v)] = v
    BY <2>1, KeyType
  <2>3. \A s \in Signups : Registering(s)' => Registering(s) /\ s # u /\ s \in Users
    BY AccountsAssumption DEF Registering, Grown, Users
  <2> QED
    BY <1>2, <2>1, <2>2, <2>3 DEF RegisterInv, ClaimHeld, Erasing
<1> QED
  BY <1>1, <1>2 DEF Item

(* A step of a deletion keeps the invariant, if it is the only one of its  *)
(* account.                                                                *)
LEMMA DeletionKeeps ==
  ASSUME Alone, TypeOK, ClaimInv, Next,
         NEW d \in Deletions, DeletionStep(d) \/ DeletionDies(d)
  PROVE  ClaimInv'
<1> USE DEF ClaimInv, TypeOK, itemVars
<1>0. /\ Leaver[d] \in Users /\ Leaver[d] # Nobody /\ deletion[d].at \in Instances
      /\ deletion[d] \in Deletion
  BY AccountsAssumption DEF Deletion
<1>1. sweep.pc = "idle" /\ sweep.user = Nobody
  BY DEF Alone, EraseInv
<1>2. UNCHANGED <<signup, edit, sweep>> /\ \A u : Grown(u) => Grown(u)'
  BY GrownStays DEF DeletionStep, AskDeletion, ListDeletion, DeleteItem, EndDeletion, DeletionDies
<1>3. \A c \in Deletions : c # d => deletion'[c] = deletion[c] /\ Leaver[c] # Leaver[d]
  BY DEF DeletionStep, AskDeletion, ListDeletion, DeleteItem, EndDeletion, DeletionDies, Alone
<1>4. Doomed(Leaver[d]) <=> deletion[d].pc \in {"deleting", "dead"}
  BY <1>0, <1>1 DEF Doomed, Alone
<1>5. CASE AskDeletion(d)
  <2>1. PICK to \in {"allowed", "refused"} : deletion' = [deletion EXCEPT ![d] = [deletion[d] EXCEPT !.pc = to]]
    BY <1>5 DEF AskDeletion
  <2>2. deletion'[d].pc = to /\ deletion[d].pc = "idle"
    BY <1>0, <1>5, <2>1 DEF Deletion, AskDeletion
  <2>3. to = "allowed" => Grown(Leaver[d])
    <3>1. Authenticates(deletion[d].at, Leaver[d]) => Grown(Leaver[d])
      BY <1>0 DEF Authenticates, GrownInv
    <3>2. ~Authenticates(deletion[d].at, Leaver[d]) => deletion' = [deletion EXCEPT ![d] = [deletion[d] EXCEPT !.pc = "refused"]]
      BY <1>5 DEF AskDeletion
    <3> QED
      BY <1>0, <2>2, <3>1, <3>2 DEF Deletion
  <2>4. GrownInv'
    <3>1. \A j \in Instances, v \in Users : cache'[j][v] # "none" => Grown(v)
      BY <1>0, <1>5 DEF AskDeletion, Resolve, Authenticates, GrownInv
    <3> QED
      BY <1>2, <1>3, <1>5, <2>2, <2>3, <3>1 DEF AskDeletion, GrownInv
  <2>5. UNCHANGED <<full, claims>> /\ \A u : Doomed(u)' <=> Doomed(u)
    BY <1>2, <1>3, <1>5, <2>2 DEF AskDeletion, Doomed
  <2> QED
    BY <1>2, <1>3, <2>2, <2>4, <2>5 DEF EraseInv, Erasing, RegisterInv, Registering, ClaimHeld
<1>6. CASE ListDeletion(d)
  <2>1. UNCHANGED <<full, partial, cache, claims>> /\ deletion[d].pc = "allowed" /\ Grown(Leaver[d])
    BY <1>6 DEF ListDeletion, GrownInv
  <2>2. \/ deletion'[d].pc = "deleting" /\ deletion'[d].left = ItemsOf(Leaver[d])
        \/ deletion'[d].pc = "refused"
    <3>1. CASE deletion' = [deletion EXCEPT ![d] = [deletion[d] EXCEPT !.pc = "deleting", !.left = ItemsOf(Leaver[d])]]
      <4>1. deletion'[d] = [deletion[d] EXCEPT !.pc = "deleting", !.left = ItemsOf(Leaver[d])]
        BY <3>1
      <4> QED
        BY <1>0, <4>1 DEF Deletion
    <3>2. CASE deletion' = [deletion EXCEPT ![d] = [deletion[d] EXCEPT !.pc = "refused"]]
      BY <1>0, <3>2 DEF Deletion
    <3> QED
      BY <1>6, <3>1, <3>2 DEF ListDeletion
  <2>3. Erasing(Leaver[d], ItemsOf(Leaver[d]))
    BY <1>4, <2>1 DEF Erasing, ItemsOf, Item, ClaimHeld
  <2>4. \A u : Doomed(u) => Doomed(u)'
    BY <1>2, <1>3, <2>1 DEF Doomed
  <2>5. GrownInv'
    BY <1>2, <1>3, <2>1 DEF GrownInv
  <2>6. EraseInv'
    BY <1>2, <1>3, <2>1, <2>2, <2>3 DEF EraseInv, Erasing
  <2> QED
    BY <1>2, <2>1, <2>4, <2>5, <2>6 DEF RegisterInv, Registering, ClaimHeld
<1>7. CASE DeleteItem(d)
  <2>1. PICK x \in deletion[d].left :
          RemoveItem(Leaver[d], x) /\ deletion' = [deletion EXCEPT ![d].left = @ \ {x}]
    BY <1>7 DEF DeleteItem
  <2>2. /\ deletion[d].pc = "deleting" /\ deletion'[d].pc = "deleting"
        /\ deletion'[d].left = deletion[d].left \ {x} /\ x \in Item
    BY <1>0, <1>7, <2>1 DEF DeleteItem, Deletion
  <2>3. \A u : Doomed(u)' <=> Doomed(u)
    BY <1>2, <1>3, <2>2 DEF Doomed
  <2>4. Erasing(Leaver[d], deletion[d].left) /\ Grown(Leaver[d])
    BY <2>2 DEF EraseInv, GrownInv
  <2>5. x = "claim" => claims[Key(Leaver[d])] = Leaver[d]
    BY <2>4 DEF Erasing
  <2>6. /\ RegisterInv' /\ ClaimHeld'
        /\ \A left : \A v \in Users : Erasing(v, left) /\ v # Leaver[d] => Erasing(v, left)'
        /\ \A left : Erasing(Leaver[d], left) => Erasing(Leaver[d], left \ {x})'
    BY <1>0, <1>2, <1>4, <2>1, <2>2, <2>3, <2>4, <2>5, RemoveKeeps
  <2>7. EraseInv'
    <3>1. \A c \in Deletions : c # d /\ deletion[c].pc = "deleting" => Erasing(Leaver[c], deletion[c].left)'
      BY <1>3, <2>6, AccountsAssumption DEF EraseInv
    <3>2. Erasing(Leaver[d], deletion[d].left)'
      BY <2>2, <2>4, <2>6
    <3> QED
      BY <1>1, <1>2, <1>3, <3>1, <3>2 DEF EraseInv
  <2>8. GrownInv'
    BY <1>2, <1>3, <2>1, <2>2, <1>7 DEF GrownInv, DeleteItem, RemoveItem
  <2> QED
    BY <2>6, <2>7, <2>8
<1>8. CASE EndDeletion(d)
  <2>1. deletion[d].pc = "deleting" /\ deletion'[d].pc = "done" /\ UNCHANGED <<full, partial, claims>>
    BY <1>0, <1>8 DEF EndDeletion, Deletion
  <2>2. Leaver[d] \notin full
    BY <1>8, <2>1 DEF EndDeletion, EraseInv, Erasing
  <2>3. \A u : u # Leaver[d] => (Doomed(u)' <=> Doomed(u))
    BY <1>2, <1>3 DEF Doomed
  <2>4. GrownInv'
    <3>1. \A j \in Instances, v \in Users : cache'[j][v] # "none" => Grown(v)
      BY <1>0, <1>8 DEF EndDeletion, GrownInv
    <3> QED
      BY <1>2, <1>3, <2>1, <3>1 DEF GrownInv
  <2>5. EraseInv'
    BY <1>1, <1>2, <1>3, <2>1 DEF EraseInv, Erasing
  <2> QED
    BY <1>2, <2>1, <2>2, <2>3, <2>4, <2>5 DEF RegisterInv, Registering, ClaimHeld
<1>9. CASE DeletionDies(d)
  <2>1. /\ deletion[d].pc = "deleting" /\ deletion'[d].pc = "dead"
        /\ UNCHANGED <<full, partial, cache, claims>>
    BY <1>0, <1>9 DEF DeletionDies, Deletion
  <2>2. \A u : Doomed(u)' <=> Doomed(u)
    BY <1>2, <1>3, <2>1 DEF Doomed
  <2>3. GrownInv' /\ EraseInv'
    BY <1>1, <1>2, <1>3, <2>1 DEF GrownInv, EraseInv, Erasing
  <2> QED
    BY <1>2, <2>1, <2>2, <2>3 DEF RegisterInv, Registering, ClaimHeld
<1> QED
  BY <1>5, <1>6, <1>7, <1>8, <1>9 DEF DeletionStep

(* A step of the retention run keeps the invariant, when nobody else       *)
(* deletes accounts.                                                       *)
LEMMA SweepKeeps ==
  ASSUME Alone, TypeOK, ClaimInv, Next, SweepStep \/ SweepDies
  PROVE  ClaimInv'
<1> USE DEF ClaimInv, TypeOK, itemVars
<1>0. Sweep /\ Deletions = {}
  BY DEF Alone, EraseInv, SweepStep, ScanProfiles, SkipProfile, StartClock, ListProfile,
         SweepItem, EndProfile, EndSweep, SweepDies
<1>1. UNCHANGED <<cache, signup, edit>> /\ \A u : Grown(u) => Grown(u)'
  BY GrownStays DEF SweepStep, ScanProfiles, SkipProfile, StartClock, ListProfile, SweepItem,
         EndProfile, EndSweep, SweepDies
<1>2. \A u : Doomed(u) <=> sweep.user = u
  BY <1>0 DEF Doomed
<1>3. \A u : Doomed(u)' <=> sweep'.user = u
  BY <1>0 DEF Doomed
<1>4. ASSUME UNCHANGED <<full, partial, claims>>, sweep'.page \subseteq sweep.page,
             sweep'.user = sweep.user, sweep'.pc \in {sweep.pc, "done", "aborted"},
             sweep'.left = sweep.left,
             sweep'.pc = "done" => sweep.pc = "next"
      PROVE  ClaimInv'
  BY <1>0, <1>1, <1>2, <1>3, <1>4
     DEF GrownInv, EraseInv, Erasing, RegisterInv, Registering, ClaimHeld
<1>5. CASE ScanProfiles
  <2>1. /\ UNCHANGED <<full, partial, claims>> /\ sweep.pc = "idle" /\ sweep'.pc = "next"
        /\ sweep'.user = sweep.user
        /\ \A p \in sweep'.page : p.user \in full \cup partial
    BY <1>5 DEF ScanProfiles
  <2> QED
    BY <1>0, <1>1, <1>2, <1>3, <2>1
       DEF GrownInv, EraseInv, Erasing, RegisterInv, Registering, ClaimHeld
<1>6. ASSUME NEW p \in sweep.page, SkipProfile(p) PROVE ClaimInv'
  BY <1>4, <1>6 DEF SkipProfile
<1>7. ASSUME NEW p \in sweep.page, StartClock(p) PROVE ClaimInv'
  <2>1. CASE UNCHANGED partial
    BY <1>4, <1>7, <2>1 DEF StartClock
  <2>2. CASE partial' = partial \cup {p.user} /\ sweep' = [sweep EXCEPT !.page = @ \ {p}]
    <3>1. UNCHANGED <<full, claims>> /\ sweep'.pc = sweep.pc /\ sweep'.user = sweep.user
          /\ sweep'.left = sweep.left /\ sweep'.page \subseteq sweep.page
      BY <1>7, <2>2 DEF StartClock
    <3>2. GrownInv'
      BY <1>0, <1>1, <2>2, <3>1 DEF GrownInv
    <3> QED
      BY <1>0, <1>1, <1>2, <1>3, <3>1, <3>2
         DEF EraseInv, Erasing, RegisterInv, Registering, ClaimHeld
  <2> QED
    BY <1>7, <2>1, <2>2 DEF StartClock
<1>8. ASSUME NEW p \in sweep.page, ListProfile(p) PROVE ClaimInv'
  <2>1. CASE sweep' = [sweep EXCEPT !.pc = "aborted"]
    BY <1>4, <1>8, <2>1 DEF ListProfile
  <2>2. CASE sweep' = [sweep EXCEPT !.pc = "deleting", !.page = @ \ {p}, !.user = p.user,
                                    !.left = ItemsOf(p.user)]
    <3>1. /\ UNCHANGED <<full, partial, claims>> /\ sweep.pc = "next" /\ sweep'.pc = "deleting"
          /\ sweep'.user = p.user /\ sweep'.left = ItemsOf(p.user) /\ sweep'.page \subseteq sweep.page
      BY <1>8, <2>2 DEF ListProfile
    <3>2. sweep.user = Nobody /\ p.user \in Users /\ Nobody \notin Users
      BY <3>1, AccountsAssumption DEF EraseInv, Snapshot
    <3>3. Erasing(p.user, ItemsOf(p.user))
      BY <1>2, <3>2 DEF Erasing, ItemsOf, Item, ClaimHeld
    <3>4. GrownInv'
      BY <1>0, <1>1, <3>1 DEF GrownInv
    <3>5. EraseInv'
      BY <1>0, <3>1, <3>3 DEF EraseInv, Erasing
    <3> QED
      BY <1>1, <1>2, <1>3, <3>1, <3>2, <3>4, <3>5 DEF RegisterInv, Registering, ClaimHeld
  <2> QED
    BY <1>8, <2>1, <2>2 DEF ListProfile
<1>9. CASE SweepItem
  <2>1. PICK x \in sweep.left :
          RemoveItem(sweep.user, x) /\ sweep' = [sweep EXCEPT !.left = sweep.left \ {x}]
    BY <1>9 DEF SweepItem
  <2>2. /\ sweep.pc = "deleting" /\ sweep'.pc = "deleting" /\ sweep'.user = sweep.user
        /\ sweep'.left = sweep.left \ {x} /\ sweep'.page = sweep.page /\ x \in Item
        /\ sweep.user \in Users
    BY <1>9, <2>1 DEF SweepItem
  <2>3. Erasing(sweep.user, sweep.left) /\ Grown(sweep.user)
    BY <2>2 DEF EraseInv, GrownInv
  <2>4. x = "claim" => claims[Key(sweep.user)] = sweep.user
    BY <2>3 DEF Erasing
  <2>5. /\ RegisterInv' /\ ClaimHeld'
        /\ \A left : Erasing(sweep.user, left) => Erasing(sweep.user, left \ {x})'
    <3>1. Doomed(sweep.user) /\ Doomed(sweep.user)' /\ \A v : Doomed(v)' <=> Doomed(v)
      BY <1>2, <1>3, <2>2
    <3> QED
      BY <1>1, <2>1, <2>2, <2>3, <2>4, <3>1, RemoveKeeps
  <2>6. EraseInv'
    BY <1>0, <2>2, <2>3, <2>5 DEF EraseInv, Erasing
  <2>7. GrownInv'
    BY <1>0, <1>1, <2>1, <2>2 DEF GrownInv, RemoveItem
  <2> QED
    BY <2>5, <2>6, <2>7
<1>10. CASE EndProfile
  <2>1. /\ UNCHANGED <<full, partial, claims>> /\ sweep.pc = "deleting" /\ sweep'.pc = "next"
        /\ sweep.left = {} /\ sweep'.user = Nobody /\ sweep'.page = sweep.page
    BY <1>10 DEF EndProfile
  <2>2. sweep.user \notin full
    BY <2>1 DEF EraseInv, Erasing
  <2> QED
    BY <1>0, <1>1, <1>2, <1>3, <2>1, <2>2
       DEF GrownInv, EraseInv, Erasing, RegisterInv, Registering, ClaimHeld
<1>11. CASE EndSweep \/ SweepDies
  BY <1>4, <1>11 DEF EndSweep, SweepDies
<1> QED
  BY <1>5, <1>6, <1>7, <1>8, <1>9, <1>10, <1>11 DEF SweepStep

LEMMA InitClaims == Init => ClaimInv
<1> SUFFICES ASSUME Init PROVE ClaimInv
  OBVIOUS
<1>1. full = Founders /\ partial = {} /\ sweep.page = {} /\ sweep.pc = "idle" /\ sweep.user = Nobody
  BY DEF Init
<1>2. (\A s \in Signups : signup[s].pc = "idle") /\ (\A d \in Deletions : deletion[d].pc = "idle")
      /\ (\A e \in Edits : edit[e].pc = "idle")
      /\ (\A i \in Instances, u \in Users : cache[i][u] = "none")
  BY DEF Init
<1>3. ASSUME NEW u \in Founders PROVE claims[Key(u)] = u
  <2>1. Key(u) \in Keys
    BY KeyType DEF Users
  <2>2. claims[Key(u)] # Nobody
    BY <2>1 DEF Init
  <2>3. claims[Key(u)] \in Founders /\ Key(claims[Key(u)]) = Key(u)
    BY <2>1, <2>2 DEF Init
  <2> QED
    BY <2>3, AccountsAssumption
<1> QED
  BY <1>1, <1>2, <1>3 DEF ClaimInv, GrownInv, Grown, EraseInv, RegisterInv, Registering, ClaimHeld

(* While no account is deleted by two at once, the invariant holds.        *)
THEOREM ClaimInvariant == Alone => (Spec => []ClaimInv)
<1> SUFFICES ASSUME Alone PROVE Spec => []ClaimInv
  OBVIOUS
<1>1. TypeOK /\ ClaimInv /\ [Next]_vars => ClaimInv'
  <2> SUFFICES ASSUME TypeOK, ClaimInv, [Next]_vars PROVE ClaimInv'
    OBVIOUS
  <2>1. CASE Next
    BY <2>1, SignupKeeps, DeletionKeeps, OtherKeeps, SweepKeeps DEF Next
  <2>2. CASE UNCHANGED vars
    BY <2>2 DEF vars, itemVars, procVars, ClaimInv, GrownInv, Grown, EraseInv, Erasing,
                RegisterInv, Registering, ClaimHeld, Doomed
  <2> QED
    BY <2>1, <2>2
<1> QED
  BY <1>1, InitClaims, TypeCorrect, PTL DEF Spec

(* The claim of an e-mail belongs to the account that uses it.             *)
THEOREM ClaimsHeld == Alone => (Spec => []ClaimHeld)
<1>1. ClaimInv => ClaimHeld
  BY DEF ClaimInv
<1> QED
  BY <1>1, ClaimInvariant, PTL

(* No two accounts share an e-mail, whatever the scans saw: the claim of a *)
(* key has one holder.                                                     *)
THEOREM EmailsUnique == Alone => (Spec => []UniqueEmail)
<1>1. TypeOK /\ ClaimHeld => UniqueEmail
  BY DEF TypeOK, ClaimHeld, UniqueEmail
<1> QED
  BY <1>1, TypeCorrect, ClaimsHeld, PTL

-----------------------------------------------------------------------------
(* Who may hold a claim.                                                   *)
Owner(u) == u \in full \/ Unreleased(u) \/ Registering(u) \/ Died(u)

(* A claim is held by one of whom it is the claim, and a deletion that has *)
(* no claim to delete any more has left none.                              *)
BackInv ==
  /\ \A k \in Keys : claims[k] # Nobody => Key(claims[k]) = k
  /\ \A u \in Users : claims[Key(u)] = u => Owner(u)
  /\ \A d \in Deletions : deletion[d].pc = "deleting" /\ "claim" \notin deletion[d].left
                            => claims[Key(Leaver[d])] # Leaver[d]
  /\ sweep.pc = "deleting" /\ "claim" \notin sweep.left => claims[Key(sweep.user)] # sweep.user

(* A step that changes no claim keeps all this, as long as no owner is     *)
(* lost and no deletion begins.                                            *)
LEMMA SameClaims ==
  ASSUME BackInv, UNCHANGED claims, \A u \in Users : Owner(u) /\ claims[Key(u)] = u => Owner(u)',
         \A d \in Deletions : deletion'[d].pc = "deleting" => deletion[d].pc = "deleting"
                                                              /\ deletion'[d].left = deletion[d].left,
         sweep'.pc = "deleting" => sweep.pc = "deleting" /\ sweep'.left = sweep.left
                                   /\ sweep'.user = sweep.user
  PROVE  BackInv'
BY DEF BackInv

LEMMA SignupBacked ==
  ASSUME TypeOK, ClaimInv, BackInv, NEW s \in Signups, SignupStep(s) \/ SignupDies(s)
  PROVE  BackInv'
<1> USE DEF TypeOK, itemVars
<1>0. UNCHANGED <<cache, deletion, edit, sweep>>
  BY DEF SignupStep, CountUsers, ScanEmail, ClaimEmail, PutProfile, Unclaim, SignupDies
<1>1. s \in Users /\ s \notin Founders /\ s # Nobody /\ Key(s) \in Keys
  BY AccountsAssumption, KeyType DEF Users
<1>2. \A u : Unreleased(u)' <=> Unreleased(u)
  BY <1>0 DEF Unreleased
<1>3. \A t \in Signups : t # s => signup'[t] = signup[t]
  BY DEF SignupStep, CountUsers, ScanEmail, ClaimEmail, PutProfile, Unclaim, SignupDies, SignupGoes
<1>4. ASSUME UNCHANGED claims, full \subseteq full',
             Registering(s) \/ Died(s) => Owner(s)'
      PROVE  BackInv'
  <2>1. \A u \in Users : Owner(u) => Owner(u)'
    BY <1>2, <1>3, <1>4 DEF Owner, Registering, Died
  <2> QED
    BY <1>0, <1>4, <2>1, SameClaims
<1>5. ASSUME NEW from, NEW to \in SignupPc, SignupGoes(s, from, to)
      PROVE  signup[s].pc = from /\ signup'[s].pc = to
  BY <1>5 DEF SignupGoes, Signup
<1>6. CASE CountUsers(s)
  <2>1. UNCHANGED <<full, claims>> /\ signup[s].pc = "idle"
    BY <1>6 DEF CountUsers
  <2> QED
    BY <1>4, <2>1 DEF Registering, Died
<1>7. CASE ScanEmail(s)
  <2>1. UNCHANGED <<full, claims>> /\ signup[s].pc = "counted"
    BY <1>7 DEF ScanEmail, SignupGoes
  <2> QED
    BY <1>4, <2>1 DEF Registering, Died
<1>8. CASE SignupDies(s)
  <2>1. UNCHANGED <<full, claims>> /\ signup'[s].pc = "dead"
    BY <1>8 DEF SignupDies, SignupGoes, Signup
  <2> QED
    BY <1>4, <2>1 DEF Owner, Died
<1>9. CASE ClaimEmail(s)
  <2>0. signup[s].pc = "scanned" /\ UNCHANGED full
    BY <1>9 DEF ClaimEmail, SignupGoes
  <2>1. CASE claims[Key(s)] = Nobody /\ SignupGoes(s, "scanned", "claimed")
             /\ claims' = [claims EXCEPT ![Key(s)] = s]
    <3>1. Owner(s)'
      BY <1>5, <2>1 DEF Owner, Registering, SignupPc
    <3>2. \A u \in Users : Owner(u) => Owner(u)'
      BY <1>2, <1>3, <2>0, <3>1 DEF Owner, Registering, Died
    <3>3. \A u \in Users : claims'[Key(u)] = u => u = s \/ claims[Key(u)] = u
      BY <1>1, <2>1, KeyType
    <3>4. \A k \in Keys : claims'[k] # Nobody => Key(claims'[k]) = k
      BY <1>1, <2>1 DEF BackInv
    <3>5. ~Grown(s)
      BY <1>1, <2>0 DEF Grown
    <3>6. ASSUME NEW d \in Deletions, deletion[d].pc = "deleting", "claim" \notin deletion[d].left
          PROVE  claims'[Key(Leaver[d])] # Leaver[d]
      <4>1. Leaver[d] # s /\ Leaver[d] \in Users
        BY <3>5, <3>6, AccountsAssumption DEF ClaimInv, GrownInv
      <4> QED
        BY <3>3, <3>6, <4>1 DEF BackInv
    <3>7. sweep.pc = "deleting" /\ "claim" \notin sweep.left => claims'[Key(sweep.user)] # sweep.user
      BY <3>3, <3>5 DEF ClaimInv, GrownInv, BackInv
    <3> QED
      BY <1>0, <3>1, <3>2, <3>3, <3>4, <3>6, <3>7 DEF BackInv
  <2>2. CASE UNCHANGED claims
    BY <1>4, <2>0, <2>2 DEF Registering, Died
  <2> QED
    BY <1>9, <2>1, <2>2 DEF ClaimEmail
<1>10. CASE PutProfile(s)
  <2>1. CASE SignupGoes(s, "claimed", "done") /\ full' = full \cup {s}
    BY <1>4, <1>10, <2>1 DEF PutProfile, Owner
  <2>2. CASE SignupGoes(s, "claimed", "unclaim") /\ UNCHANGED full
    <3>1. Owner(s)'
      BY <1>5, <2>2 DEF Owner, Registering, SignupPc
    <3> QED
      BY <1>4, <1>10, <2>2, <3>1 DEF PutProfile
  <2> QED
    BY <1>10, <2>1, <2>2 DEF PutProfile
<1>11. CASE Unclaim(s)
  <2>1. claims' = [claims EXCEPT ![Key(s)] = Nobody] /\ UNCHANGED full
    BY <1>11 DEF Unclaim
  <2>2. \A k \in Keys : claims'[k] # Nobody => claims'[k] = claims[k] /\ k # Key(s)
    BY <1>1, <2>1
  <2>3. \A u \in Users : claims'[Key(u)] = u => claims[Key(u)] = u /\ u # s
    BY <2>2, KeyType, AccountsAssumption
  <2>4. \A u \in Users : u # s /\ Owner(u) => Owner(u)'
    BY <1>2, <1>3, <2>1 DEF Owner, Registering, Died
  <2>5. ASSUME NEW d \in Deletions, deletion[d].pc = "deleting", "claim" \notin deletion[d].left
        PROVE  claims'[Key(Leaver[d])] # Leaver[d]
    BY <2>3, <2>5, AccountsAssumption DEF BackInv
  <2>6. sweep.pc = "deleting" /\ "claim" \notin sweep.left => claims'[Key(sweep.user)] # sweep.user
    BY <2>3 DEF BackInv
  <2>7. \A k \in Keys : claims'[k] # Nobody => Key(claims'[k]) = k
    BY <2>2 DEF BackInv
  <2> QED
    BY <1>0, <2>3, <2>4, <2>5, <2>6, <2>7 DEF BackInv
<1> QED
  BY <1>6, <1>7, <1>8, <1>9, <1>10, <1>11 DEF SignupStep

(* The removal of an item of an account under deletion takes no claim from *)
(* anybody else.                                                           *)
LEMMA RemoveBacked ==
  ASSUME TypeOK, NEW u \in Users, NEW x \in Item, RemoveItem(u, x), BackInv, Nobody \notin Users
  PROVE  /\ \A k \in Keys : claims'[k] # Nobody => claims'[k] = claims[k]
         /\ x = "claim" => claims'[Key(u)] = Nobody
         /\ \A v \in Users : v # u /\ v \in full => v \in full'
<1>1. CASE x = "profile"
  BY <1>1 DEF RemoveItem
<1>2. CASE x = "claim"
  BY <1>2, KeyType DEF RemoveItem, TypeOK
<1> QED
  BY <1>1, <1>2 DEF Item

LEMMA DeletionBacked ==
  ASSUME Alone, TypeOK, ClaimInv, BackInv, NEW d \in Deletions, DeletionStep(d) \/ DeletionDies(d)
  PROVE  BackInv'
<1> USE DEF TypeOK, itemVars
<1>0. /\ Leaver[d] \in Users /\ Nobody \notin Users /\ deletion[d] \in Deletion
  BY AccountsAssumption DEF Deletion
<1>1. sweep.pc = "idle" /\ sweep.user = Nobody
  BY DEF Alone, EraseInv, ClaimInv
<1>2. UNCHANGED <<signup, edit, sweep>>
  BY DEF DeletionStep, AskDeletion, ListDeletion, DeleteItem, EndDeletion, DeletionDies
<1>3. \A c \in Deletions : c # d => deletion'[c] = deletion[c] /\ Leaver[c] # Leaver[d]
  BY DEF DeletionStep, AskDeletion, ListDeletion, DeleteItem, EndDeletion, DeletionDies, Alone
<1>4. \A u : /\ Registering(u)' <=> Registering(u)
             /\ Died(u)' <=> Died(u)
             /\ u # Leaver[d] => (Unreleased(u)' <=> Unreleased(u))
  BY <1>2, <1>3 DEF Registering, Died, Unreleased
<1>5. CASE AskDeletion(d)
  <2>1. PICK to \in {"allowed", "refused"} : deletion' = [deletion EXCEPT ![d] = [deletion[d] EXCEPT !.pc = to]]
    BY <1>5 DEF AskDeletion
  <2>2. deletion'[d].pc = to /\ deletion[d].pc = "idle" /\ UNCHANGED <<full, claims>>
    BY <1>0, <1>5, <2>1 DEF Deletion, AskDeletion
  <2>3. Unreleased(Leaver[d])' <=> Unreleased(Leaver[d])
    BY <1>2, <1>3, <2>2 DEF Unreleased
  <2> QED
    BY <1>2, <1>3, <1>4, <2>2, <2>3, SameClaims DEF Owner
<1>6. CASE ListDeletion(d)
  <2>1. UNCHANGED <<full, claims>> /\ deletion[d].pc = "allowed"
    BY <1>6 DEF ListDeletion
  <2>2. ~Unreleased(Leaver[d])
    BY <1>0, <1>1, <2>1 DEF Unreleased, Alone
  <2>3. Grown(Leaver[d])
    BY <2>1 DEF ClaimInv, GrownInv
  <2>4. Leaver[d] \notin full => claims[Key(Leaver[d])] # Leaver[d]
    BY <1>0, <2>2, <2>3, AccountsAssumption DEF BackInv, Owner, Grown, Registering, Died
  <2>5. CASE deletion'[d] = [deletion[d] EXCEPT !.pc = "deleting", !.left = ItemsOf(Leaver[d])]
    <3>1. deletion'[d].pc = "deleting" /\ deletion'[d].left = ItemsOf(Leaver[d])
      BY <1>0, <2>5 DEF Deletion
    <3>2. "claim" \notin deletion'[d].left => claims[Key(Leaver[d])] # Leaver[d]
      BY <2>4, <3>1 DEF ItemsOf, Item
    <3>3. \A u : Owner(u) => Owner(u)'
      BY <1>4, <2>1, <2>2 DEF Owner
    <3> QED
      BY <1>1, <1>2, <1>3, <2>1, <3>1, <3>2, <3>3 DEF BackInv
  <2>6. CASE deletion'[d] = [deletion[d] EXCEPT !.pc = "refused"]
    <3>1. deletion'[d].pc = "refused"
      BY <1>0, <2>6 DEF Deletion
    <3>2. \A u : Owner(u) => Owner(u)'
      BY <1>4, <2>1, <2>2 DEF Owner
    <3> QED
      BY <1>2, <1>3, <2>1, <3>1, <3>2, SameClaims
  <2> QED
    BY <1>6, <2>5, <2>6 DEF ListDeletion
<1>7. CASE DeleteItem(d)
  <2>1. PICK x \in deletion[d].left :
          RemoveItem(Leaver[d], x) /\ deletion' = [deletion EXCEPT ![d].left = @ \ {x}]
    BY <1>7 DEF DeleteItem
  <2>2. /\ deletion[d].pc = "deleting" /\ deletion'[d].pc = "deleting"
        /\ deletion'[d].left = deletion[d].left \ {x} /\ x \in Item
    BY <1>0, <1>7, <2>1 DEF DeleteItem, Deletion
  <2>3. /\ \A k \in Keys : claims'[k] # Nobody => claims'[k] = claims[k]
        /\ x = "claim" => claims'[Key(Leaver[d])] = Nobody
        /\ \A v \in Users : v # Leaver[d] /\ v \in full => v \in full'
    BY <1>0, <2>1, <2>2, RemoveBacked
  <2>4. claims'[Key(Leaver[d])] = Leaver[d] => Unreleased(Leaver[d])'
    <3>1. claims'[Key(Leaver[d])] = Leaver[d] => x # "claim" /\ claims[Key(Leaver[d])] = Leaver[d]
      BY <1>0, <2>3, KeyType
    <3>2. claims'[Key(Leaver[d])] = Leaver[d] => "claim" \in deletion'[d].left
      BY <2>2, <3>1 DEF BackInv
    <3> QED
      BY <2>2, <3>2 DEF Unreleased
  <2>5. \A u \in Users : claims'[Key(u)] = u /\ Owner(u) => Owner(u)'
    BY <1>4, <2>3, <2>4 DEF Owner
  <2>6. \A u \in Users : claims'[Key(u)] = u => claims[Key(u)] = u
    BY <1>0, <2>3, KeyType
  <2>7. \A k \in Keys : claims'[k] # Nobody => Key(claims'[k]) = k
    BY <2>3 DEF BackInv
  <2>8. ASSUME NEW c \in Deletions, deletion'[c].pc = "deleting", "claim" \notin deletion'[c].left
        PROVE  claims'[Key(Leaver[c])] # Leaver[c]
    <3>1. CASE c = d /\ x = "claim"
      BY <1>0, <2>3, <3>1
    <3>2. CASE c # d \/ x # "claim"
      BY <1>3, <2>2, <2>6, <2>8, <3>2, AccountsAssumption DEF BackInv
    <3> QED
      BY <3>1, <3>2
  <2> QED
    BY <1>1, <1>2, <2>5, <2>6, <2>7, <2>8 DEF BackInv
<1>8. CASE EndDeletion(d)
  <2>1. deletion[d].pc = "deleting" /\ deletion'[d].pc = "done" /\ UNCHANGED <<full, claims>>
        /\ deletion[d].left = {}
    BY <1>0, <1>8 DEF EndDeletion, Deletion
  <2>2. claims[Key(Leaver[d])] # Leaver[d]
    BY <2>1 DEF BackInv
  <2>3. \A u \in Users : Owner(u) /\ claims[Key(u)] = u => Owner(u)'
    BY <1>4, <2>1, <2>2 DEF Owner
  <2> QED
    BY <1>2, <1>3, <2>1, <2>3, SameClaims
<1>9. CASE DeletionDies(d)
  <2>1. /\ deletion[d].pc = "deleting" /\ deletion'[d].pc = "dead" /\ UNCHANGED <<full, claims>>
        /\ deletion'[d].left = deletion[d].left
    BY <1>0, <1>9 DEF DeletionDies, Deletion
  <2>2. claims[Key(Leaver[d])] = Leaver[d] => Unreleased(Leaver[d])'
    BY <2>1 DEF BackInv, Unreleased
  <2>3. \A u \in Users : Owner(u) /\ claims[Key(u)] = u => Owner(u)'
    BY <1>4, <2>1, <2>2 DEF Owner
  <2> QED
    BY <1>2, <1>3, <2>1, <2>3, SameClaims
<1> QED
  BY <1>5, <1>6, <1>7, <1>8, <1>9 DEF DeletionStep

LEMMA SweepBacked ==
  ASSUME Alone, TypeOK, ClaimInv, BackInv, SweepStep \/ SweepDies
  PROVE  BackInv'
<1> USE DEF TypeOK, itemVars
<1>0. Deletions = {} /\ Nobody \notin Users
  BY AccountsAssumption
     DEF Alone, ClaimInv, EraseInv, SweepStep, ScanProfiles, SkipProfile, StartClock, ListProfile,
         SweepItem, EndProfile, EndSweep, SweepDies
<1>1. UNCHANGED signup
  BY DEF SweepStep, ScanProfiles, SkipProfile, StartClock, ListProfile, SweepItem,
         EndProfile, EndSweep, SweepDies
<1>2. \A u : /\ Registering(u)' <=> Registering(u)
             /\ Died(u)' <=> Died(u)
             /\ Unreleased(u) <=> sweep.user = u /\ "claim" \in sweep.left
             /\ Unreleased(u)' <=> sweep'.user = u /\ "claim" \in sweep'.left
  BY <1>0, <1>1 DEF Registering, Died, Unreleased
<1>3. ASSUME UNCHANGED <<full, claims>>, sweep'.user = sweep.user, sweep'.left = sweep.left,
             sweep'.pc = "deleting" => sweep.pc = "deleting"
      PROVE  BackInv'
  <2>1. \A u : Owner(u) => Owner(u)'
    BY <1>2, <1>3 DEF Owner
  <2> QED
    BY <1>0, <1>3, <2>1, SameClaims
<1>4. CASE ScanProfiles
  BY <1>3, <1>4 DEF ScanProfiles
<1>5. ASSUME NEW p \in sweep.page, SkipProfile(p) PROVE BackInv'
  BY <1>3, <1>5 DEF SkipProfile
<1>6. ASSUME NEW p \in sweep.page, StartClock(p) PROVE BackInv'
  <2>1. UNCHANGED <<full, claims>> /\ sweep'.user = sweep.user /\ sweep'.left = sweep.left
        /\ sweep'.pc \in {sweep.pc, "aborted"}
    BY <1>6 DEF StartClock
  <2> QED
    BY <1>3, <2>1
<1>7. ASSUME NEW p \in sweep.page, ListProfile(p) PROVE BackInv'
  <2>1. CASE sweep' = [sweep EXCEPT !.pc = "aborted"]
    BY <1>3, <1>7, <2>1 DEF ListProfile
  <2>2. CASE sweep' = [sweep EXCEPT !.pc = "deleting", !.page = @ \ {p}, !.user = p.user,
                                    !.left = ItemsOf(p.user)]
    <3>1. /\ UNCHANGED <<full, claims>> /\ sweep.pc = "next"
          /\ sweep'.user = p.user /\ sweep'.left = ItemsOf(p.user)
      BY <1>7, <2>2 DEF ListProfile
    <3>2. sweep.user = Nobody /\ p.user \in Users /\ Grown(p.user)
      BY <3>1 DEF ClaimInv, EraseInv, GrownInv, Snapshot
    <3>3. p.user \notin full => claims[Key(p.user)] # p.user
      BY <1>0, <1>2, <3>2, AccountsAssumption DEF BackInv, Owner, Grown, Registering, Died
    <3>4. "claim" \notin sweep'.left => claims[Key(p.user)] # p.user
      BY <3>1, <3>3 DEF ItemsOf, Item
    <3>5. \A u \in Users : Owner(u) => Owner(u)'
      BY <1>0, <1>2, <3>1, <3>2 DEF Owner
    <3> QED
      BY <1>0, <3>1, <3>4, <3>5 DEF BackInv
  <2> QED
    BY <1>7, <2>1, <2>2 DEF ListProfile
<1>8. CASE SweepItem
  <2>1. PICK x \in sweep.left :
          RemoveItem(sweep.user, x) /\ sweep' = [sweep EXCEPT !.left = sweep.left \ {x}]
    BY <1>8 DEF SweepItem
  <2>2. /\ sweep.pc = "deleting" /\ sweep'.pc = "deleting" /\ sweep'.user = sweep.user
        /\ sweep'.left = sweep.left \ {x} /\ x \in Item /\ sweep.user \in Users
    BY <1>8, <2>1 DEF SweepItem
  <2>3. /\ \A k \in Keys : claims'[k] # Nobody => claims'[k] = claims[k]
        /\ x = "claim" => claims'[Key(sweep.user)] = Nobody
        /\ \A v \in Users : v # sweep.user /\ v \in full => v \in full'
    BY <1>0, <2>1, <2>2, RemoveBacked
  <2>4. \A u \in Users : claims'[Key(u)] = u => Owner(u)'
    <3>1. ASSUME claims'[Key(sweep.user)] = sweep.user
          PROVE  Unreleased(sweep.user)'
      <4>1. x # "claim" /\ claims[Key(sweep.user)] = sweep.user
        BY <1>0, <2>2, <2>3, <3>1, KeyType
      <4> QED
        BY <1>2, <2>2, <4>1 DEF BackInv
    <3>2. \A u \in Users : claims'[Key(u)] = u => claims[Key(u)] = u
      BY <1>0, <2>3, KeyType
    <3> QED
      BY <1>2, <2>2, <2>3, <3>1, <3>2 DEF Owner, BackInv
  <2>5. \A u \in Users : claims'[Key(u)] = u => claims[Key(u)] = u
    BY <1>0, <2>3, KeyType
  <2>6. \A k \in Keys : claims'[k] # Nobody => Key(claims'[k]) = k
    BY <2>3 DEF BackInv
  <2>7. "claim" \notin sweep'.left => claims'[Key(sweep.user)] # sweep.user
    <3>1. CASE x = "claim"
      BY <1>0, <2>2, <2>3, <3>1
    <3>2. CASE x # "claim"
      BY <2>2, <2>5, <3>2 DEF BackInv
    <3> QED
      BY <3>1, <3>2
  <2> QED
    BY <1>0, <2>2, <2>4, <2>5, <2>6, <2>7 DEF BackInv
<1>9. CASE EndProfile
  <2>1. /\ UNCHANGED <<full, claims>> /\ sweep.pc = "deleting" /\ sweep'.pc = "next"
        /\ sweep.left = {} /\ sweep'.user = Nobody
    BY <1>9 DEF EndProfile
  <2>2. claims[Key(sweep.user)] # sweep.user
    BY <2>1 DEF BackInv
  <2>3. \A u \in Users : Owner(u) /\ claims[Key(u)] = u => Owner(u)'
    BY <1>2, <2>1, <2>2 DEF Owner
  <2> QED
    BY <1>0, <2>1, <2>3, SameClaims
<1>10. CASE EndSweep \/ SweepDies
  BY <1>3, <1>10 DEF EndSweep, SweepDies
<1> QED
  BY <1>4, <1>5, <1>6, <1>7, <1>8, <1>9, <1>10 DEF SweepStep

(* The edits and visits change no claim, no whole profile and no process   *)
(* that deletes or registers.                                              *)
LEMMA OtherBacked ==
  ASSUME BackInv, UNCHANGED <<full, claims, signup, deletion, sweep>>
  PROVE  BackInv'
BY DEF BackInv, Owner, Unreleased, Registering, Died

(* A claim is held by an account, by a registration under way or whose     *)
(* process died, or by an account whose deletion, under way or stopped for *)
(* good, has yet to delete it: failed puts and deletions that go through   *)
(* leave none behind (create_user, delete_user_data).                      *)
THEOREM ClaimsBacked == Alone => (Spec => []ClaimBacked)
<1> SUFFICES ASSUME Alone PROVE Spec => []ClaimBacked
  OBVIOUS
<1>1. Init => BackInv
  <2> SUFFICES ASSUME Init PROVE BackInv
    OBVIOUS
  <2>1. \A d \in Deletions : deletion[d].pc = "idle"
    BY DEF Init
  <2>2. \A k \in Keys : claims[k] \in Founders \cup {Nobody}
    BY DEF Init
  <2> QED
    BY <2>1, <2>2, KeyType, AccountsAssumption DEF Init, BackInv, Owner, Users
<1>2. TypeOK /\ ClaimInv /\ BackInv /\ [Next]_vars => BackInv'
  <2> SUFFICES ASSUME TypeOK, ClaimInv, BackInv, [Next]_vars PROVE BackInv'
    OBVIOUS
  <2>1. ASSUME NEW e \in Edits, EditStep(e) PROVE BackInv'
    <3>1. UNCHANGED <<full, claims, signup, deletion, sweep>>
      BY <2>1 DEF EditStep, AskEdit, ReadTarget, WriteTarget, InvalidateTarget, itemVars
    <3> QED
      BY <3>1, OtherBacked
  <2>2. ASSUME NEW i \in Instances, NEW u \in Users, Visit(i, u) \/ Forget(i, u) PROVE BackInv'
    <3>1. UNCHANGED <<full, claims, signup, deletion, sweep>>
      BY <2>2 DEF Visit, Forget, itemVars, procVars
    <3> QED
      BY <3>1, OtherBacked
  <2>3. CASE UNCHANGED vars
    BY <2>3, OtherBacked DEF vars, itemVars, procVars
  <2> QED
    BY <2>1, <2>2, <2>3, SignupBacked, DeletionBacked, SweepBacked DEF Next
<1>3. TypeOK /\ BackInv => ClaimBacked
  BY KeyType DEF TypeOK, BackInv, Owner, ClaimBacked
<1> QED
  BY <1>1, <1>2, <1>3, TypeCorrect, ClaimInvariant, PTL DEF Spec

-----------------------------------------------------------------------------
(* What one step may do to each part of the state, whoever takes it.       *)

(* A profile appears whole by the put of its registration, or in part by   *)
(* an edit or the retention run.                                           *)
FullStep ==
  \A u \in Users : u \in full' /\ u \notin full =>
    /\ u \in Signups
    /\ signup[u].pc = "claimed"
    /\ signup'[u].pc = "done"

PartialStep ==
  \A u \in Users : u \in partial' /\ u \notin partial =>
    \/ \E e \in Edits : edit[e].pc = "write" /\ Target[e] = u
    \/ \E p \in sweep.page : p.user = u

(* It is removed by a deletion or by the retention run.                    *)
LeaveStep ==
  \A u \in Users : u \in full /\ u \notin full' =>
    \/ \E d \in Deletions : /\ Leaver[d] = u
                            /\ deletion[d].pc = "deleting"
                            /\ "profile" \in deletion[d].left
    \/ sweep.pc = "deleting" /\ sweep.user = u /\ "profile" \in sweep.left

(* Its role changes by an edit.                                            *)
RoleStep ==
  \A u \in Users : u \in full /\ u \in full' /\ role'[u] # role[u] =>
    \/ \E e \in Edits : WriteTarget(e) /\ Target[e] = u /\ NewRole[e] = role'[u]
    \/ u \in Signups /\ signup[u].pc = "claimed"

(* A role is cached, or put on the retention run's page, as it is.         *)
CacheStep ==
  \A i \in Instances, u \in Users : cache'[i][u] \notin {"none", cache[i][u]} =>
    u \in full /\ cache'[i][u] = role[u] /\ UNCHANGED <<full, role>>

PageStep ==
  \A p \in sweep'.page : p \notin sweep.page =>
    /\ p.user \in full \cup partial
    /\ p.role = role[p.user]
    /\ p.seen = seen[p.user]
    /\ UNCHANGED <<full, partial, role, seen>>

(* A deletion is let through for a role that is not kept, a profile is     *)
(* taken from the page for being inactive and not kept; either removes     *)
(* what it listed.                                                         *)
DeletionsStep ==
  \A d \in Deletions :
    /\ deletion'[d].pc = "allowed" => deletion[d].pc = "allowed"
         \/ (/\ RoleSeen(deletion[d].at, Leaver[d]) \notin Kept
             /\ Authenticates(deletion[d].at, Leaver[d])
             /\ UNCHANGED <<full, role>>)
    /\ deletion'[d].pc = "deleting" => deletion[d].pc = "allowed"
         \/ (deletion[d].pc = "deleting" /\ deletion'[d].left \subseteq deletion[d].left)

SweepsStep ==
  sweep'.pc = "deleting" =>
    \/ /\ sweep.pc = "deleting"
       /\ sweep'.user = sweep.user
       /\ sweep'.left \subseteq sweep.left
    \/ /\ \E p \in sweep.page : p.user = sweep'.user /\ p.role \notin Kept /\ p.seen = "stale"
       /\ UNCHANGED <<full, role, seen>>

(* An edit goes on to its write only if its target has a profile.          *)
EditsStep ==
  \A e \in Edits : edit'[e].pc = "write" => edit[e].pc = "write" \/ Target[e] \in full

Table == /\ FullStep /\ PartialStep /\ LeaveStep /\ RoleStep /\ CacheStep
         /\ PageStep /\ DeletionsStep /\ SweepsStep /\ EditsStep

LEMMA SignupTable ==
  ASSUME TypeOK, NEW s \in Signups, SignupStep(s) \/ SignupDies(s)
  PROVE  Table
<1> USE DEF itemVars
<1>1. UNCHANGED <<cache, deletion, edit, sweep>>
  BY DEF SignupStep, CountUsers, ScanEmail, ClaimEmail, PutProfile, Unclaim, SignupDies
<1>2. s \in Users
  BY DEF Users
<1>3. \/ UNCHANGED <<full, partial, role>>
      \/ /\ SignupGoes(s, "claimed", "done")
         /\ full' = full \cup {s}
         /\ partial' = partial \ {s}
         /\ \A u \in Users : u # s => role'[u] = role[u]
  BY <1>2 DEF TypeOK, SignupStep, CountUsers, ScanEmail, ClaimEmail, PutProfile, Unclaim, SignupDies
<1>4. SignupGoes(s, "claimed", "done") => signup[s].pc = "claimed" /\ signup'[s].pc = "done"
  <2>1. signup[s] \in Signup
    BY DEF TypeOK
  <2> QED
    BY <2>1 DEF SignupGoes, Signup, TypeOK
<1>5. FullStep /\ PartialStep /\ LeaveStep /\ RoleStep
  BY <1>3, <1>4 DEF FullStep, PartialStep, LeaveStep, RoleStep
<1>6. CacheStep /\ PageStep /\ DeletionsStep /\ SweepsStep /\ EditsStep
  BY <1>1 DEF CacheStep, PageStep, DeletionsStep, SweepsStep, EditsStep
<1> QED
  BY <1>5, <1>6 DEF Table

(* What the cache gains by a request, and loses.                           *)
LEMMA ResolveTable ==
  ASSUME TypeOK, NEW i \in Instances, NEW u \in Users, Resolve(i, u), Authenticates(i, u),
         UNCHANGED <<full, role>>
  PROVE  CacheStep
BY DEF Resolve, RoleSeen, Authenticates, CacheStep, TypeOK

LEMMA ForgetTable ==
  ASSUME TypeOK, NEW i \in Instances, NEW u \in Users,
         cache' = [cache EXCEPT ![i] = [@ EXCEPT ![u] = "none"]]
  PROVE  CacheStep
BY DEF CacheStep, TypeOK

(* What is untouched takes no step.                                        *)
LEMMA QuietTable ==
  /\ UNCHANGED <<full, partial, role>> => FullStep /\ PartialStep /\ LeaveStep /\ RoleStep
  /\ UNCHANGED cache => CacheStep
  /\ UNCHANGED sweep => PageStep /\ SweepsStep
  /\ UNCHANGED deletion => DeletionsStep
  /\ UNCHANGED edit => EditsStep
BY DEF FullStep, PartialStep, LeaveStep, RoleStep, CacheStep, PageStep, SweepsStep,
       DeletionsStep, EditsStep

LEMMA RemoveTable ==
  ASSUME TypeOK, NEW v \in Users, NEW x \in Item, RemoveItem(v, x)
  PROVE  /\ full' \subseteq full /\ partial' \subseteq partial
         /\ \A u \in Users : u \in full /\ u \notin full' => u = v /\ x = "profile"
         /\ \A u \in full' : role'[u] = role[u]
BY DEF RemoveItem, TypeOK

LEMMA DeletionTable ==
  ASSUME TypeOK, NEW d \in Deletions, DeletionStep(d) \/ DeletionDies(d)
  PROVE  Table
<1> USE DEF itemVars
<1>0. Leaver[d] \in Users /\ deletion[d] \in Deletion /\ deletion[d].at \in Instances
  BY AccountsAssumption DEF TypeOK, Deletion
<1>1. UNCHANGED <<signup, edit, sweep>>
  BY DEF DeletionStep, AskDeletion, ListDeletion, DeleteItem, EndDeletion, DeletionDies
<1>2. \A c \in Deletions : c # d => deletion'[c] = deletion[c]
  BY DEF DeletionStep, AskDeletion, ListDeletion, DeleteItem, EndDeletion, DeletionDies,
         TypeOK
<1>3. CASE AskDeletion(d)
  <2>1. UNCHANGED <<full, partial, role>>
    BY <1>3 DEF AskDeletion
  <2>2. CacheStep
    BY <1>0, <1>3, <2>1, ResolveTable, QuietTable DEF AskDeletion
  <2>3. \/ deletion'[d].pc = "refused"
        \/ /\ deletion'[d].pc = "allowed"
           /\ RoleSeen(deletion[d].at, Leaver[d]) \notin Kept
           /\ Authenticates(deletion[d].at, Leaver[d])
    <3>1. \A to : deletion' = [deletion EXCEPT ![d] = [deletion[d] EXCEPT !.pc = to]]
                    => deletion'[d].pc = to
      BY <1>0 DEF TypeOK, Deletion
    <3> QED
      BY <1>3, <3>1 DEF AskDeletion
  <2>4. DeletionsStep
    BY <1>2, <2>1, <2>3 DEF DeletionsStep
  <2> QED
    BY <1>1, <2>1, <2>2, <2>4, QuietTable DEF Table
<1>4. CASE ListDeletion(d)
  <2>1. deletion'[d].pc \in {"deleting", "refused"} /\ deletion[d].pc = "allowed"
    BY <1>0, <1>4 DEF ListDeletion, TypeOK, Deletion
  <2>2. DeletionsStep
    BY <1>2, <2>1 DEF DeletionsStep
  <2> QED
    BY <1>1, <1>4, <2>2, QuietTable DEF Table, ListDeletion
<1>5. CASE DeleteItem(d)
  <2>1. PICK x \in deletion[d].left :
          RemoveItem(Leaver[d], x) /\ deletion' = [deletion EXCEPT ![d].left = @ \ {x}]
    BY <1>5 DEF DeleteItem
  <2>2. /\ deletion[d].pc = "deleting" /\ deletion'[d].pc = "deleting"
        /\ deletion'[d].left = deletion[d].left \ {x} /\ x \in Item
    BY <1>0, <1>5, <2>1 DEF DeleteItem, Deletion, TypeOK
  <2>3. DeletionsStep
    BY <1>2, <2>2 DEF DeletionsStep
  <2>4. FullStep /\ PartialStep /\ LeaveStep /\ RoleStep
    <3>1. /\ full' \subseteq full /\ partial' \subseteq partial
          /\ \A u \in Users : u \in full /\ u \notin full' => u = Leaver[d] /\ x = "profile"
          /\ \A u \in full' : role'[u] = role[u]
      BY <1>0, <2>1, <2>2, RemoveTable
    <3> QED
      BY <2>2, <3>1 DEF FullStep, PartialStep, LeaveStep, RoleStep
  <2> QED
    BY <1>1, <1>5, <2>3, <2>4, QuietTable DEF Table, DeleteItem
<1>6. CASE EndDeletion(d)
  <2>1. deletion'[d].pc = "done"
    BY <1>0, <1>6 DEF EndDeletion, TypeOK, Deletion
  <2>2. DeletionsStep
    BY <1>2, <2>1 DEF DeletionsStep
  <2>3. CacheStep
    BY <1>0, <1>6, ForgetTable DEF EndDeletion
  <2> QED
    BY <1>1, <1>6, <2>2, <2>3, QuietTable DEF Table, EndDeletion
<1>7. CASE DeletionDies(d)
  <2>1. deletion'[d].pc = "dead"
    BY <1>0, <1>7 DEF DeletionDies, TypeOK, Deletion
  <2>2. DeletionsStep
    BY <1>2, <2>1 DEF DeletionsStep
  <2> QED
    BY <1>1, <1>7, <2>2, QuietTable DEF Table, DeletionDies
<1> QED
  BY <1>3, <1>4, <1>5, <1>6, <1>7 DEF DeletionStep

LEMMA EditTable ==
  ASSUME TypeOK, NEW e \in Edits, EditStep(e)
  PROVE  Table
<1> USE DEF itemVars
<1>0. /\ Actor[e] \in Users /\ Target[e] \in Users /\ edit[e] \in Edit
      /\ edit[e].at \in Instances
  BY AccountsAssumption DEF TypeOK, Edit
<1>1. UNCHANGED <<full, signup, deletion, sweep>>
  BY DEF EditStep, AskEdit, ReadTarget, WriteTarget, InvalidateTarget
<1>2. \A f \in Edits : f # e => edit'[f] = edit[f]
  BY DEF EditStep, AskEdit, ReadTarget, WriteTarget, InvalidateTarget, EditGoes, TypeOK
<1>3. ASSUME NEW from, NEW to, EditGoes(e, from, to)
      PROVE  edit[e].pc = from /\ edit'[e].pc = to
  BY <1>0, <1>3 DEF EditGoes, Edit, TypeOK
<1>4. EditsStep
  <2>1. edit'[e].pc = "write" => Target[e] \in full
    BY <1>3 DEF EditStep, AskEdit, ReadTarget, WriteTarget, InvalidateTarget
  <2> QED
    BY <1>2, <2>1 DEF EditsStep
<1>5. CASE AskEdit(e)
  <2>1. UNCHANGED <<full, partial, role>>
    BY <1>5 DEF AskEdit
  <2>2. CacheStep
    BY <1>0, <1>5, <2>1, ResolveTable, QuietTable DEF AskEdit
  <2> QED
    BY <1>1, <1>4, <2>1, <2>2, QuietTable DEF Table
<1>6. CASE ReadTarget(e)
  BY <1>1, <1>4, <1>6, QuietTable DEF Table, ReadTarget
<1>7. CASE WriteTarget(e)
  <2>1. edit[e].pc = "write"
    BY <1>3, <1>7 DEF WriteTarget
  <2>2. FullStep /\ LeaveStep
    BY <1>1 DEF FullStep, LeaveStep
  <2>3. PartialStep
    BY <1>7, <2>1 DEF PartialStep, WriteTarget
  <2>4. RoleStep
    <3>1. ASSUME NEW u \in Users, role'[u] # role[u]
          PROVE  u = Target[e] /\ NewRole[e] = role'[u]
      BY <1>0, <1>7, <3>1 DEF WriteTarget, TypeOK
    <3> QED
      BY <1>7, <3>1 DEF RoleStep
  <2> QED
    BY <1>1, <1>4, <1>7, <2>2, <2>3, <2>4, QuietTable DEF Table, WriteTarget
<1>8. CASE InvalidateTarget(e)
  <2>1. CacheStep
    BY <1>0, <1>8, ForgetTable DEF InvalidateTarget
  <2> QED
    BY <1>1, <1>4, <1>8, <2>1, QuietTable DEF Table, InvalidateTarget
<1> QED
  BY <1>5, <1>6, <1>7, <1>8 DEF EditStep

LEMMA VisitTable ==
  ASSUME TypeOK, NEW i \in Instances, NEW u \in Users, Visit(i, u) \/ Forget(i, u)
  PROVE  Table
<1>1. CASE Visit(i, u)
  <2>1. CacheStep
    BY <1>1, ResolveTable DEF Visit, Authenticates
  <2> QED
    BY <1>1, <2>1, QuietTable DEF Visit, Table, procVars
<1>2. CASE Forget(i, u)
  <2>1. CacheStep
    BY <1>2, ForgetTable DEF Forget
  <2> QED
    BY <1>2, <2>1, QuietTable DEF Forget, Table, procVars, itemVars
<1> QED
  BY <1>1, <1>2

LEMMA SweepTable ==
  ASSUME TypeOK, SweepStep \/ SweepDies
  PROVE  Table
<1> USE DEF itemVars
<1>1. UNCHANGED <<cache, signup, deletion, edit>>
  BY DEF SweepStep, ScanProfiles, SkipProfile, StartClock, ListProfile, SweepItem,
         EndProfile, EndSweep, SweepDies
<1>2. CASE ScanProfiles
  <2>1. PageStep
    BY <1>2 DEF ScanProfiles, PageStep, TypeOK
  <2>2. SweepsStep
    BY <1>2 DEF ScanProfiles, SweepsStep, TypeOK
  <2> QED
    BY <1>1, <1>2, <2>1, <2>2, QuietTable DEF Table, ScanProfiles
<1>3. ASSUME NEW p \in sweep.page, SkipProfile(p) PROVE Table
  <2>1. PageStep /\ SweepsStep
    BY <1>3 DEF SkipProfile, PageStep, SweepsStep, TypeOK
  <2> QED
    BY <1>1, <1>3, <2>1, QuietTable DEF Table, SkipProfile
<1>4. ASSUME NEW p \in sweep.page, StartClock(p) PROVE Table
  <2>1. PageStep /\ SweepsStep
    BY <1>4 DEF StartClock, PageStep, SweepsStep, TypeOK
  <2>2. PartialStep
    BY <1>4 DEF StartClock, PartialStep
  <2>3. FullStep /\ LeaveStep /\ RoleStep
    BY <1>4 DEF StartClock, FullStep, LeaveStep, RoleStep
  <2> QED
    BY <1>1, <2>1, <2>2, <2>3, QuietTable DEF Table
<1>5. ASSUME NEW p \in sweep.page, ListProfile(p) PROVE Table
  <2>1. PageStep /\ SweepsStep
    BY <1>5 DEF ListProfile, PageStep, SweepsStep, TypeOK
  <2> QED
    BY <1>1, <1>5, <2>1, QuietTable DEF Table, ListProfile
<1>6. CASE SweepItem
  <2>1. PICK x \in sweep.left :
          RemoveItem(sweep.user, x) /\ sweep' = [sweep EXCEPT !.left = sweep.left \ {x}]
    BY <1>6 DEF SweepItem
  <2>2. sweep.pc = "deleting" /\ sweep.user \in Users /\ x \in Item
    BY <1>6, <2>1 DEF SweepItem, TypeOK
  <2>3. PageStep /\ SweepsStep
    BY <2>1, <2>2 DEF PageStep, SweepsStep, TypeOK
  <2>4. /\ full' \subseteq full /\ partial' \subseteq partial
        /\ \A u \in Users : u \in full /\ u \notin full' => u = sweep.user /\ x = "profile"
        /\ \A u \in full' : role'[u] = role[u]
    BY <2>1, <2>2, RemoveTable
  <2>5. FullStep /\ PartialStep /\ LeaveStep /\ RoleStep
    BY <2>2, <2>4 DEF FullStep, PartialStep, LeaveStep, RoleStep
  <2> QED
    BY <1>1, <2>3, <2>5, QuietTable DEF Table
<1>7. CASE EndProfile \/ EndSweep \/ SweepDies
  <2>1. PageStep /\ SweepsStep
    BY <1>7 DEF EndProfile, EndSweep, SweepDies, PageStep, SweepsStep, TypeOK
  <2> QED
    BY <1>1, <1>7, <2>1, QuietTable DEF Table, EndProfile, EndSweep, SweepDies
<1> QED
  BY <1>2, <1>3, <1>4, <1>5, <1>6, <1>7 DEF SweepStep

LEMMA StepTable ==
  ASSUME TypeOK, [Next]_vars
  PROVE  Table
<1>1. CASE UNCHANGED vars
  BY <1>1, QuietTable DEF Table, vars, itemVars, procVars
<1> QED
  BY <1>1, SignupTable, DeletionTable, EditTable, VisitTable, SweepTable DEF Next

(* Who has a profile, a cached role, a deletion let through or a place on  *)
(* the retention run's page has been registered: no registration will give *)
(* it another profile.                                                     *)
LEMMA GrownInvariant == Spec => []GrownInv
<1>1. Init => GrownInv
  BY DEF Init, GrownInv, Grown
<1>2. TypeOK /\ GrownInv /\ [Next]_vars => GrownInv'
  <2> SUFFICES ASSUME TypeOK, GrownInv, [Next]_vars PROVE GrownInv'
    OBVIOUS
  <2> USE DEF GrownInv, TypeOK
  <2>0. Table /\ Kept \subseteq Roles
    BY StepTable DEF Kept, Roles
  <2>1. \A u : Grown(u) => Grown(u)'
    BY GrownStays DEF vars, procVars, Grown
  <2>2. \A u \in full' \cup partial' : Grown(u)'
    <3>1. full' \subseteq Users /\ partial' \subseteq Users
      BY TypeStays
    <3> QED
      BY <2>0, <2>1, <3>1 DEF Table, FullStep, PartialStep, Grown
  <2>3. \A i \in Instances, u \in Users : cache'[i][u] # "none" => Grown(u)'
    BY <2>0, <2>1 DEF Table, CacheStep
  <2>4. \A d \in Deletions : deletion'[d].pc \in {"allowed", "deleting"} => Grown(Leaver[d])'
    <3>1. \A d \in Deletions : Leaver[d] \in Users /\ deletion[d].at \in Instances
      BY AccountsAssumption DEF Deletion
    <3>2. ASSUME NEW d \in Deletions, Authenticates(deletion[d].at, Leaver[d])
          PROVE  Grown(Leaver[d])
      BY <3>1, <3>2 DEF Authenticates
    <3> QED
      BY <2>0, <2>1, <3>2 DEF Table, DeletionsStep
  <2>5. \A e \in Edits : edit'[e].pc = "write" => Grown(Target[e])'
    BY <2>0, <2>1 DEF Table, EditsStep
  <2>6. \A p \in sweep'.page : Grown(p.user)'
    BY <2>0, <2>1 DEF Table, PageStep
  <2>7. (sweep.pc = "deleting" => Grown(sweep.user))'
    BY <2>0, <2>1 DEF Table, SweepsStep
  <2> QED
    BY <2>2, <2>3, <2>4, <2>5, <2>6, <2>7
<1> QED
  BY <1>1, <1>2, TypeCorrect, PTL DEF Spec

(* Nobody gets an outdated copy of a profile with a kept role.             *)
LEMMA KeptSeenStays ==
  ASSUME TypeOK, Table, NEW u \in Users, KeptSeen(u), role'[u] \in Kept
  PROVE  KeptSeen(u)'
<1>1. ASSUME UNCHANGED <<full, role>> PROVE role[u] \in Kept
  BY <1>1
<1>2. \A i \in Instances : cache'[i][u] \in Kept \cup {"none"}
  BY <1>1 DEF Table, CacheStep, KeptSeen
<1>3. ASSUME NEW d \in Deletions, Leaver[d] = u
      PROVE  /\ deletion'[d].pc # "allowed"
             /\ deletion'[d].pc = "deleting" => "profile" \notin deletion'[d].left
  <2>1. deletion[d].at \in Instances
    BY DEF TypeOK, Deletion
  <2>2. UNCHANGED role => RoleSeen(deletion[d].at, Leaver[d]) \in Kept
    BY <1>3, <2>1 DEF KeptSeen, RoleSeen
  <2> QED
    BY <1>3, <2>2 DEF Table, DeletionsStep, KeptSeen
<1>4. \A p \in sweep'.page : p.user = u => p.role \in Kept
  BY <1>1 DEF Table, PageStep, KeptSeen
<1>5. sweep'.pc = "deleting" /\ sweep'.user = u => "profile" \notin sweep'.left
  BY DEF Table, SweepsStep, KeptSeen
<1> QED
  BY <1>2, <1>3, <1>4, <1>5 DEF KeptSeen

(* "Admins and maintainers are kept": an account with a kept role is not   *)
(* deleted as long as no account gets such a role while somebody holds a   *)
(* copy of its profile from before (delete_my_account reads the role from  *)
(* the cache, run_retention from its page).                                *)
THEOREM KeptStayCorrect == Spec /\ PromotesQuietly => KeptStay
<1> DEFINE Quiet ==
      \A e \in Edits : LET u == Target[e] IN
        /\ WriteTarget(e)
        /\ u \in full
        /\ role[u] \notin Kept
        /\ NewRole[e] \in Kept
        => KeptSeen(u)
<1>1. Init => KeptInv
  BY DEF Init, KeptInv, KeptSeen, Users
<1>2. TypeOK /\ GrownInv /\ KeptInv /\ [Next]_vars /\ [Quiet]_vars => KeptInv'
  <2> SUFFICES ASSUME TypeOK, GrownInv, KeptInv, [Next]_vars, [Quiet]_vars,
                      NEW u \in Users, u \in full', role'[u] \in Kept
               PROVE  KeptSeen(u)'
    BY TypeStays DEF KeptInv, TypeOK
  <2>0. Table
    BY StepTable
  <2>1. CASE UNCHANGED vars
    BY <2>1 DEF vars, itemVars, procVars, KeptInv, KeptSeen
  <2>2. CASE u \notin full
    <3>1. ~Grown(u)
      BY <2>0, <2>2, AccountsAssumption DEF Table, FullStep, Grown
    <3>2. /\ \A i \in Instances : cache'[i][u] = "none"
      BY <2>0, <2>2, <3>1 DEF Table, CacheStep, GrownInv
    <3>3. \A d \in Deletions : Leaver[d] = u => deletion'[d].pc \notin {"allowed", "deleting"}
      <4>1. \A d \in Deletions : Leaver[d] \in Users /\ deletion[d].at \in Instances
        BY AccountsAssumption DEF TypeOK, Deletion
      <4> QED
        BY <2>0, <2>2, <3>1, <4>1 DEF Table, DeletionsStep, Authenticates, GrownInv
    <3>4. \A p \in sweep'.page : p.user # u
      BY <2>0, <3>1 DEF Table, PageStep, GrownInv
    <3>5. ~(sweep'.pc = "deleting" /\ sweep'.user = u)
      BY <2>0, <3>1 DEF Table, SweepsStep, GrownInv
    <3> QED
      BY <3>2, <3>3, <3>4, <3>5 DEF KeptSeen
  <2>3. CASE u \in full /\ ~UNCHANGED vars
    <3>1. KeptSeen(u)
      <4>1. CASE role[u] \in Kept
        BY <2>3, <4>1 DEF KeptInv
      <4>2. CASE role[u] \notin Kept
        <5>1. u \notin Signups \/ signup[u].pc # "claimed"
          BY <2>3, AccountsAssumption DEF GrownInv, Grown
        <5>2. PICK e \in Edits : WriteTarget(e) /\ Target[e] = u /\ NewRole[e] = role'[u]
          BY <2>0, <2>3, <4>2, <5>1 DEF Table, RoleStep
        <5> QED
          BY <2>3, <4>2, <5>2
      <4> QED
        BY <4>1, <4>2
    <3> QED
      BY <2>0, <3>1, KeptSeenStays
  <2> QED
    BY <2>1, <2>2, <2>3
<1>3. TypeOK /\ KeptInv /\ [Next]_vars => [\A u \in full : u \notin full' => role[u] \notin Kept]_vars
  <2> SUFFICES ASSUME TypeOK, KeptInv, [Next]_vars, NEW u \in full, u \notin full'
               PROVE  role[u] \notin Kept
    OBVIOUS
  <2>1. Table /\ u \in Users
    BY StepTable DEF TypeOK
  <2> QED
    BY <2>1 DEF Table, LeaveStep, KeptInv, KeptSeen
<1>4. PromotesQuietly <=> [][Quiet]_vars
  BY DEF PromotesQuietly
<1> HIDE DEF Quiet
<1> QED
  BY <1>1, <1>2, <1>3, <1>4, TypeCorrect, GrownInvariant, PTL DEF Spec, KeptStay

(* "Accounts with no activity for RETENTION_DAYS are deleted": as long as  *)
(* nobody comes back while the run holds them for inactive, it deletes no  *)
(* other account (run_retention).                                          *)
THEOREM ActiveStayCorrect == Spec /\ VisitsInTime => ActiveStay
<1> DEFINE InTime ==
      \A u \in Users : seen[u] # seen'[u] /\ u \in full' =>
        /\ \A p \in sweep.page : p.user = u => p.seen # "stale"
        /\ ~(sweep.pc = "deleting" /\ sweep.user = u)
<1>1. Init => ActiveInv
  BY DEF Init, ActiveInv
<1>2. TypeOK /\ GrownInv /\ ActiveInv /\ [Next]_vars /\ [InTime]_vars => ActiveInv'
  <2> SUFFICES ASSUME TypeOK, GrownInv, ActiveInv, [Next]_vars, [InTime]_vars
               PROVE  ActiveInv'
    OBVIOUS
  <2>0. Table
    BY StepTable
  <2>1. CASE UNCHANGED vars
    BY <2>1 DEF vars, itemVars, procVars, ActiveInv
  <2>2. CASE ~UNCHANGED vars
    <3>1. ASSUME NEW u \in Users, Grown(u), u \in full' PROVE u \in full
      BY <2>0, <3>1, AccountsAssumption DEF Table, FullStep, Grown
    <3>2. ASSUME NEW p \in sweep'.page, p.user \in full', p.seen = "stale"
          PROVE  seen'[p.user] = "stale"
      <4>1. CASE p \notin sweep.page
        BY <2>0, <3>2, <4>1 DEF Table, PageStep
      <4>2. CASE p \in sweep.page
        <5>1. p.user \in Users /\ Grown(p.user)
          BY <4>2 DEF TypeOK, Snapshot, GrownInv
        <5>2. seen[p.user] = "stale"
          BY <3>1, <3>2, <4>2, <5>1 DEF ActiveInv
        <5> QED
          BY <2>2, <3>2, <4>2, <5>1, <5>2
      <4> QED
        BY <4>1, <4>2
    <3>3. ASSUME sweep'.pc = "deleting", sweep'.user \in full'
          PROVE  seen'[sweep'.user] = "stale"
      <4>1. CASE sweep.pc = "deleting" /\ sweep'.user = sweep.user
        <5>1. sweep.user \in Users /\ Grown(sweep.user)
          BY <4>1 DEF TypeOK, GrownInv
        <5>2. seen[sweep.user] = "stale"
          BY <3>1, <3>3, <4>1, <5>1 DEF ActiveInv
        <5> QED
          BY <2>2, <3>3, <4>1, <5>1, <5>2
      <4>2. CASE /\ \E p \in sweep.page : p.user = sweep'.user /\ p.seen = "stale"
                 /\ UNCHANGED <<full, seen>>
        BY <3>3, <4>2 DEF ActiveInv
      <4> QED
        BY <2>0, <3>3, <4>1, <4>2 DEF Table, SweepsStep
    <3> QED
      BY <3>2, <3>3 DEF ActiveInv
  <2> QED
    BY <2>1, <2>2
<1>3. TypeOK /\ ActiveInv
        => [SweepItem => \A u \in full : u \notin full' => seen[u] = "stale"]_vars
  <2> SUFFICES ASSUME TypeOK, ActiveInv, SweepItem, NEW u \in full, u \notin full'
               PROVE  seen[u] = "stale"
    OBVIOUS
  <2>1. PICK x \in sweep.left : RemoveItem(sweep.user, x)
    BY DEF SweepItem
  <2>2. sweep.pc = "deleting" /\ sweep.user \in Users /\ x \in Item /\ u \in Users
    BY DEF SweepItem, TypeOK
  <2>3. u = sweep.user
    BY <2>1, <2>2, RemoveTable
  <2> QED
    BY <2>2, <2>3 DEF ActiveInv
<1>4. VisitsInTime <=> [][InTime]_vars
  BY DEF VisitsInTime
<1> HIDE DEF InTime
<1> QED
  BY <1>1, <1>2, <1>3, <1>4, TypeCorrect, GrownInvariant, PTL DEF Spec, ActiveStay

(* An account with a kept role that no edit takes from it stays, under     *)
(* every fault and in every interleaving (delete_my_account,               *)
(* run_retention).                                                         *)
LEMMA KeptFounderStays ==
  ASSUME TypeOK, [Next]_vars, NEW f, KeptFounder(f), f \in full, role[f] \in Kept, KeptSeen(f)
  PROVE  /\ f \in full' /\ role'[f] \in Kept /\ KeptSeen(f)'
         /\ AdminFounder(f) /\ role[f] = "admin" => role'[f] = "admin"
<1>1. Table /\ f \in Users /\ f \notin Signups
  BY StepTable, AccountsAssumption DEF KeptFounder, Users
<1>2. f \in full'
  BY <1>1 DEF Table, LeaveStep, KeptSeen
<1>3. role'[f] \in Roles
  BY <1>1, TypeStays DEF TypeOK
<1>4. \/ role'[f] = role[f]
      \/ \E e \in Edits : Target[e] = f /\ NewRole[e] = role'[f]
  BY <1>1, <1>2 DEF Table, RoleStep
<1>5. role'[f] \in Kept
  BY <1>3, <1>4 DEF KeptFounder, Roles, Kept
<1>6. AdminFounder(f) /\ role[f] = "admin" => role'[f] = "admin"
  BY <1>3, <1>4 DEF AdminFounder, Roles
<1> QED
  BY <1>1, <1>2, <1>5, <1>6, KeptSeenStays

THEOREM KeptFoundersCorrect == Spec => []KeptFoundersStay
<1> DEFINE IInv == \A f \in Users : KeptFounder(f) => f \in full /\ role[f] \in Kept /\ KeptSeen(f)
<1>1. Init => IInv
  BY DEF Init, KeptFounder, KeptSeen, Users
<1>2. TypeOK /\ IInv /\ [Next]_vars => IInv'
  <2> SUFFICES ASSUME TypeOK, IInv, [Next]_vars, NEW f \in Users, KeptFounder(f)
               PROVE  f \in full' /\ role'[f] \in Kept /\ KeptSeen(f)'
    BY DEF KeptFounder
  <2> QED
    BY KeptFounderStays
<1>3. IInv => KeptFoundersStay
  BY DEF KeptFoundersStay
<1> QED
  BY <1>1, <1>2, <1>3, TypeCorrect, PTL DEF Spec

(* "The last admin would lock everyone out": an admin remains as long as   *)
(* there was one at the start whose role no edit changes (main.py,         *)
(* folder_routes.py).                                                      *)
THEOREM AdminRemainsCorrect ==
  ASSUME NEW f, AdminFounder(f)
  PROVE  Spec => []AdminRemains
<1> DEFINE IInv == f \in full /\ role[f] = "admin" /\ KeptSeen(f)
<1>0. KeptFounder(f) /\ f \in Users
  BY DEF KeptFounder, AdminFounder, Kept, Users
<1>1. Init => IInv
  BY <1>0 DEF Init, AdminFounder, KeptSeen
<1>2. TypeOK /\ IInv /\ [Next]_vars => IInv'
  BY <1>0, KeptFounderStays DEF Kept
<1>3. IInv => AdminRemains
  BY DEF AdminRemains
<1> QED
  BY <1>1, <1>2, <1>3, TypeCorrect, PTL DEF Spec

-----------------------------------------------------------------------------
(* A deletion is done with a profile when it has removed it.               *)
LEMMA ErasedStep ==
  ASSUME TypeOK, GrownInv, [Next]_vars, NEW d \in Deletions, Erased(d)', ~Erased(d)
  PROVE  Grown(Leaver[d]) /\ Leaver[d] \notin full' /\ Leaver[d] \notin partial'
<1>0. Leaver[d] \in Users /\ deletion[d] \in Deletion
  BY AccountsAssumption DEF TypeOK, Deletion
<1>1. ~UNCHANGED deletion
  BY DEF Erased
<1>2. PICK c \in Deletions : DeletionStep(c) \/ DeletionDies(c)
  BY <1>1 DEF Next, SignupStep, CountUsers, ScanEmail, ClaimEmail, PutProfile, Unclaim, SignupDies,
     EditStep, AskEdit, ReadTarget, WriteTarget, InvalidateTarget, Visit, Forget, SweepStep,
     ScanProfiles, SkipProfile, StartClock, ListProfile, SweepItem, EndProfile, EndSweep,
     SweepDies, vars, procVars
<1>3. c = d
  BY <1>2 DEF DeletionStep, AskDeletion, ListDeletion, DeleteItem, EndDeletion, DeletionDies,
              Erased, TypeOK
<1>4. CASE AskDeletion(d)
  <2>1. deletion'[d].pc \in {"refused", "allowed"}
    <3>1. \A to : deletion' = [deletion EXCEPT ![d] = [deletion[d] EXCEPT !.pc = to]]
                    => deletion'[d].pc = to
      BY <1>0 DEF TypeOK, Deletion
    <3> QED
      BY <1>4, <3>1 DEF AskDeletion
  <2> QED
    BY <2>1 DEF Erased
<1>5. CASE ListDeletion(d)
  <2>1. /\ deletion[d].pc = "allowed" /\ deletion'[d].pc # "done"
        /\ deletion'[d].pc = "deleting" => deletion'[d].left = ItemsOf(Leaver[d])
    <3>1. \/ deletion'[d] = [deletion[d] EXCEPT !.pc = "deleting", !.left = ItemsOf(Leaver[d])]
          \/ deletion'[d] = [deletion[d] EXCEPT !.pc = "refused"]
      BY <1>5 DEF ListDeletion, TypeOK
    <3>2. deletion[d].pc = "allowed"
      BY <1>5 DEF ListDeletion
    <3>3. CASE deletion'[d] = [deletion[d] EXCEPT !.pc = "refused"]
      <4>1. deletion'[d].pc = "refused"
        BY <1>0, <3>3 DEF Deletion
      <4> QED
        BY <3>2, <4>1
    <3>4. CASE deletion'[d] = [deletion[d] EXCEPT !.pc = "deleting", !.left = ItemsOf(Leaver[d])]
      <4>1. deletion'[d].pc = "deleting" /\ deletion'[d].left = ItemsOf(Leaver[d])
        BY <1>0, <3>4 DEF Deletion
      <4> QED
        BY <3>2, <4>1
    <3> QED
      BY <3>1, <3>3, <3>4
  <2>2. "profile" \notin ItemsOf(Leaver[d])
    BY <2>1 DEF Erased
  <2> QED
    BY <1>5, <2>1, <2>2 DEF ItemsOf, Item, GrownInv, ListDeletion, itemVars
<1>6. CASE DeleteItem(d)
  <2>1. PICK x \in deletion[d].left :
          RemoveItem(Leaver[d], x) /\ deletion' = [deletion EXCEPT ![d].left = @ \ {x}]
    BY <1>6 DEF DeleteItem
  <2>2. /\ deletion[d].pc = "deleting" /\ deletion'[d].pc = "deleting"
        /\ deletion'[d].left = deletion[d].left \ {x}
    BY <1>0, <1>6, <2>1 DEF DeleteItem, Deletion, TypeOK
  <2>3. x = "profile"
    BY <2>2 DEF Erased
  <2> QED
    BY <2>1, <2>2, <2>3 DEF RemoveItem, GrownInv
<1>7. CASE EndDeletion(d)
  BY <1>7 DEF EndDeletion, Erased
<1>8. CASE DeletionDies(d)
  <2>1. deletion'[d].pc = "dead"
    BY <1>0, <1>8 DEF DeletionDies, TypeOK, Deletion
  <2> QED
    BY <2>1 DEF Erased
<1> QED
  BY <1>2, <1>3, <1>4, <1>5, <1>6, <1>7, <1>8 DEF DeletionStep

(* "Delete all data of user_id": nothing of the profile is left when the   *)
(* deletion is through, as long as no update, which the code writes        *)
(* without a condition, creates it again (delete_user_data, update_user).  *)
THEOREM ErasedForGoodCorrect == Spec /\ UpdatesInTime => []ErasedForGood
<1> DEFINE InTime ==
      \A d \in Deletions : LET u == Leaver[d] IN
        u \in partial' /\ u \notin partial => ~Erased(d)
<1>1. Init => ErasedInv
  BY DEF Init, ErasedInv, Erased
<1>2. TypeOK /\ GrownInv /\ ErasedInv /\ [Next]_vars /\ [InTime]_vars => ErasedInv'
  <2> SUFFICES ASSUME TypeOK, GrownInv, ErasedInv, [Next]_vars, [InTime]_vars,
                      NEW d \in Deletions, Erased(d)'
               PROVE  (Grown(Leaver[d]) /\ ~Exists(Leaver[d]))'
    BY DEF ErasedInv
  <2>0. \A u : Grown(u) => Grown(u)'
    BY GrownStays DEF vars, procVars, Grown
  <2>1. CASE Erased(d)
    <3>1. Grown(Leaver[d]) /\ Leaver[d] \notin full /\ Leaver[d] \notin partial
      BY <2>1 DEF ErasedInv, Exists
    <3>2. Leaver[d] \in Users
      BY AccountsAssumption
    <3>3. Leaver[d] \notin full'
      BY <3>1, <3>2, StepTable, AccountsAssumption DEF Table, FullStep, Grown
    <3>4. Leaver[d] \notin partial'
      BY <2>1, <3>1 DEF vars, itemVars
    <3> QED
      BY <2>0, <3>1, <3>3, <3>4 DEF Exists
  <2>2. CASE ~Erased(d)
    BY <2>0, <2>2, ErasedStep DEF Exists
  <2> QED
    BY <2>1, <2>2
<1>3. ErasedInv => ErasedForGood
  BY DEF ErasedInv, Erased, ErasedForGood
<1>4. UpdatesInTime <=> [][InTime]_vars
  BY DEF UpdatesInTime
<1> HIDE DEF InTime
<1> QED
  BY <1>1, <1>2, <1>3, <1>4, TypeCorrect, GrownInvariant, PTL DEF Spec

-----------------------------------------------------------------------------
(* The bootstrap admin: only a count makes one more registration the       *)
(* first.                                                                  *)
LEMMA FirstStays ==
  ASSUME TypeOK, [Next]_vars, NEW t \in Signups, ~CountUsers(t)
  PROVE  /\ signup'[t].first = signup[t].first
         /\ signup'[t].pc \in {"counted", "scanned", "claimed"}
              => signup[t].pc \in {"counted", "scanned", "claimed"}
<1>1. ASSUME NEW s \in Signups, SignupStep(s) \/ SignupDies(s), s # t
      PROVE  signup'[t] = signup[t]
  BY <1>1 DEF SignupStep, CountUsers, ScanEmail, ClaimEmail, PutProfile, Unclaim,
              SignupDies, SignupGoes, TypeOK
<1>2. ASSUME SignupStep(t) \/ SignupDies(t)
      PROVE  /\ signup'[t].first = signup[t].first
             /\ signup[t].pc \in {"counted", "scanned", "claimed"}
                  \/ signup'[t].pc \in {"rejected", "dead"}
  <2>0. signup[t] \in Signup
    BY DEF TypeOK
  <2>1. ASSUME NEW from, NEW to, SignupGoes(t, from, to)
        PROVE  signup[t].pc = from /\ signup'[t].pc = to /\ signup'[t].first = signup[t].first
    BY <2>0, <2>1 DEF SignupGoes, Signup, TypeOK
  <2>2. CASE ScanEmail(t)
    BY <2>1, <2>2 DEF ScanEmail
  <2>3. CASE ClaimEmail(t)
    BY <2>1, <2>3 DEF ClaimEmail
  <2>4. CASE PutProfile(t)
    BY <2>1, <2>4 DEF PutProfile
  <2>5. CASE Unclaim(t)
    BY <2>1, <2>5 DEF Unclaim
  <2>6. CASE SignupDies(t)
    BY <2>1, <2>6 DEF SignupDies
  <2> QED
    BY <1>2, <2>2, <2>3, <2>4, <2>5, <2>6 DEF SignupStep
<1>3. (\E s \in Signups : SignupStep(s) \/ SignupDies(s)) \/ UNCHANGED signup
  BY DEF Next, DeletionStep, AskDeletion, ListDeletion, DeleteItem, EndDeletion, DeletionDies,
     EditStep, AskEdit, ReadTarget, WriteTarget, InvalidateTarget, Visit, Forget, SweepStep,
     ScanProfiles, SkipProfile, StartClock, ListProfile, SweepItem, EndProfile, EndSweep,
     SweepDies, vars, procVars
<1> QED
  BY <1>1, <1>2, <1>3

LEMMA BootstrapsStep ==
  ASSUME TypeOK, [Next]_vars, NEW t \in Signups, ~CountUsers(t), Bootstraps(t)'
  PROVE  Bootstraps(t)
<1>1. t \in full' => t \in full \/ signup[t].pc = "claimed"
  BY StepTable DEF Table, FullStep, Users
<1> QED
  BY <1>1, FirstStays DEF Bootstraps

LEMMA CountTable ==
  ASSUME TypeOK, NEW s \in Signups, CountUsers(s), "scan" \notin Faults
  PROVE  /\ UNCHANGED full
         /\ signup'[s].first => full \cup partial = {}
         /\ \A t \in Signups : t # s => signup'[t] = signup[t]
<1>1. signup' = [signup EXCEPT ![s] = [pc |-> "counted", first |-> full \cup partial = {}]]
  BY DEF CountUsers
<1>2. signup'[s].first <=> full \cup partial = {}
  BY <1>1 DEF TypeOK
<1> QED
  BY <1>1, <1>2 DEF CountUsers, itemVars, TypeOK

(* "First user becomes admin": one registration at most, when no scan      *)
(* fails and none begins while one that found no users is under way        *)
(* (register counts the users long before it writes the profile).          *)
THEOREM BootstrapOnceCorrect ==
  ASSUME "scan" \notin Faults
  PROVE  Spec /\ FirstAlone => []BootstrapOnce
<1> DEFINE Alone1 ==
      \A s, t \in Signups : CountUsers(s) /\ s # t /\ full \cup partial = {} => ~Bootstraps(t)
<1>1. Init => BootstrapInv
  BY DEF Init, BootstrapInv, Bootstraps
<1>2. TypeOK /\ BootstrapInv /\ [Next]_vars /\ [Alone1]_vars => BootstrapInv'
  <2> SUFFICES ASSUME TypeOK, BootstrapInv, [Next]_vars, [Alone1]_vars,
                      NEW s \in Signups, NEW t \in Signups, Bootstraps(s)', Bootstraps(t)', s # t
               PROVE  FALSE
    BY DEF BootstrapInv
  <2>1. ASSUME NEW a \in Signups, NEW b \in Signups, a # b, CountUsers(a),
               Bootstraps(a)', Bootstraps(b)'
        PROVE  FALSE
    <3>1. full \cup partial = {} /\ UNCHANGED full /\ signup'[b] = signup[b]
      BY <2>1, CountTable DEF Bootstraps
    <3>2. Bootstraps(b)
      BY <2>1, <3>1 DEF Bootstraps
    <3>3. CASE UNCHANGED vars
      BY <2>1, <3>3, <3>1 DEF CountUsers, vars, procVars, TypeOK, Bootstraps
    <3> QED
      BY <2>1, <3>1, <3>2, <3>3
  <2> QED
    BY <2>1, BootstrapsStep DEF BootstrapInv
<1>3. BootstrapInv => BootstrapOnce
  BY DEF BootstrapInv, BootstrapOnce, Bootstraps
<1>4. FirstAlone <=> [][Alone1]_vars
  BY DEF FirstAlone
<1> HIDE DEF Alone1
<1> QED
  BY <1>1, <1>2, <1>3, <1>4, TypeCorrect, PTL DEF Spec

(* ... and none at all, when no scan fails and an account that nobody may  *)
(* delete is there (register, get_user_count).                             *)
THEOREM NewcomersWaitCorrect ==
  ASSUME "scan" \notin Faults, NEW f, KeptFounder(f)
  PROVE  Spec => []NewcomersWait
<1>0. f \in Users
  BY DEF KeptFounder, Users
<1>1. Init => NewcomersWait
  BY DEF Init, NewcomersWait
<1>2. TypeOK /\ KeptFoundersStay /\ NewcomersWait /\ [Next]_vars => NewcomersWait'
  <2> SUFFICES ASSUME TypeOK, KeptFoundersStay, NewcomersWait, [Next]_vars,
                      NEW s \in Signups, signup'[s].first
               PROVE  FALSE
    BY DEF NewcomersWait
  <2>1. f \in full
    BY <1>0 DEF KeptFoundersStay
  <2>2. \A t \in Signups : ~CountUsers(t) \/ t # s
    BY <2>1, CountTable
  <2>3. signup'[s].first = signup[s].first
    BY <2>2, FirstStays
  <2> QED
    BY <2>3 DEF NewcomersWait
<1> QED
  BY <1>1, <1>2, TypeCorrect, KeptFoundersCorrect, PTL DEF Spec

-----------------------------------------------------------------------------
(* ClaimReleased.                                                          *)

LEMMA ClaimantStep ==
  ASSUME TypeOK, ClaimantInv, [Next]_vars,
         \A s \in Signups : SignupDies(s) => ~Registering(s)
  PROVE  ClaimantInv'
<1>t. /\ claims \in [Keys -> Users \cup {Nobody}] /\ signup \in [Signups -> Signup]
      /\ Nobody \notin Users /\ Nobody \notin Signups
  BY AccountsAssumption DEF TypeOK, Users
<1>1. ASSUME UNCHANGED signup,
             \A k \in Keys : claims'[k] = claims[k] \/ claims'[k] = Nobody
      PROVE  ClaimantInv'
  BY <1>1 DEF ClaimantInv
<1>2. ASSUME NEW s \in Signups, SignupStep(s) \/ SignupDies(s) PROVE ClaimantInv'
  <2>1. s \in Users /\ s # Nobody /\ Key(s) \in Keys
    BY <1>t, KeyType DEF Users
  <2>2. \A r \in Signups \ {s} : signup'[r] = signup[r]
    BY <1>t, <1>2 DEF SignupStep, CountUsers, ScanEmail, ClaimEmail, PutProfile, Unclaim, SignupDies, SignupGoes
  <2>3. ASSUME NEW from, NEW to \in SignupPc, SignupGoes(s, from, to)
        PROVE  signup[s].pc = from /\ signup'[s].pc = to
    BY <1>t, <2>3 DEF SignupGoes, Signup
  <2>4. ASSUME UNCHANGED claims,
               signup[s].pc \in {"claimed", "unclaim", "done"}
                 => signup'[s].pc \in {"claimed", "unclaim", "done"}
        PROVE  ClaimantInv'
    BY <2>2, <2>4 DEF ClaimantInv
  <2>5. CASE CountUsers(s) \/ ScanEmail(s)
    BY <2>4, <2>5 DEF CountUsers, ScanEmail, SignupGoes, itemVars
  <2>6. CASE ClaimEmail(s)
    <3>1. CASE claims[Key(s)] = Nobody /\ SignupGoes(s, "scanned", "claimed")
               /\ claims' = [claims EXCEPT ![Key(s)] = s]
      <4>1. /\ signup'[s].pc = "claimed" /\ signup[s].pc = "scanned"
            /\ claims'[Key(s)] = s
            /\ \A k \in Keys \ {Key(s)} : claims'[k] = claims[k]
        BY <1>t, <2>1, <2>3, <3>1 DEF SignupPc
      <4>2. ASSUME NEW k \in Keys, claims'[k] # Nobody
            PROVE  /\ Key(claims'[k]) = k
                   /\ claims'[k] \in Signups => signup'[claims'[k]].pc \in {"claimed", "unclaim", "done"}
        BY <2>2, <4>1, <4>2 DEF ClaimantInv
      <4> QED
        BY <4>2 DEF ClaimantInv
    <3>2. CASE SignupGoes(s, "scanned", "rejected") /\ UNCHANGED claims
      BY <2>4, <3>2 DEF SignupGoes
    <3> QED
      BY <2>6, <3>1, <3>2 DEF ClaimEmail
  <2>7. CASE PutProfile(s)
    BY <2>3, <2>4, <2>7 DEF PutProfile, SignupPc
  <2>8. CASE Unclaim(s)
    <3>1. /\ claims'[Key(s)] = Nobody
          /\ \A k \in Keys \ {Key(s)} : claims'[k] = claims[k]
      BY <1>t, <2>1, <2>8 DEF Unclaim
    <3>2. \A k \in Keys : claims'[k] # Nobody => claims'[k] # s
      BY <3>1, <2>1 DEF ClaimantInv
    <3> QED
      BY <2>2, <3>1, <3>2 DEF ClaimantInv
  <2>9. CASE SignupDies(s)
    <3>1. UNCHANGED claims /\ signup[s].pc \in {"counted", "scanned"}
      BY <2>9 DEF SignupDies, itemVars, Registering
    <3> QED
      BY <2>4, <3>1
  <2> QED
    BY <1>2, <2>5, <2>6, <2>7, <2>8, <2>9 DEF SignupStep
<1>3. ASSUME NEW u \in Users, NEW x, RemoveItem(u, x) PROVE \A k \in Keys : claims'[k] = claims[k] \/ claims'[k] = Nobody
  BY <1>t, <1>3 DEF RemoveItem
<1>4. ASSUME NEW d \in Deletions, DeletionStep(d) \/ DeletionDies(d) PROVE ClaimantInv'
  <2>1. CASE DeleteItem(d)
    BY <1>1, <1>3, <2>1, AccountsAssumption DEF DeleteItem
  <2> QED
    BY <1>1, <1>4, <2>1 DEF DeletionStep, AskDeletion, ListDeletion, EndDeletion, DeletionDies, itemVars
<1>5. ASSUME NEW e \in Edits, EditStep(e) PROVE ClaimantInv'
  BY <1>1, <1>5 DEF EditStep, AskEdit, ReadTarget, WriteTarget, InvalidateTarget, itemVars
<1>6. ASSUME NEW i \in Instances, NEW u \in Users, Visit(i, u) \/ Forget(i, u) PROVE ClaimantInv'
  BY <1>1, <1>6 DEF Visit, Forget, itemVars, procVars
<1>7. CASE SweepStep \/ SweepDies
  <2>1. CASE SweepItem
    BY <1>1, <1>3, <2>1 DEF SweepItem, TypeOK
  <2> QED
    BY <1>1, <1>7, <2>1 DEF SweepStep, ScanProfiles, SkipProfile, StartClock, ListProfile, EndProfile,
                            EndSweep, SweepDies, itemVars
<1>8. CASE UNCHANGED vars
  BY <1>1, <1>8 DEF vars, itemVars, procVars
<1> QED
  BY <1>2, <1>4, <1>5, <1>6, <1>7, <1>8 DEF Next

(* What stops is the process of a deletion, or the retention run: broken   *)
(* off by a condition that failed or by a listing, it has no account in    *)
(* hand.                                                                   *)
LEMMA StoppedStep ==
  ASSUME TypeOK, StoppedInv, [Next]_vars,
         \A d \in Deletions : DeletionDies(d) => "claim" \notin deletion[d].left,
         SweepDies => "claim" \notin sweep.left
  PROVE  StoppedInv'
<1> USE DEF TypeOK, StoppedInv
<1>1. ASSUME UNCHANGED <<deletion, sweep>> PROVE StoppedInv'
  BY <1>1
<1>2. ASSUME NEW s \in Signups, SignupStep(s) \/ SignupDies(s) PROVE StoppedInv'
  BY <1>1, <1>2 DEF SignupStep, CountUsers, ScanEmail, ClaimEmail, PutProfile, Unclaim, SignupDies
<1>3. ASSUME NEW d \in Deletions, DeletionStep(d) \/ DeletionDies(d) PROVE StoppedInv'
  <2>1. deletion[d] \in Deletion /\ UNCHANGED sweep
    BY <1>3 DEF DeletionStep, AskDeletion, ListDeletion, DeleteItem, EndDeletion, DeletionDies
  <2>2. \A c \in Deletions : c # d => deletion'[c] = deletion[c]
    BY <1>3 DEF DeletionStep, AskDeletion, ListDeletion, DeleteItem, EndDeletion, DeletionDies
  <2>3. ASSUME DeletionStep(d) PROVE deletion'[d].pc # "dead"
    <3>1. CASE AskDeletion(d)
      <4>1. \E to \in {"allowed", "refused"} :
              deletion' = [deletion EXCEPT ![d] = [deletion[d] EXCEPT !.pc = to]]
        BY <3>1 DEF AskDeletion
      <4> QED
        BY <2>1, <4>1 DEF Deletion
    <3>2. CASE ListDeletion(d)
      <4>1. \/ deletion'[d] = [deletion[d] EXCEPT !.pc = "deleting", !.left = ItemsOf(Leaver[d])]
            \/ deletion'[d] = [deletion[d] EXCEPT !.pc = "refused"]
        BY <3>2 DEF ListDeletion
      <4> QED
        BY <2>1, <4>1 DEF Deletion
    <3>3. CASE DeleteItem(d)
      BY <2>1, <3>3 DEF DeleteItem, Deletion
    <3>4. CASE EndDeletion(d)
      BY <2>1, <3>4 DEF EndDeletion, Deletion
    <3> QED
      BY <2>3, <3>1, <3>2, <3>3, <3>4 DEF DeletionStep
  <2>4. ASSUME DeletionDies(d) PROVE "claim" \notin deletion'[d].left
    <3>1. deletion'[d].left = deletion[d].left
      BY <2>1, <2>4 DEF DeletionDies, Deletion
    <3> QED
      BY <2>4, <3>1
  <2> QED
    BY <1>3, <2>1, <2>2, <2>3, <2>4
<1>4. ASSUME NEW e \in Edits, EditStep(e) PROVE StoppedInv'
  BY <1>1, <1>4 DEF EditStep, AskEdit, ReadTarget, WriteTarget, InvalidateTarget
<1>5. ASSUME NEW i \in Instances, NEW u \in Users, Visit(i, u) \/ Forget(i, u) PROVE StoppedInv'
  BY <1>1, <1>5 DEF Visit, Forget, procVars
<1>6. CASE SweepStep \/ SweepDies
  <2>1. UNCHANGED deletion
    BY <1>6 DEF SweepStep, ScanProfiles, SkipProfile, StartClock, ListProfile, SweepItem,
         EndProfile, EndSweep, SweepDies
  <2>2. sweep'.pc # "deleting" => "claim" \notin sweep'.left
    <3>1. CASE ScanProfiles \/ EndSweep \/ SweepDies
      BY <3>1 DEF ScanProfiles, EndSweep, SweepDies
    <3>4. CASE EndProfile
      <4>1. sweep'.left = sweep.left /\ sweep.left = {}
        BY <3>4 DEF EndProfile
      <4> QED
        BY <4>1
    <3>3. CASE SweepItem
      <4>1. sweep'.pc = sweep.pc /\ sweep.pc = "deleting"
        BY <3>3 DEF SweepItem
      <4> QED
        BY <4>1
    <3>2. ASSUME NEW p \in sweep.page, SkipProfile(p) \/ StartClock(p) \/ ListProfile(p)
          PROVE  sweep'.pc # "deleting" => "claim" \notin sweep'.left
      BY <3>2 DEF SkipProfile, StartClock, ListProfile
    <3> QED
      BY <1>6, <3>1, <3>2, <3>3, <3>4 DEF SweepStep
  <2> QED
    BY <2>1, <2>2
<1>7. CASE UNCHANGED vars
  BY <1>1, <1>7 DEF vars, procVars
<1> QED
  BY <1>2, <1>3, <1>4, <1>5, <1>6, <1>7 DEF Next

(* Every claim belongs to an account or to a registration or deletion of   *)
(* it that is under way, when no registration dies between its claim and   *)
(* its profile, no deletion stops before it has deleted the claim, and no  *)
(* account is deleted by two at once: create_user and delete_user_data     *)
(* give back every claim they see fail.                                    *)
THEOREM ClaimReleasedCorrect ==
  Alone => (Spec /\ RegistersWhole /\ DeletesWhole => []ClaimReleased)
<1> SUFFICES ASSUME Alone PROVE Spec /\ RegistersWhole /\ DeletesWhole => []ClaimReleased
  OBVIOUS
<1> DEFINE A == \A s \in Signups : SignupDies(s) => ~Registering(s)
           B == /\ \A d \in Deletions : DeletionDies(d) => "claim" \notin deletion[d].left
                /\ SweepDies => "claim" \notin sweep.left
<1>1. Init => ClaimantInv /\ StoppedInv
  <2>1. Init => ClaimantInv
    BY AccountsAssumption DEF Init, ClaimantInv
  <2>2. Init => StoppedInv
    BY DEF Init, StoppedInv
  <2> QED
    BY <2>1, <2>2
<1>2. TypeOK /\ ClaimantInv /\ [Next]_vars /\ [A]_vars => ClaimantInv'
  <2> SUFFICES ASSUME TypeOK, ClaimantInv, [Next]_vars, [A]_vars PROVE ClaimantInv'
    OBVIOUS
  <2>1. CASE A
    BY <2>1, ClaimantStep
  <2>2. CASE UNCHANGED vars
    BY <2>2 DEF vars, itemVars, procVars, ClaimantInv
  <2> QED
    BY <2>1, <2>2
<1>3. TypeOK /\ StoppedInv /\ [Next]_vars /\ [B]_vars => StoppedInv'
  <2> SUFFICES ASSUME TypeOK, StoppedInv, [Next]_vars, [B]_vars PROVE StoppedInv'
    OBVIOUS
  <2>1. CASE B
    BY <2>1, StoppedStep
  <2>2. CASE UNCHANGED vars
    BY <2>2 DEF vars, procVars, StoppedInv
  <2> QED
    BY <2>1, <2>2
<1>4. ClaimantInv /\ StoppedInv /\ ClaimBacked => ClaimReleased
  BY DEF ClaimantInv, StoppedInv, ClaimBacked, ClaimReleased, Died, Unreleased, Leaving
<1>5. (RegistersWhole <=> [][A]_vars) /\ (DeletesWhole <=> [][B]_vars)
  BY DEF RegistersWhole, DeletesWhole
<1>6. Spec => []ClaimBacked
  BY ClaimsBacked
<1> HIDE DEF A, B
<1> QED
  BY <1>1, <1>2, <1>3, <1>4, <1>5, <1>6, TypeCorrect, PTL DEF Spec
=============================================================================

-------------------------- MODULE ProjectStore_proofs --------------------------
(***************************************************************************)
(* What the handlers of the project store keep, for any number of          *)
(* projects, types, images, handlers and requests.                         *)
(***************************************************************************)
EXTENDS ProjectStore, TLAPS

(* A job without a request is well typed.                                  *)
LEMMA NoJobType == NoJob \in Jobs /\ ItFits(NoJob)
BY StoreAssumption DEF NoJob, Begins, Jobs, ItFits, Docs, Versions

(* A handler whose job is replaced by one that fits leaves all jobs typed. *)
LEMMA BecomesType ==
  ASSUME TypeOK, NEW h \in Handlers, NEW j \in Jobs, ItFits(j), Becomes(h, j)
  PROVE  job' \in [Handlers -> Jobs] /\ \A g \in Handlers : ItFits(job'[g])
<1>1. job' = [job EXCEPT ![h] = j] /\ job \in [Handlers -> Jobs]
  BY DEF Becomes, TypeOK
<1>2. ASSUME NEW g \in Handlers PROVE ItFits(job'[g])
  <2>1. CASE g = h
    BY <1>1, <2>1
  <2>2. CASE g # h
    BY <1>1, <2>2 DEF TypeOK
  <2> QED
    BY <2>1, <2>2
<1> QED
  BY <1>1, <1>2

(* Losing the mark of an undisturbed job changes no other field.           *)
LEMMA UncleanType ==
  ASSUME NEW j \in Jobs, ItFits(j)
  PROVE  [j EXCEPT !.clean = FALSE] \in Jobs /\ ItFits([j EXCEPT !.clean = FALSE])
<1> DEFINE k == [j EXCEPT !.clean = FALSE]
<1>1. k \in Jobs
  BY DEF Jobs
<1>2. /\ k.op = j.op /\ k.at = j.at /\ k.src = j.src /\ k.why = j.why
      /\ k.img = j.img /\ k.seen = j.seen /\ k.todo = j.todo
  BY DEF Jobs
<1> HIDE DEF k
<1>3. ItFits(k)
  BY <1>2 DEF ItFits
<1> QED
  BY <1>1, <1>3 DEF k

(* The same when a request that begins disturbs others.                    *)
LEMMA DisturbsType ==
  ASSUME TypeOK, NEW h \in Handlers, NEW p \in Projects, NEW j \in Jobs, ItFits(j),
         Disturbs(h, p, j)
  PROVE  job' \in [Handlers -> Jobs] /\ \A g \in Handlers : ItFits(job'[g])
<1>1. ASSUME NEW g \in Handlers PROVE job'[g] \in Jobs /\ ItFits(job'[g])
  <2>1. job[g] \in Jobs /\ ItFits(job[g])
    BY DEF TypeOK
  <2>2. job'[g] = j \/ job'[g] = job[g] \/ job'[g] = [job[g] EXCEPT !.clean = FALSE]
    BY DEF Disturbs
  <2> QED
    BY <2>1, <2>2, UncleanType
<1>2. job' = [g \in Handlers |-> job'[g]]
  BY DEF Disturbs
<1> QED
  BY <1>1, <1>2

(* An object that is put is typed and so is what is loose.                 *)
LEMMA PutType ==
  ASSUME TypeOK, NEW p \in Projects, NEW x \in Things, NEW v \in Versions, PutObject(p, x, v)
  PROVE  object' \in [Projects -> [Things -> Versions]] /\ loose' \subseteq Projects \X Things
BY DEF TypeOK, PutObject

LEMMA ItemType ==
  ASSUME TypeOK, NEW p \in Projects, WriteItem(p)
  PROVE  item' \in [Projects -> {"free", "here", "gone", "ghost"}]
BY DEF TypeOK, WriteItem

(* A job that goes to its next step with the fields it has.                *)
LEMMA StepType ==
  ASSUME NEW j \in Jobs, ItFits(j),
         NEW op \in {"find", "write", "docs", "item", "text"}
  PROVE  [j EXCEPT !.op = op] \in Jobs /\ (j.op # "idle" => ItFits([j EXCEPT !.op = op]))
<1>1. [j EXCEPT !.op = op] \in Jobs
  BY DEF Jobs
<1>2. /\ [j EXCEPT !.op = op].op = op /\ [j EXCEPT !.op = op].at = j.at
      /\ [j EXCEPT !.op = op].src = j.src /\ [j EXCEPT !.op = op].why = j.why
      /\ [j EXCEPT !.op = op].img = j.img /\ [j EXCEPT !.op = op].seen = j.seen
      /\ [j EXCEPT !.op = op].todo = j.todo
  BY DEF Jobs
<1> QED
  BY <1>1, <1>2 DEF ItFits

LEMMA GoesType ==
  ASSUME TypeOK, NEW h \in Handlers, ~Idle(h),
         NEW op \in {"find", "write", "docs", "item", "text"}, Goes(h, op)
  PROVE  job' \in [Handlers -> Jobs] /\ \A g \in Handlers : ItFits(job'[g])
<1> DEFINE j == [job[h] EXCEPT !.op = op]
<1>1. job[h] \in Jobs /\ ItFits(job[h]) /\ job[h].op # "idle"
  BY DEF TypeOK, Idle
<1>2. j \in Jobs /\ ItFits(j)
  BY <1>1, StepType
<1>3. Becomes(h, j)
  BY DEF Goes
<1> HIDE DEF j
<1> QED
  BY <1>2, <1>3, BecomesType

LEMMA EndsType ==
  ASSUME TypeOK, NEW h \in Handlers, Becomes(h, NoJob)
  PROVE  job' \in [Handlers -> Jobs] /\ \A g \in Handlers : ItFits(job'[g])
BY NoJobType, BecomesType

(* The projects of a job under way, and the version it writes.             *)
LEMMA JobType ==
  ASSUME TypeOK, NEW h \in Handlers
  PROVE  /\ job[h] \in Jobs /\ ItFits(job[h])
         /\ ~Idle(h) => job[h].at \in Projects /\ job[h].src \in Projects
         /\ job[h].ver \in Versions /\ job[h].keys \subseteq Types
         /\ job[h].todo \subseteq Types \cup Images
         /\ 0 \in Versions /\ 1 \in Versions
         /\ \A g \in Handlers : Request(g) => begun + 1 \in Versions /\ begun' \in Versions
         /\ Types \subseteq Things /\ Images \subseteq Things /\ Text \in Things
<1>1. job[h] \in Jobs /\ ItFits(job[h])
  BY DEF TypeOK
<1>2. begun \in Versions /\ MaxRequests \in Nat \ {0}
  BY StoreAssumption DEF TypeOK
<1>3. 0 \in Versions /\ 1 \in Versions /\ \A g \in Handlers : Request(g) => begun + 1 \in Versions /\ begun' \in Versions
  BY <1>2 DEF Versions, Request
<1>4. ~Idle(h) => job[h].at \in Projects /\ job[h].src \in Projects
  BY <1>1 DEF ItFits, Idle
<1>5. /\ job[h].ver \in Versions /\ job[h].keys \subseteq Types
      /\ job[h].todo \subseteq Types \cup Images
  BY <1>1 DEF Jobs
<1>6. Types \subseteq Things /\ Images \subseteq Things /\ Text \in Things
  BY DEF Things
<1> QED
  BY <1>1, <1>3, <1>4, <1>5, <1>6

LEMMA SaveJobType ==
  ASSUME TypeOK, NEW h \in Handlers, Request(h), NEW p \in Projects, NEW keys \in SUBSET Types,
         NEW j, j = SaveJob(p, keys)
  PROVE  /\ j \in Jobs /\ ItFits(j) /\ j.op = "store" /\ j.why = "save"
         /\ j.at = p /\ j.src = p /\ j.ver = begun + 1 /\ j.keys = keys /\ j.todo = keys
         /\ j.clean => ~Changes(p)
<1> DEFINE b == Begins(p, "save", "store")
<1>1. /\ b \in Jobs /\ b.at = p /\ b.src = p /\ b.why = "save" /\ b.op = "store"
      /\ b.seen = {} /\ b.img = Text
  BY StoreAssumption DEF Begins, Jobs, Versions
<1>2. begun + 1 \in Versions
  BY JobType
<1> HIDE DEF b
<1>3. ASSUME NEW c \in BOOLEAN,
             j = [b EXCEPT !.ver = begun + 1, !.keys = keys, !.todo = keys, !.clean = c]
      PROVE  /\ j \in Jobs /\ ItFits(j) /\ j.op = "store" /\ j.why = "save"
             /\ j.at = p /\ j.src = p /\ j.ver = begun + 1 /\ j.keys = keys /\ j.todo = keys
             /\ j.clean = c
  <2>1. j \in Jobs
    BY <1>1, <1>2, <1>3 DEF Jobs
  <2>2. j.ver = begun + 1 /\ j.keys = keys /\ j.todo = keys /\ j.clean = c
    BY <1>1, <1>3 DEF Jobs
  <2>3. j.op = b.op /\ j.why = b.why /\ j.at = b.at /\ j.src = b.src /\ j.seen = b.seen /\ j.img = b.img
    BY <1>1, <1>3 DEF Jobs
  <2> QED
    BY <1>1, <2>1, <2>2, <2>3 DEF ItFits, Docs
<1>4. CASE Changes(p)
  <2>1. j = [b EXCEPT !.ver = begun + 1, !.keys = keys, !.todo = keys, !.clean = FALSE]
    BY <1>4 DEF SaveJob, b
  <2> QED
    BY <1>3, <2>1
<1>5. CASE ~Changes(p)
  <2>1. j = [b EXCEPT !.ver = begun + 1, !.keys = keys, !.todo = keys, !.clean = TRUE]
    BY <1>5 DEF SaveJob, b
  <2> QED
    BY <1>3, <1>5, <2>1
<1> QED
  BY <1>4, <1>5

LEMMA OpenJobType ==
  ASSUME TypeOK, NEW p \in Projects, NEW j,
         j = [Begins(p, "open", "stamp") EXCEPT
                !.ver = sim[p].ver, !.keys = sim[p].keys, !.clean = Settled(p)]
  PROVE  /\ j \in Jobs /\ ItFits(j) /\ j.op = "stamp" /\ j.why = "open"
         /\ j.at = p /\ j.src = p /\ j.ver = sim[p].ver /\ j.keys = sim[p].keys /\ j.todo = {}
         /\ j.seen = {} /\ (j.clean => Settled(p))
<1> DEFINE b == Begins(p, "open", "stamp")
<1>1. /\ b \in Jobs /\ b.at = p /\ b.src = p /\ b.why = "open" /\ b.op = "stamp"
      /\ b.seen = {} /\ b.img = Text /\ b.todo = {}
  BY StoreAssumption DEF Begins, Jobs, Versions
<1>2. sim[p].ver \in Versions /\ sim[p].keys \in SUBSET Types
  BY DEF TypeOK
<1> HIDE DEF b
<1>3. ASSUME NEW c \in BOOLEAN,
             j = [b EXCEPT !.ver = sim[p].ver, !.keys = sim[p].keys, !.clean = c]
      PROVE  /\ j \in Jobs /\ ItFits(j) /\ j.op = "stamp" /\ j.why = "open"
             /\ j.at = p /\ j.src = p /\ j.ver = sim[p].ver /\ j.keys = sim[p].keys /\ j.todo = {}
             /\ j.seen = {} /\ j.clean = c
  <2>1. j \in Jobs
    BY <1>1, <1>2, <1>3 DEF Jobs
  <2>2. j.ver = sim[p].ver /\ j.keys = sim[p].keys /\ j.clean = c
    BY <1>1, <1>3 DEF Jobs
  <2>3. j.op = b.op /\ j.why = b.why /\ j.at = b.at /\ j.src = b.src /\ j.seen = b.seen
        /\ j.img = b.img /\ j.todo = b.todo
    BY <1>1, <1>3 DEF Jobs
  <2> QED
    BY <1>1, <2>1, <2>2, <2>3 DEF ItFits, Docs
<1>4. CASE Settled(p)
  <2>1. j = [b EXCEPT !.ver = sim[p].ver, !.keys = sim[p].keys, !.clean = TRUE]
    BY <1>4 DEF b
  <2> QED
    BY <1>3, <1>4, <2>1
<1>5. CASE ~Settled(p)
  <2>0. Settled(p) = FALSE
    BY <1>5, Zenon DEF Settled
  <2>1. j = [b EXCEPT !.ver = sim[p].ver, !.keys = sim[p].keys, !.clean = FALSE]
    BY <2>0 DEF b
  <2> QED
    BY <1>3, <2>1
<1> QED
  BY <1>4, <1>5

CopyJob(p, q) ==
  [Begins(q, "copy", "blobs") EXCEPT !.src = p, !.ver = sim[p].ver,
     !.keys = sim[p].keys, !.seen = listed[p], !.clean = Settled(p)]

LEMMA CopyJobType ==
  ASSUME TypeOK, NEW p \in Projects, NEW q \in Projects, NEW j, j = CopyJob(p, q)
  PROVE  /\ j \in Jobs /\ ItFits(j) /\ j.op = "blobs" /\ j.why = "copy"
         /\ j.at = q /\ j.src = p /\ j.ver = sim[p].ver /\ j.keys = sim[p].keys /\ j.todo = {}
         /\ (j.clean => Settled(p))
<1> DEFINE b == Begins(q, "copy", "blobs")
<1>1. /\ b \in Jobs /\ b.at = q /\ b.why = "copy" /\ b.op = "blobs"
      /\ b.img = Text /\ b.todo = {}
  BY StoreAssumption DEF Begins, Jobs, Versions
<1>2. /\ sim[p].ver \in Versions /\ sim[p].keys \in SUBSET Types
      /\ listed[p] \in SUBSET Images /\ listed[p] \in SUBSET (Images \cup Versions)
  BY DEF TypeOK
<1> HIDE DEF b
<1>3. ASSUME NEW c \in BOOLEAN,
             j = [b EXCEPT !.src = p, !.ver = sim[p].ver, !.keys = sim[p].keys, !.seen = listed[p],
                           !.clean = c]
      PROVE  /\ j \in Jobs /\ ItFits(j) /\ j.op = "blobs" /\ j.why = "copy"
             /\ j.at = q /\ j.src = p /\ j.ver = sim[p].ver /\ j.keys = sim[p].keys /\ j.todo = {}
             /\ j.clean = c
  <2>1. j \in Jobs
    BY <1>1, <1>2, <1>3 DEF Jobs
  <2>2. j.src = p /\ j.ver = sim[p].ver /\ j.keys = sim[p].keys /\ j.seen = listed[p] /\ j.clean = c
    BY <1>1, <1>3 DEF Jobs
  <2>3. j.op = b.op /\ j.why = b.why /\ j.at = b.at /\ j.img = b.img /\ j.todo = b.todo
    BY <1>1, <1>3 DEF Jobs
  <2> QED
    BY <1>1, <1>2, <2>1, <2>2, <2>3 DEF ItFits, Docs
<1>4. CASE Settled(p)
  <2>1. j = [b EXCEPT !.src = p, !.ver = sim[p].ver, !.keys = sim[p].keys, !.seen = listed[p],
                      !.clean = TRUE]
    BY <1>4 DEF b, CopyJob
  <2> QED
    BY <1>3, <1>4, <2>1
<1>5. CASE ~Settled(p)
  <2>0. Settled(p) = FALSE
    BY <1>5, Zenon DEF Settled
  <2>1. j = [b EXCEPT !.src = p, !.ver = sim[p].ver, !.keys = sim[p].keys, !.seen = listed[p],
                      !.clean = FALSE]
    BY <2>0 DEF b, CopyJob
  <2> QED
    BY <1>3, <2>1
<1> QED
  BY <1>4, <1>5

JobsOK == job \in [Handlers -> Jobs] /\ \A h \in Handlers : ItFits(job[h])

(* The actions of a save, an edit and a reset keep the types.              *)
LEMMA SaveTyped ==
  ASSUME TypeOK, NEW h \in Handlers, SaveSteps(h)
  PROVE  TypeOK'
<1>1. ASSUME NEW p \in Projects, Create(h, p) PROVE TypeOK'
  <2>1. begun' \in Versions /\ UNCHANGED <<sim, listed, object, urls, job, history>>
    BY <1>1, JobType DEF Create
  <2>2. item' \in [Projects -> {"free", "here", "gone", "ghost"}]
    BY <1>1 DEF Create, TypeOK
  <2> QED
    BY <2>1, <2>2 DEF TypeOK, history
<1>2. ASSUME NEW p \in Projects, NEW keys \in SUBSET Types, CreateWith(h, p, keys) \/ Save(h, p, keys)
      PROVE  TypeOK'
  <2>1. Request(h) /\ Disturbs(h, p, SaveJob(p, keys)) /\ begun' \in Versions
    BY <1>2, JobType DEF CreateWith, Save
  <2>2. SaveJob(p, keys) \in Jobs /\ ItFits(SaveJob(p, keys))
    BY <2>1, SaveJobType
  <2>3. JobsOK'
    BY <2>1, <2>2, DisturbsType DEF JobsOK
  <2>4. item' \in [Projects -> {"free", "here", "gone", "ghost"}]
    BY <1>2 DEF CreateWith, Save, TypeOK
  <2>5. torn' = torn \cup {p} /\ UNCHANGED <<sim, listed, object, urls, crossed, loose>>
    BY <1>2 DEF CreateWith, Save
  <2> QED
    BY <2>1, <2>3, <2>4, <2>5 DEF TypeOK, JobsOK
<1>3. ASSUME NEW p \in Projects, Edit(h, p) PROVE TypeOK'
  <2> DEFINE b == Begins(p, "edit", "find")
  <2>1. b \in Jobs /\ ItFits(b)
    BY StoreAssumption DEF Begins, Jobs, Versions, ItFits, Docs
  <2>2. Becomes(h, b) /\ begun' \in Versions /\ UNCHANGED <<store, history>>
    BY <1>3, JobType DEF Edit
  <2> HIDE DEF b
  <2>3. JobsOK'
    BY <2>1, <2>2, BecomesType DEF JobsOK
  <2> QED
    BY <2>2, <2>3 DEF TypeOK, JobsOK, store, history
<1>4. ASSUME NEW p \in Projects, NEW s \in Projects, Reset(h, p, s) PROVE TypeOK'
  <2> DEFINE b == Begins(p, "reset", "find")
             j == [b EXCEPT !.src = s]
  <2>1. b \in Jobs /\ b.why = "reset" /\ b.op = "find" /\ b.at = p
    BY StoreAssumption DEF Begins, Jobs, Versions
  <2>2. Becomes(h, j) /\ begun' \in Versions /\ UNCHANGED <<store, history>>
    BY <1>4, JobType DEF Reset
  <2> HIDE DEF b
  <2>3. j \in Jobs /\ j.why = "reset" /\ j.op = "find" /\ j.at = p /\ j.src = s
    BY <2>1 DEF Jobs
  <2> HIDE DEF j
  <2>4. ItFits(j)
    BY <2>3 DEF ItFits, Docs
  <2>5. JobsOK'
    BY <2>2, <2>3, <2>4, BecomesType DEF JobsOK
  <2> QED
    BY <2>2, <2>5 DEF TypeOK, JobsOK, store, history
<1>5. ASSUME NEW t \in Types, StoreResult(h, t) PROVE TypeOK'
  <2> DEFINE j == [job[h] EXCEPT !.todo = @ \ {t}]
  <2>1. ~Idle(h) /\ PutObject(job[h].at, t, job[h].ver) /\ Becomes(h, j)
        /\ job[h].why = "save" /\ job[h].op = "store"
    BY <1>5 DEF StoreResult, At, Idle
  <2>2. job[h] \in Jobs /\ ItFits(job[h]) /\ job[h].at \in Projects /\ t \in Things
        /\ job[h].ver \in Versions /\ job[h].todo \subseteq Types \cup Images
    BY <2>1, JobType
  <2>3. object' \in [Projects -> [Things -> Versions]] /\ loose' \subseteq Projects \X Things
    BY <2>1, <2>2, PutType
  <2>4. j \in Jobs /\ j.op = job[h].op /\ j.why = job[h].why /\ j.at = job[h].at
        /\ j.src = job[h].src /\ j.img = job[h].img /\ j.seen = job[h].seen
        /\ j.todo = job[h].todo \ {t}
    BY <2>2 DEF Jobs
  <2> HIDE DEF j
  <2>5. ItFits(j)
    BY <2>1, <2>2, <2>4 DEF ItFits
  <2>6. JobsOK'
    BY <2>1, <2>4, <2>5, BecomesType DEF JobsOK
  <2> QED
    BY <1>5, <2>3, <2>6 DEF StoreResult, TypeOK, JobsOK
<1>6. CASE Find(h)
  <2>1. ~Idle(h) /\ UNCHANGED <<store, begun, history>>
    BY <1>6 DEF Find, At, Idle
  <2>2. Goes(h, "write") \/ Becomes(h, NoJob)
    BY <1>6 DEF Find
  <2>3. JobsOK'
    BY <2>1, <2>2, GoesType, EndsType DEF JobsOK
  <2> QED
    BY <2>1, <2>3 DEF TypeOK, JobsOK, store, history
<1>7. CASE Write(h)
  <2>1. ~Idle(h) /\ WriteItem(job[h].at) /\ UNCHANGED <<listed, object, urls, begun, crossed, loose>>
    BY <1>7 DEF Write, Idle
  <2>2. Goes(h, "text") \/ Becomes(h, NoJob)
    BY <1>7 DEF Write
  <2>3. JobsOK'
    BY <2>1, <2>2, GoesType, EndsType DEF JobsOK
  <2>4. job[h].at \in Projects /\ job[h].ver \in Versions /\ job[h].keys \subseteq Types /\ 0 \in Versions
    BY <2>1, JobType
  <2>5. item' \in [Projects -> {"free", "here", "gone", "ghost"}]
    BY <2>1, <2>4, ItemType
  <2>6. sim' \in [Projects -> [ver : Versions, keys : SUBSET Types]]
    BY <1>7, <2>4 DEF Write, TypeOK, NoResults
  <2>7. torn' \subseteq Projects
    BY <1>7 DEF Write, Mended, TypeOK
  <2> QED
    BY <2>1, <2>3, <2>5, <2>6, <2>7 DEF TypeOK, JobsOK
<1>8. CASE ResetText(h)
  <2>1. ~Idle(h) /\ Becomes(h, NoJob) /\ UNCHANGED <<item, sim, listed, urls, begun, torn, crossed>>
    BY <1>8 DEF ResetText, At, Idle
  <2>2. JobsOK'
    BY <2>1, EndsType DEF JobsOK
  <2>3. job[h].at \in Projects /\ Text \in Things
    BY <2>1, JobType
  <2>4. 1 \in Versions
    BY JobType
  <2>5. object' \in [Projects -> [Things -> Versions]] /\ loose' \subseteq Projects \X Things
    <3>1. CASE object[job[h].src][Text] = 0
      BY <1>8, <3>1 DEF ResetText, TypeOK
    <3>2. CASE object[job[h].src][Text] # 0
      BY <1>8, <2>3, <2>4, <3>2, PutType DEF ResetText
    <3> QED
      BY <3>1, <3>2
  <2> QED
    BY <2>1, <2>2, <2>5 DEF TypeOK, JobsOK
<1> QED
  BY <1>1, <1>2, <1>3, <1>4, <1>5, <1>6, <1>7, <1>8 DEF SaveSteps

(* Opening and deleting a project keep the types.                          *)
LEMMA OpenTyped ==
  ASSUME TypeOK, NEW h \in Handlers, OpenSteps(h)
  PROVE  TypeOK'
<1>1. ASSUME NEW p \in Projects, OpenRead(h, p) PROVE TypeOK'
  <2> DEFINE j == [Begins(p, "open", "stamp") EXCEPT
                     !.ver = sim[p].ver, !.keys = sim[p].keys, !.clean = Settled(p)]
  <2>1. Becomes(h, j) /\ begun' \in Versions /\ UNCHANGED <<store, history>>
    BY <1>1, JobType DEF OpenRead
  <2>2. j \in Jobs /\ ItFits(j)
    BY OpenJobType
  <2> HIDE DEF j
  <2>3. JobsOK'
    BY <2>1, <2>2, BecomesType DEF JobsOK
  <2> QED
    BY <2>1, <2>3 DEF TypeOK, JobsOK, store, history
<1>2. CASE Stamp(h)
  <2> DEFINE j == [job[h] EXCEPT !.op = "load", !.todo = job[h].keys]
  <2>1. ~Idle(h) /\ job[h].why = "open" /\ WriteItem(job[h].at) /\ Becomes(h, j)
    BY <1>2 DEF Stamp, At, Idle
  <2>2. /\ job[h] \in Jobs /\ ItFits(job[h]) /\ job[h].at \in Projects /\ job[h].src \in Projects
        /\ job[h].keys \subseteq Types
    BY <2>1, JobType
  <2>3. j \in Jobs
    BY <2>2 DEF Jobs
  <2>4. /\ j.op = "load" /\ j.why = job[h].why /\ j.at = job[h].at /\ j.src = job[h].src
        /\ j.img = job[h].img /\ j.seen = job[h].seen /\ j.todo = job[h].keys
    BY <2>2 DEF Jobs
  <2> HIDE DEF j
  <2>5. ItFits(j)
    BY <2>1, <2>2, <2>4 DEF ItFits, Docs
  <2>6. JobsOK'
    BY <2>1, <2>3, <2>5, BecomesType DEF JobsOK
  <2>7. item' \in [Projects -> {"free", "here", "gone", "ghost"}]
    BY <2>1, <2>2, ItemType
  <2> QED
    BY <1>2, <2>6, <2>7 DEF Stamp, TypeOK, JobsOK, history
<1>3. ASSUME NEW t \in Types, Load(h, t) PROVE TypeOK'
  <2> DEFINE j == [job[h] EXCEPT !.todo = @ \ {t}, !.seen = @ \cup {object[job[h].at][t]}]
  <2>1. ~Idle(h) /\ job[h].why = "open" /\ job[h].op = "load" /\ Becomes(h, j)
        /\ UNCHANGED <<store, begun, history>>
    BY <1>3 DEF Load, At, Idle
  <2>2. /\ job[h] \in Jobs /\ ItFits(job[h]) /\ job[h].at \in Projects /\ job[h].src \in Projects
        /\ t \in Things
    BY <2>1, JobType
  <2>3. object[job[h].at][t] \in Versions
    BY <2>2 DEF TypeOK
  <2>4. j \in Jobs
    BY <2>2, <2>3 DEF Jobs
  <2>5. /\ j.op = job[h].op /\ j.why = job[h].why /\ j.at = job[h].at /\ j.src = job[h].src
        /\ j.img = job[h].img /\ j.todo = job[h].todo \ {t}
    BY <2>2 DEF Jobs
  <2> HIDE DEF j
  <2>6. ItFits(j)
    BY <2>1, <2>2, <2>5 DEF ItFits, Docs
  <2>7. JobsOK'
    BY <2>1, <2>4, <2>6, BecomesType DEF JobsOK
  <2> QED
    BY <2>1, <2>7 DEF TypeOK, JobsOK, store, history
<1>4. CASE Opened(h)
  <2>1. JobsOK'
    BY <1>4, EndsType DEF Opened, JobsOK
  <2> QED
    BY <1>4, <2>1 DEF Opened, TypeOK, JobsOK, store, history
<1> QED
  BY <1>1, <1>2, <1>3, <1>4 DEF OpenSteps

LEMMA WipesType ==
  ASSUME TypeOK, NEW p \in Projects, NEW xs \in SUBSET Things, Wipes(p, xs)
  PROVE  object' \in [Projects -> [Things -> Versions]] /\ loose' \subseteq Projects \X Things
<1>1. 0 \in Versions
  BY StoreAssumption DEF Versions
<1>2. object \in [Projects -> [Things -> Versions]] /\ loose \subseteq Projects \X Things
  BY DEF TypeOK
<1>3. object' \in [Projects -> [Things -> Versions]]
  BY <1>1, <1>2 DEF Wipes
<1>4. loose' \subseteq Projects \X Things
  BY <1>2 DEF Wipes
<1> QED
  BY <1>3, <1>4

LEMMA DeleteTyped ==
  ASSUME TypeOK, NEW h \in Handlers, DeleteSteps(h)
  PROVE  TypeOK'
<1>1. ASSUME NEW p \in Projects, Delete(h, p) PROVE TypeOK'
  <2> DEFINE b == Begins(p, "delete", "results")
  <2>1. b \in Jobs /\ ItFits(b)
    BY StoreAssumption DEF Begins, Jobs, Versions, ItFits, Docs
  <2>2. Disturbs(h, p, b) /\ begun' \in Versions /\ torn' = torn \cup {p}
        /\ UNCHANGED <<store, crossed, loose>>
    BY <1>1, JobType DEF Delete
  <2> HIDE DEF b
  <2>3. JobsOK'
    BY <2>1, <2>2, DisturbsType DEF JobsOK
  <2> QED
    BY <2>2, <2>3 DEF TypeOK, JobsOK, store
<1>2. CASE WipeResults(h) \/ WipeDocs(h)
  <2>1. ~Idle(h) /\ UNCHANGED <<item, sim, listed, urls, begun, torn, crossed>>
        /\ (Goes(h, "docs") \/ Goes(h, "item"))
        /\ (Wipes(job[h].at, Types) \/ Wipes(job[h].at, Images \cup {Text}))
    BY <1>2 DEF WipeResults, WipeDocs, At, Idle
  <2>2. job[h].at \in Projects /\ Types \in SUBSET Things /\ Images \cup {Text} \in SUBSET Things
    BY <2>1, JobType
  <2>3. JobsOK'
    BY <2>1, GoesType DEF JobsOK
  <2>4. object' \in [Projects -> [Things -> Versions]] /\ loose' \subseteq Projects \X Things
    BY <2>1, <2>2, WipesType
  <2> QED
    BY <2>1, <2>3, <2>4 DEF TypeOK, JobsOK
<1>3. CASE DeleteItem(h)
  <2>1. JobsOK'
    BY <1>3, EndsType DEF DeleteItem, JobsOK
  <2>2. item' \in [Projects -> {"free", "here", "gone", "ghost"}]
    BY <1>3 DEF DeleteItem, TypeOK
  <2> QED
    BY <1>3, <2>1, <2>2 DEF DeleteItem, TypeOK, JobsOK, history
<1> QED
  BY <1>1, <1>2, <1>3 DEF DeleteSteps

(* The documentation's handlers keep the types.                            *)
LEMMA DocJobType ==
  ASSUME TypeOK, NEW p \in Projects, NEW why \in Docs, NEW op \in {"find", "s3"},
         NEW i \in Images \cup {Text}, why = "text" \/ i \in Images
  PROVE  /\ [Begins(p, why, op) EXCEPT !.seen = listed[p], !.img = i] \in Jobs
         /\ ItFits([Begins(p, why, op) EXCEPT !.seen = listed[p], !.img = i])
<1> DEFINE b == Begins(p, why, op)
           j == [b EXCEPT !.seen = listed[p], !.img = i]
<1>1. b \in Jobs /\ b.at = p /\ b.src = p /\ b.why = why /\ b.op = op /\ b.todo = {}
  BY StoreAssumption DEF Begins, Jobs, Versions, Docs
<1>2. listed[p] \in SUBSET Images
  BY DEF TypeOK
<1> HIDE DEF b
<1>4. j \in Jobs
  BY <1>1, <1>2 DEF Jobs
<1>5. /\ j.seen = listed[p] /\ j.img = i /\ j.op = b.op /\ j.why = b.why /\ j.at = b.at
      /\ j.src = b.src /\ j.todo = b.todo
  BY <1>1 DEF Jobs
<1> HIDE DEF j
<1>6. ItFits(j)
  BY <1>1, <1>2, <1>4, <1>5 DEF ItFits, Docs
<1> QED
  BY <1>4, <1>6 DEF j, b

LEMMA NewListType ==
  ASSUME TypeOK, NEW h \in Handlers, ~Idle(h), job[h].why \in Docs
  PROVE  NewList(h) \in SUBSET Images
<1>1. ItFits(job[h])
  BY JobType
<1>2. job[h].seen \subseteq Images /\ (job[h].why \in {"upload", "unlist"} => job[h].img \in Images)
  BY <1>1 DEF ItFits
<1>3. CASE job[h].why = "text"
  BY <1>2, <1>3 DEF NewList
<1>4. CASE job[h].why = "upload"
  BY <1>2, <1>4 DEF NewList
<1>5. CASE job[h].why = "unlist"
  BY <1>2, <1>5 DEF NewList
<1> QED
  BY <1>3, <1>4, <1>5 DEF Docs

LEMMA DocTyped ==
  ASSUME TypeOK, NEW h \in Handlers, DocSteps(h)
  PROVE  TypeOK'
<1>1. ASSUME NEW p \in Projects, NEW why \in Docs, NEW i \in Images \cup {Text},
             DocRead(h, p, why, i)
      PROVE  TypeOK'
  <2> DEFINE op == IF why = "upload" THEN "find" ELSE "s3"
             j == [Begins(p, why, op) EXCEPT !.seen = listed[p], !.img = i]
  <2>1. why # "text" => i \in Images
    <3>1. CASE why = "upload"
      BY <1>1, <3>1 DEF DocRead
    <3>2. CASE why = "unlist"
      BY <1>1, <3>2 DEF DocRead, TypeOK
    <3> QED
      BY <3>1, <3>2 DEF Docs
  <2>2. j \in Jobs /\ ItFits(j)
    <3>1. why = "text" \/ i \in Images
      BY <2>1
    <3>2. CASE why = "upload"
      <4>1. j = [Begins(p, why, "find") EXCEPT !.seen = listed[p], !.img = i]
        BY <3>2
      <4> QED
        BY <3>1, <4>1, DocJobType
    <3>3. CASE why # "upload"
      <4>1. j = [Begins(p, why, "s3") EXCEPT !.seen = listed[p], !.img = i]
        BY <3>3
      <4> QED
        BY <3>1, <4>1, DocJobType
    <3> QED
      BY <3>2, <3>3
  <2>3. /\ begun' \in Versions /\ UNCHANGED <<store, torn, loose>>
        /\ crossed' = crossed \/ crossed' = crossed \cup {p}
        /\ job' = [g \in Handlers |->
             IF g = h THEN j
             ELSE IF job[g].why = "copy" /\ job[g].at = p THEN [job[g] EXCEPT !.clean = FALSE]
             ELSE job[g]]
    BY <1>1, JobType DEF DocRead
  <2> HIDE DEF j
  <2>4. ASSUME NEW g \in Handlers PROVE job'[g] \in Jobs /\ ItFits(job'[g])
    <3>1. job[g] \in Jobs /\ ItFits(job[g])
      BY DEF TypeOK
    <3>2. job'[g] = j \/ job'[g] = job[g] \/ job'[g] = [job[g] EXCEPT !.clean = FALSE]
      BY <2>3
    <3> QED
      BY <2>2, <3>1, <3>2, UncleanType
  <2>5. job' = [g \in Handlers |-> job'[g]]
    BY <2>3
  <2>6. JobsOK'
    BY <2>4, <2>5 DEF JobsOK
  <2> QED
    BY <2>3, <2>6 DEF TypeOK, JobsOK, store
<1>2. CASE DocObject(h)
  <2>1. ~Idle(h) /\ Goes(h, "find") /\ UNCHANGED <<item, sim, listed, urls, begun, torn, crossed>>
        /\ job[h].why \in Docs
    BY <1>2 DEF DocObject, Idle
  <2>2. job[h].at \in Projects /\ Text \in Things /\ ItFits(job[h]) /\ Images \subseteq Things
        /\ 0 \in Versions /\ begun \in Versions
    BY <2>1, JobType DEF TypeOK
  <2>3. JobsOK'
    BY <2>1, GoesType DEF JobsOK
  <2>4. object' \in [Projects -> [Things -> Versions]] /\ loose' \subseteq Projects \X Things
    <3>1. CASE job[h].why = "text"
      <4>1. PutObject(job[h].at, Text, 1)
        BY <1>2, <3>1 DEF DocObject
      <4>2. object' = [object EXCEPT ![job[h].at][Text] = 1]
        BY <4>1 DEF PutObject
      <4>3. 1 \in Versions
        BY JobType
      <4> QED
        BY <2>2, <4>1, <4>3, PutType
    <3>2. CASE job[h].why # "text"
      <4>1. /\ object' = [object EXCEPT ![job[h].at][job[h].img] = 0]
            /\ loose' = loose \ {<<job[h].at, job[h].img>>}
        BY <1>2, <3>2 DEF DocObject
      <4> QED
        BY <2>2, <4>1 DEF TypeOK
    <3> QED
      BY <3>1, <3>2
  <2> QED
    BY <2>1, <2>3, <2>4 DEF TypeOK, JobsOK
<1>3. CASE DocWrite(h)
  <2>1. ~Idle(h) /\ WriteItem(job[h].at) /\ Becomes(h, NoJob) /\ job[h].why \in Docs
        /\ UNCHANGED <<sim, object, begun, history>>
    BY <1>3 DEF DocWrite, Idle
  <2>2. job[h].at \in Projects /\ ItFits(job[h])
    BY <2>1, JobType
  <2>3. JobsOK'
    BY <2>1, EndsType DEF JobsOK
  <2>4. item' \in [Projects -> {"free", "here", "gone", "ghost"}]
    BY <2>1, <2>2, ItemType
  <2>5. listed' \in [Projects -> SUBSET Images]
    <3>1. listed' = [listed EXCEPT ![job[h].at] = NewList(h)]
      BY <1>3 DEF DocWrite
    <3>2. NewList(h) \in SUBSET Images
      BY <2>1, NewListType
    <3> QED
      BY <2>2, <3>1, <3>2 DEF TypeOK
  <2>6. urls' \subseteq Projects \X Images
    <3>1. job[h].why = "upload" => job[h].img \in Images
      BY <2>2 DEF ItFits
    <3> QED
      BY <1>3, <2>2, <3>1 DEF DocWrite, TypeOK
  <2> QED
    BY <2>1, <2>3, <2>4, <2>5, <2>6 DEF TypeOK, JobsOK, history
<1> QED
  BY <1>1, <1>2, <1>3 DEF DocSteps

(* Copying a project keeps the types.                                      *)
LEMMA CopyTyped ==
  ASSUME TypeOK, NEW h \in Handlers, CopySteps(h)
  PROVE  TypeOK'
<1>1. ASSUME NEW p \in Projects, NEW q \in Projects, CopyStart(h, p, q) PROVE TypeOK'
  <2> DEFINE j == CopyJob(p, q)
  <2>1. /\ Becomes(h, j) /\ begun' \in Versions /\ UNCHANGED <<sim, listed, object, urls, loose>>
        /\ torn' = torn \cup {q} /\ crossed' = crossed \cup {q}
        /\ item' = [item EXCEPT ![q] = "here"]
    BY <1>1, JobType DEF CopyStart, CopyJob
  <2>2. j \in Jobs /\ ItFits(j)
    BY CopyJobType
  <2> HIDE DEF j
  <2>3. JobsOK'
    BY <2>1, <2>2, BecomesType DEF JobsOK
  <2> QED
    BY <2>1, <2>3 DEF TypeOK, JobsOK
<1>2. CASE CopyBlobs(h)
  <2> DEFINE j == [job[h] EXCEPT !.op = "objects", !.todo = @ \cup job[h].keys, !.keys = {}]
  <2>1. ~Idle(h) /\ job[h].why = "copy" /\ job[h].op = "blobs" /\ WriteItem(job[h].at) /\ Becomes(h, j)
    BY <1>2 DEF CopyBlobs, At, Idle
  <2>2. /\ job[h] \in Jobs /\ ItFits(job[h]) /\ job[h].at \in Projects /\ job[h].src \in Projects
        /\ job[h].keys \subseteq Types /\ job[h].ver \in Versions
    BY <2>1, JobType
  <2>3. j \in Jobs
    BY <2>2 DEF Jobs
  <2>4. /\ j.op = "objects" /\ j.why = job[h].why /\ j.at = job[h].at /\ j.src = job[h].src
        /\ j.img = job[h].img /\ j.seen = job[h].seen /\ j.todo = job[h].todo \cup job[h].keys
    BY <2>2 DEF Jobs
  <2> HIDE DEF j
  <2>5. ItFits(j)
    BY <2>1, <2>2, <2>4 DEF ItFits, Docs
  <2>6. JobsOK'
    BY <2>1, <2>3, <2>5, BecomesType DEF JobsOK
  <2>7. item' \in [Projects -> {"free", "here", "gone", "ghost"}]
    BY <2>1, <2>2, ItemType
  <2>8. sim' \in [Projects -> [ver : Versions, keys : SUBSET Types]]
    BY <1>2, <2>2 DEF CopyBlobs, TypeOK
  <2> QED
    BY <1>2, <2>6, <2>7, <2>8 DEF CopyBlobs, TypeOK, JobsOK, history
<1>3. ASSUME NEW t \in Types, CopyObject(h, t) PROVE TypeOK'
  <2> DEFINE found == object[job[h].src][t]
             j == [job[h] EXCEPT !.todo = @ \ {t}]
             k == [job[h] EXCEPT !.todo = @ \ {t}, !.keys = @ \cup {t}]
  <2>1. /\ ~Idle(h) /\ job[h].why = "copy" /\ job[h].op = "objects"
        /\ UNCHANGED <<item, sim, listed, urls, begun, torn, crossed>>
    BY <1>3 DEF CopyObject, At, Idle
  <2>2. /\ job[h] \in Jobs /\ ItFits(job[h]) /\ job[h].at \in Projects /\ job[h].src \in Projects
        /\ t \in Things
    BY <2>1, JobType
  <2>3. found \in Versions
    BY <2>2 DEF TypeOK
  <2>4. \/ Becomes(h, j) /\ UNCHANGED <<object, loose>>
        \/ Becomes(h, k) /\ PutObject(job[h].at, t, found)
    BY <1>3 DEF CopyObject
  <2>5. j \in Jobs /\ ItFits(j)
    <3>1. j \in Jobs
      BY <2>2 DEF Jobs
    <3>2. /\ j.op = job[h].op /\ j.why = job[h].why /\ j.at = job[h].at /\ j.src = job[h].src
          /\ j.img = job[h].img /\ j.seen = job[h].seen /\ j.todo = job[h].todo \ {t}
      BY <2>2 DEF Jobs
    <3> HIDE DEF j
    <3> QED
      BY <2>2, <3>1, <3>2 DEF ItFits
  <2>6. k \in Jobs /\ ItFits(k)
    <3>1. k \in Jobs
      BY <2>2 DEF Jobs
    <3>2. /\ k.op = job[h].op /\ k.why = job[h].why /\ k.at = job[h].at /\ k.src = job[h].src
          /\ k.img = job[h].img /\ k.seen = job[h].seen /\ k.todo = job[h].todo \ {t}
      BY <2>2 DEF Jobs
    <3> HIDE DEF k
    <3> QED
      BY <2>2, <3>1, <3>2 DEF ItFits
  <2> HIDE DEF found, j, k
  <2>7. JobsOK'
    BY <2>4, <2>5, <2>6, BecomesType DEF JobsOK
  <2>8. object' \in [Projects -> [Things -> Versions]] /\ loose' \subseteq Projects \X Things
    BY <2>2, <2>3, <2>4, PutType DEF TypeOK
  <2> QED
    BY <2>1, <2>7, <2>8 DEF TypeOK, JobsOK
<1>4. CASE CopyKeys(h)
  <2>1. /\ ~Idle(h) /\ Goes(h, "text") /\ torn' \subseteq torn
        /\ UNCHANGED <<listed, object, urls, begun, crossed, loose>>
        /\ UNCHANGED <<item, sim>> \/
             (WriteItem(job[h].at) /\
              sim' = [sim EXCEPT ![job[h].at] = [ver |-> job[h].ver, keys |-> job[h].keys]])
    BY <1>4 DEF CopyKeys, At, Idle, Mended
  <2>2. job[h].at \in Projects /\ job[h].ver \in Versions /\ job[h].keys \subseteq Types
    BY <2>1, JobType
  <2>3. JobsOK'
    BY <2>1, GoesType DEF JobsOK
  <2>4. item' \in [Projects -> {"free", "here", "gone", "ghost"}]
    BY <2>1, <2>2, ItemType DEF TypeOK
  <2>5. sim' \in [Projects -> [ver : Versions, keys : SUBSET Types]]
    BY <2>1, <2>2 DEF TypeOK
  <2> QED
    BY <2>1, <2>3, <2>4, <2>5 DEF TypeOK, JobsOK
<1>5. CASE CopyFails(h)
  <2>1. ~Idle(h) /\ Goes(h, "text") /\ UNCHANGED <<store, begun, history>>
    BY <1>5 DEF CopyFails, At, Idle
  <2>2. JobsOK'
    BY <2>1, GoesType DEF JobsOK
  <2> QED
    BY <2>1, <2>2 DEF TypeOK, JobsOK, store, history
<1>6. CASE CopyText(h)
  <2> DEFINE j == [job[h] EXCEPT !.op = "images", !.todo = job[h].seen, !.seen = {}]
  <2>1. /\ ~Idle(h) /\ job[h].why = "copy" /\ crossed' \subseteq crossed
        /\ UNCHANGED <<item, sim, listed, urls, begun, torn>>
        /\ \/ Becomes(h, NoJob) /\ UNCHANGED <<object, loose>>
           \/ Becomes(h, j) /\ PutObject(job[h].at, Text, 1)
    BY <1>6 DEF CopyText, At, Idle, Uncrossed
  <2>2. /\ job[h] \in Jobs /\ ItFits(job[h]) /\ job[h].at \in Projects /\ job[h].src \in Projects
        /\ Text \in Things /\ 1 \in Versions
    BY <2>1, JobType
  <2>3. job[h].seen \subseteq Images
    BY <2>1, <2>2 DEF ItFits
  <2>4. j \in Jobs
    BY <2>2, <2>3 DEF Jobs
  <2>5. /\ j.op = "images" /\ j.why = job[h].why /\ j.at = job[h].at /\ j.src = job[h].src
        /\ j.img = job[h].img /\ j.seen = {} /\ j.todo = job[h].seen
    BY <2>2 DEF Jobs
  <2> HIDE DEF j
  <2>6. ItFits(j)
    BY <2>1, <2>2, <2>3, <2>5 DEF ItFits, Docs
  <2>7. JobsOK'
    BY <2>1, <2>4, <2>6, BecomesType, EndsType DEF JobsOK
  <2>8. object' \in [Projects -> [Things -> Versions]] /\ loose' \subseteq Projects \X Things
    BY <2>1, <2>2, PutType DEF TypeOK
  <2> QED
    BY <2>1, <2>7, <2>8 DEF TypeOK, JobsOK
<1>7. ASSUME NEW i \in Images, CopyImage(h, i) PROVE TypeOK'
  <2> DEFINE j == [job[h] EXCEPT !.todo = @ \ {i}]
             k == [job[h] EXCEPT !.todo = @ \ {i}, !.seen = @ \cup {i}]
  <2>1. /\ ~Idle(h) /\ job[h].why = "copy" /\ job[h].op = "images"
        /\ UNCHANGED <<item, sim, listed, urls, begun, torn, crossed>>
        /\ \/ Becomes(h, j) /\ UNCHANGED <<object, loose>>
           \/ Becomes(h, k) /\ PutObject(job[h].at, i, 1)
    BY <1>7 DEF CopyImage, At, Idle
  <2>2. /\ job[h] \in Jobs /\ ItFits(job[h]) /\ job[h].at \in Projects /\ job[h].src \in Projects
        /\ i \in Things /\ 1 \in Versions
    BY <2>1, JobType
  <2>3. j \in Jobs /\ ItFits(j)
    <3>1. j \in Jobs
      BY <2>2 DEF Jobs
    <3>2. /\ j.op = job[h].op /\ j.why = job[h].why /\ j.at = job[h].at /\ j.src = job[h].src
          /\ j.img = job[h].img /\ j.seen = job[h].seen /\ j.todo = job[h].todo \ {i}
      BY <2>2 DEF Jobs
    <3> HIDE DEF j
    <3> QED
      BY <2>2, <3>1, <3>2 DEF ItFits
  <2>4. k \in Jobs /\ ItFits(k)
    <3>1. k \in Jobs
      BY <2>2 DEF Jobs
    <3>2. /\ k.op = job[h].op /\ k.why = job[h].why /\ k.at = job[h].at /\ k.src = job[h].src
          /\ k.img = job[h].img /\ k.seen = job[h].seen \cup {i} /\ k.todo = job[h].todo \ {i}
      BY <2>2 DEF Jobs
    <3> HIDE DEF k
    <3> QED
      BY <2>1, <2>2, <3>1, <3>2 DEF ItFits, Docs
  <2> HIDE DEF j, k
  <2>5. JobsOK'
    BY <2>1, <2>3, <2>4, BecomesType DEF JobsOK
  <2>6. object' \in [Projects -> [Things -> Versions]] /\ loose' \subseteq Projects \X Things
    BY <2>1, <2>2, PutType DEF TypeOK
  <2> QED
    BY <2>1, <2>5, <2>6 DEF TypeOK, JobsOK
<1>8. CASE CopyList(h)
  <2>1. /\ ~Idle(h) /\ job[h].why = "copy" /\ crossed' \subseteq crossed /\ Becomes(h, NoJob)
        /\ listed' = [listed EXCEPT ![job[h].at] = job[h].seen]
        /\ UNCHANGED <<item, sim, object, urls, begun, torn, loose>>
    BY <1>8 DEF CopyList, At, Idle, Uncrossed
  <2>2. job[h].at \in Projects /\ ItFits(job[h])
    BY <2>1, JobType
  <2>3. job[h].seen \subseteq Images
    BY <2>1, <2>2 DEF ItFits
  <2>4. JobsOK'
    BY <2>1, EndsType DEF JobsOK
  <2>5. listed' \in [Projects -> SUBSET Images]
    BY <2>1, <2>2, <2>3 DEF TypeOK
  <2> QED
    BY <2>1, <2>4, <2>5 DEF TypeOK, JobsOK
<1> QED
  BY <1>1, <1>2, <1>3, <1>4, <1>5, <1>6, <1>7, <1>8 DEF CopySteps

LEMMA NextTyped == ASSUME TypeOK, [Next]_vars PROVE TypeOK'
<1>1. ASSUME NEW h \in Handlers, Dies(h) PROVE TypeOK'
  <2>1. JobsOK'
    BY <1>1, EndsType DEF Dies, JobsOK
  <2> QED
    BY <1>1, <2>1 DEF Dies, TypeOK, JobsOK, store, history
<1>2. ASSUME NEW p \in Projects, NEW i \in Images, PutImage(p, i) PROVE TypeOK'
  <2>1. i \in Things /\ 1 \in Versions
    BY StoreAssumption DEF Things, Versions
  <2>2. object' \in [Projects -> [Things -> Versions]] /\ loose' \subseteq Projects \X Things
    BY <1>2, <2>1, PutType DEF PutImage
  <2> QED
    BY <1>2, <2>2 DEF PutImage, TypeOK
<1>3. CASE UNCHANGED vars
  BY <1>3 DEF vars, store, history, TypeOK
<1> QED
  BY <1>1, <1>2, <1>3, SaveTyped, OpenTyped, DeleteTyped, DocTyped, CopyTyped DEF Next

LEMMA InitTyped == ASSUME Init PROVE TypeOK
<1>1. job \in [Handlers -> Jobs] /\ \A h \in Handlers : ItFits(job[h])
  BY NoJobType DEF Init
<1> QED
  BY <1>1, StoreAssumption DEF Init, TypeOK, Versions, NoResults

(* Every variable keeps its type, and a job holds what its request needs.  *)
THEOREM TypeCorrect == Spec => []TypeOK
<1>1. Init => TypeOK
  BY InitTyped
<1>2. TypeOK /\ [Next]_vars => TypeOK'
  BY NextTyped
<1> QED
  BY <1>1, <1>2, PTL DEF Spec
--------------------------------------------------------------------------------
(* How a step of handler h changes the jobs.                               *)

Moves(h) ==
  SaveSteps(h) \/ OpenSteps(h) \/ DeleteSteps(h) \/ DocSteps(h) \/ CopySteps(h) \/ Dies(h)

SameRequest(j, k) == k.why = j.why /\ k.at = j.at /\ k.src = j.src /\ k.ver = j.ver
Kept(g) ==
  /\ SameRequest(job[g], job'[g]) /\ job'[g].op = job[g].op /\ job'[g].keys = job[g].keys
  /\ job'[g].todo = job[g].todo /\ job'[g].seen = job[g].seen
  /\ (job'[g].clean => job[g].clean)

Copying(j) == j.why = "copy" /\ j.op \in {"blobs", "objects"}
Begun(h) ==
  /\ Idle(h) /\ job'[h].at \in Projects /\ job'[h].src \in Projects
  /\ item'[job'[h].at] = "here" /\ item'[job'[h].src] = "here"
  /\ (job'[h].why = "delete" => job'[h].op = "results")
GoesOn(h) ==
  /\ ~Idle(h) /\ SameRequest(job[h], job'[h]) /\ (job'[h].clean => job[h].clean)
  /\ (Copying(job'[h]) => Copying(job[h]))
  /\ (job[h].why = "delete" => WipeResults(h) \/ WipeDocs(h))
Own(h) == Begun(h) \/ GoesOn(h) \/ job'[h] = NoJob \/ (Idle(h) /\ UNCHANGED job)

\* A deletion has steps of its own.
DeleteInv == \A h \in Handlers : job[h].why = "delete" => job[h].op \in {"results", "docs", "item"}

LEMMA Unclean ==
  ASSUME NEW j \in Jobs
  PROVE  LET k == [j EXCEPT !.clean = FALSE] IN
         /\ SameRequest(j, k) /\ k.op = j.op /\ k.keys = j.keys
         /\ k.todo = j.todo /\ k.seen = j.seen /\ k.clean = FALSE
BY DEF Jobs, SameRequest

LEMMA BecomesKept ==
  ASSUME TypeOK, NEW h \in Handlers, NEW j, Becomes(h, j)
  PROVE  job'[h] = j /\ \A g \in Handlers \ {h} : Kept(g)
<1>1. job' = [job EXCEPT ![h] = j] /\ job \in [Handlers -> Jobs]
  BY DEF Becomes, TypeOK
<1>2. job'[h] = j /\ \A g \in Handlers \ {h} : job'[g] = job[g]
  BY <1>1
<1> QED
  BY <1>2 DEF Kept, SameRequest

LEMMA DisturbsKept ==
  ASSUME TypeOK, NEW h \in Handlers, NEW p, NEW j, Disturbs(h, p, j)
  PROVE  /\ job'[h] = j
         /\ \A g \in Handlers \ {h} : Kept(g) /\ (p \in {job[g].at, job[g].src} => ~job'[g].clean)
<1>1. job'[h] = j
  BY DEF Disturbs
<1>2. ASSUME NEW g \in Handlers \ {h} PROVE Kept(g) /\ (p \in {job[g].at, job[g].src} => ~job'[g].clean)
  <2>1. job[g] \in Jobs
    BY DEF TypeOK
  <2>2. CASE p \in {job[g].at, job[g].src}
    <3>1. job'[g] = [job[g] EXCEPT !.clean = FALSE]
      BY <2>2 DEF Disturbs
    <3> QED
      BY <2>1, <3>1, Unclean DEF Kept, SameRequest
  <2>3. CASE p \notin {job[g].at, job[g].src}
    <3>1. job'[g] = job[g]
      BY <2>3 DEF Disturbs
    <3> QED
      BY <2>3, <3>1 DEF Kept, SameRequest
  <2> QED
    BY <2>2, <2>3
<1> QED
  BY <1>1, <1>2

LEMMA GoesKept ==
  ASSUME TypeOK, NEW h \in Handlers, NEW op, Goes(h, op)
  PROVE  /\ \A g \in Handlers \ {h} : Kept(g)
         /\ SameRequest(job[h], job'[h]) /\ job'[h].op = op /\ job'[h].keys = job[h].keys
         /\ job'[h].todo = job[h].todo /\ job'[h].seen = job[h].seen
         /\ job'[h].clean = job[h].clean
<1> DEFINE j == [job[h] EXCEPT !.op = op]
<1>1. job[h] \in Jobs
  BY DEF TypeOK
<1>2. /\ j.why = job[h].why /\ j.at = job[h].at /\ j.src = job[h].src /\ j.ver = job[h].ver
      /\ j.op = op /\ j.keys = job[h].keys /\ j.todo = job[h].todo /\ j.seen = job[h].seen
      /\ j.clean = job[h].clean
  BY <1>1 DEF Jobs
<1>3. Becomes(h, j)
  BY DEF Goes
<1> HIDE DEF j
<1> QED
  BY <1>2, <1>3, BecomesKept DEF SameRequest

(* A job that does one of its items, or goes on with others.               *)
LEMMA Ticked ==
  ASSUME NEW j \in Jobs, NEW t, NEW k, k = [j EXCEPT !.todo = @ \ {t}]
  PROVE  /\ SameRequest(j, k) /\ k.op = j.op /\ k.keys = j.keys
         /\ k.todo = j.todo \ {t} /\ k.seen = j.seen /\ k.clean = j.clean
BY DEF Jobs, SameRequest

LEMMA TickedKeys ==
  ASSUME NEW j \in Jobs, NEW t, NEW k, k = [j EXCEPT !.todo = @ \ {t}, !.keys = @ \cup {t}]
  PROVE  /\ SameRequest(j, k) /\ k.op = j.op /\ k.keys = j.keys \cup {t}
         /\ k.todo = j.todo \ {t} /\ k.seen = j.seen /\ k.clean = j.clean
BY DEF Jobs, SameRequest

LEMMA TickedSeen ==
  ASSUME NEW j \in Jobs, NEW t, NEW s, NEW k, k = [j EXCEPT !.todo = @ \ {t}, !.seen = @ \cup {s}]
  PROVE  /\ SameRequest(j, k) /\ k.op = j.op /\ k.keys = j.keys
         /\ k.todo = j.todo \ {t} /\ k.seen = j.seen \cup {s} /\ k.clean = j.clean
BY DEF Jobs, SameRequest

LEMMA ToLoad ==
  ASSUME NEW j \in Jobs, NEW k, k = [j EXCEPT !.op = "load", !.todo = j.keys]
  PROVE  /\ SameRequest(j, k) /\ k.op = "load" /\ k.keys = j.keys
         /\ k.todo = j.keys /\ k.seen = j.seen /\ k.clean = j.clean
BY DEF Jobs, SameRequest

LEMMA ToImages ==
  ASSUME NEW j \in Jobs, NEW k, k = [j EXCEPT !.op = "images", !.todo = j.seen, !.seen = {}]
  PROVE  SameRequest(j, k) /\ k.op = "images" /\ k.clean = j.clean
BY DEF Jobs, SameRequest

LEMMA ToObjects ==
  ASSUME NEW j \in Jobs, NEW k,
         k = [j EXCEPT !.op = "objects", !.todo = @ \cup j.keys, !.keys = {}]
  PROVE  /\ SameRequest(j, k) /\ k.op = "objects" /\ k.keys = {}
         /\ k.todo = j.todo \cup j.keys /\ k.seen = j.seen /\ k.clean = j.clean
BY DEF Jobs, SameRequest

LEMMA SaveMoves ==
  ASSUME TypeOK, DeleteInv, NEW h \in Handlers, SaveSteps(h)
  PROVE  Own(h) /\ \A g \in Handlers \ {h} : Kept(g)
<1>1. ASSUME NEW p \in Projects, Create(h, p) PROVE Own(h) /\ \A g \in Handlers \ {h} : Kept(g)
  BY <1>1 DEF Create, Request, Own, Kept, SameRequest
<1>2. ASSUME NEW p \in Projects, NEW keys \in SUBSET Types, CreateWith(h, p, keys) \/ Save(h, p, keys)
      PROVE  Own(h) /\ \A g \in Handlers \ {h} : Kept(g)
  <2>1. Request(h) /\ Disturbs(h, p, SaveJob(p, keys)) /\ item'[p] = "here"
    BY <1>2 DEF CreateWith, Save, TypeOK
  <2>2. SaveJob(p, keys).at = p /\ SaveJob(p, keys).src = p /\ SaveJob(p, keys).why = "save"
    BY <2>1, SaveJobType
  <2>3. job'[h] = SaveJob(p, keys) /\ \A g \in Handlers \ {h} : Kept(g)
    BY <2>1, DisturbsKept
  <2>4. Idle(h)
    BY <2>1 DEF Request
  <2> QED
    BY <2>1, <2>2, <2>3, <2>4 DEF Own, Begun
<1>3. ASSUME NEW p \in Projects, Edit(h, p) PROVE Own(h) /\ \A g \in Handlers \ {h} : Kept(g)
  <2>1. Idle(h) /\ item'[p] = "here" /\ Becomes(h, Begins(p, "edit", "find"))
    BY <1>3 DEF Edit, Request, store
  <2>2. job'[h] = Begins(p, "edit", "find") /\ \A g \in Handlers \ {h} : Kept(g)
    BY <2>1, BecomesKept
  <2>3. job'[h].at = p /\ job'[h].src = p /\ job'[h].why = "edit"
    BY <2>2 DEF Begins
  <2> QED
    BY <2>1, <2>2, <2>3 DEF Own, Begun
<1>4. ASSUME NEW p \in Projects, NEW s \in Projects, Reset(h, p, s)
      PROVE  Own(h) /\ \A g \in Handlers \ {h} : Kept(g)
  <2> DEFINE b == Begins(p, "reset", "find")
             j == [b EXCEPT !.src = s]
  <2>1. b \in Jobs /\ b.why = "reset" /\ b.at = p
    BY StoreAssumption DEF Begins, Jobs, Versions
  <2>2. Idle(h) /\ item'[p] = "here" /\ item'[s] = "here" /\ Becomes(h, j)
    BY <1>4 DEF Reset, Request, store
  <2> HIDE DEF b
  <2>3. j.why = "reset" /\ j.at = p /\ j.src = s
    BY <2>1 DEF Jobs
  <2> HIDE DEF j
  <2>4. job'[h] = j /\ \A g \in Handlers \ {h} : Kept(g)
    BY <2>2, BecomesKept
  <2> QED
    BY <2>2, <2>3, <2>4 DEF Own, Begun
<1>5. ASSUME NEW t \in Types, StoreResult(h, t) PROVE Own(h) /\ \A g \in Handlers \ {h} : Kept(g)
  <2> DEFINE j == [job[h] EXCEPT !.todo = @ \ {t}]
  <2>1. ~Idle(h) /\ job[h].why = "save" /\ Becomes(h, j) /\ job[h] \in Jobs
    BY <1>5 DEF StoreResult, At, Idle, TypeOK
  <2>2. SameRequest(job[h], j) /\ j.op = job[h].op /\ j.clean = job[h].clean
    BY <2>1, Ticked
  <2> HIDE DEF j
  <2>3. job'[h] = j /\ \A g \in Handlers \ {h} : Kept(g)
    BY <2>1, BecomesKept
  <2> QED
    BY <2>1, <2>2, <2>3 DEF Own, GoesOn, Copying, SameRequest
<1>6. CASE Find(h) \/ Write(h) \/ ResetText(h)
  <2>1. ~Idle(h) /\ job[h].why # "delete" /\ job[h].op \notin {"blobs", "objects"}
    <3>1. job[h].op = "find" => job[h].why # "delete"
      BY DEF DeleteInv
    <3> QED
      BY <1>6, <3>1 DEF Find, Write, ResetText, At, Idle
  <2>2. job'[h] = NoJob \/ Goes(h, "write") \/ Goes(h, "text")
    BY <1>6, BecomesKept DEF Find, Write, ResetText
  <2>3. \A g \in Handlers \ {h} : Kept(g)
    BY <1>6, BecomesKept, GoesKept DEF Find, Write, ResetText
  <2>4. CASE Goes(h, "write") \/ Goes(h, "text")
    <3>1. SameRequest(job[h], job'[h]) /\ job'[h].op \in {"write", "text"} /\ job'[h].clean = job[h].clean
      BY <2>4, GoesKept
    <3> QED
      BY <2>1, <2>3, <3>1 DEF Own, GoesOn, Copying
  <2> QED
    BY <2>2, <2>3, <2>4 DEF Own
<1> QED
  BY <1>1, <1>2, <1>3, <1>4, <1>5, <1>6 DEF SaveSteps

LEMMA OpenMoves ==
  ASSUME TypeOK, NEW h \in Handlers, OpenSteps(h)
  PROVE  Own(h) /\ \A g \in Handlers \ {h} : Kept(g)
<1>1. ASSUME NEW p \in Projects, OpenRead(h, p) PROVE Own(h) /\ \A g \in Handlers \ {h} : Kept(g)
  <2> DEFINE j == [Begins(p, "open", "stamp") EXCEPT
                     !.ver = sim[p].ver, !.keys = sim[p].keys, !.clean = Settled(p)]
  <2>1. Idle(h) /\ item'[p] = "here" /\ Becomes(h, j)
    BY <1>1 DEF OpenRead, Request, store
  <2>2. j.at = p /\ j.src = p /\ j.why = "open"
    BY OpenJobType
  <2> HIDE DEF j
  <2>3. job'[h] = j /\ \A g \in Handlers \ {h} : Kept(g)
    BY <2>1, BecomesKept
  <2> QED
    BY <2>1, <2>2, <2>3 DEF Own, Begun
<1>2. CASE Stamp(h)
  <2> DEFINE j == [job[h] EXCEPT !.op = "load", !.todo = job[h].keys]
  <2>1. ~Idle(h) /\ job[h].why = "open" /\ Becomes(h, j) /\ job[h] \in Jobs
    BY <1>2 DEF Stamp, At, Idle, TypeOK
  <2>2. SameRequest(job[h], j) /\ j.clean = job[h].clean
    BY <2>1, ToLoad
  <2> HIDE DEF j
  <2>3. job'[h] = j /\ \A g \in Handlers \ {h} : Kept(g)
    BY <2>1, BecomesKept
  <2> QED
    BY <2>1, <2>2, <2>3 DEF Own, GoesOn, Copying, SameRequest
<1>3. ASSUME NEW t \in Types, Load(h, t) PROVE Own(h) /\ \A g \in Handlers \ {h} : Kept(g)
  <2> DEFINE j == [job[h] EXCEPT !.todo = @ \ {t}, !.seen = @ \cup {object[job[h].at][t]}]
  <2>1. ~Idle(h) /\ job[h].why = "open" /\ Becomes(h, j) /\ job[h] \in Jobs
    BY <1>3 DEF Load, At, Idle, TypeOK
  <2>2. SameRequest(job[h], j) /\ j.clean = job[h].clean
    BY <2>1 DEF Jobs, SameRequest
  <2> HIDE DEF j
  <2>3. job'[h] = j /\ \A g \in Handlers \ {h} : Kept(g)
    BY <2>1, BecomesKept
  <2> QED
    BY <2>1, <2>2, <2>3 DEF Own, GoesOn, Copying, SameRequest
<1>4. CASE Opened(h)
  BY <1>4, BecomesKept DEF Opened, Own
<1> QED
  BY <1>1, <1>2, <1>3, <1>4 DEF OpenSteps

LEMMA DeleteMoves ==
  ASSUME TypeOK, NEW h \in Handlers, DeleteSteps(h)
  PROVE  Own(h) /\ \A g \in Handlers \ {h} : Kept(g)
<1>1. ASSUME NEW p \in Projects, Delete(h, p) PROVE Own(h) /\ \A g \in Handlers \ {h} : Kept(g)
  <2>1. Idle(h) /\ item'[p] = "here" /\ Disturbs(h, p, Begins(p, "delete", "results"))
    BY <1>1 DEF Delete, Request, store
  <2>2. job'[h] = Begins(p, "delete", "results") /\ \A g \in Handlers \ {h} : Kept(g)
    BY <2>1, DisturbsKept
  <2>3. job'[h].at = p /\ job'[h].src = p /\ job'[h].op = "results"
    BY <2>2 DEF Begins
  <2> QED
    BY <2>1, <2>2, <2>3 DEF Own, Begun
<1>2. CASE WipeResults(h) \/ WipeDocs(h)
  <2>1. ~Idle(h) /\ job[h].why = "delete" /\ (Goes(h, "docs") \/ Goes(h, "item"))
    BY <1>2 DEF WipeResults, WipeDocs, At, Idle
  <2>2. SameRequest(job[h], job'[h]) /\ job'[h].clean = job[h].clean /\ \A g \in Handlers \ {h} : Kept(g)
    BY <2>1, GoesKept
  <2> QED
    BY <1>2, <2>1, <2>2 DEF Own, GoesOn, Copying, SameRequest
<1>3. CASE DeleteItem(h)
  BY <1>3, BecomesKept DEF DeleteItem, Own
<1> QED
  BY <1>1, <1>2, <1>3 DEF DeleteSteps

LEMMA DocMoves ==
  ASSUME TypeOK, NEW h \in Handlers, DocSteps(h)
  PROVE  Own(h) /\ \A g \in Handlers \ {h} : Kept(g)
<1>1. ASSUME NEW p \in Projects, NEW why \in Docs, NEW i \in Images \cup {Text}, DocRead(h, p, why, i)
      PROVE  Own(h) /\ \A g \in Handlers \ {h} : Kept(g)
  <2> DEFINE op == IF why = "upload" THEN "find" ELSE "s3"
             b == Begins(p, why, op)
             j == [b EXCEPT !.seen = listed[p], !.img = i]
  <2>1. Idle(h) /\ item'[p] = "here"
    BY <1>1 DEF DocRead, Request, store
  <2>2. b \in Jobs /\ b.at = p /\ b.src = p /\ b.why = why
    BY StoreAssumption DEF Begins, Jobs, Versions, Docs
  <2>3. job' = [g \in Handlers |->
          IF g = h THEN j
          ELSE IF job[g].why = "copy" /\ job[g].at = p THEN [job[g] EXCEPT !.clean = FALSE]
          ELSE job[g]]
    BY <1>1 DEF DocRead
  <2> HIDE DEF op, b
  <2>4. j.at = p /\ j.src = p /\ j.why = why
    BY <2>2 DEF Jobs
  <2> HIDE DEF j
  <2>5. job'[h] = j
    BY <2>3
  <2>6. ASSUME NEW g \in Handlers \ {h} PROVE Kept(g)
    <3>1. job[g] \in Jobs
      BY DEF TypeOK
    <3>2. job'[g] = job[g] \/ job'[g] = [job[g] EXCEPT !.clean = FALSE]
      BY <2>3
    <3> QED
      BY <3>1, <3>2, Unclean DEF Kept, SameRequest
  <2>7. why # "delete"
    BY DEF Docs
  <2> QED
    BY <2>1, <2>4, <2>5, <2>6, <2>7 DEF Own, Begun
<1>2. CASE DocObject(h)
  <2>1. ~Idle(h) /\ job[h].why \in Docs /\ Goes(h, "find")
    BY <1>2 DEF DocObject, Idle
  <2>2. /\ SameRequest(job[h], job'[h]) /\ job'[h].op = "find" /\ job'[h].clean = job[h].clean
        /\ \A g \in Handlers \ {h} : Kept(g)
    BY <2>1, GoesKept
  <2> QED
    BY <2>1, <2>2 DEF Own, GoesOn, Copying, Docs
<1>3. CASE DocWrite(h)
  BY <1>3, BecomesKept DEF DocWrite, Own
<1> QED
  BY <1>1, <1>2, <1>3 DEF DocSteps

LEMMA CopyMoves ==
  ASSUME TypeOK, NEW h \in Handlers, CopySteps(h)
  PROVE  Own(h) /\ \A g \in Handlers \ {h} : Kept(g)
<1>1. ASSUME NEW p \in Projects, NEW q \in Projects, CopyStart(h, p, q)
      PROVE  Own(h) /\ \A g \in Handlers \ {h} : Kept(g)
  <2> DEFINE j == CopyJob(p, q)
  <2>1. Idle(h) /\ item'[p] = "here" /\ item'[q] = "here" /\ Becomes(h, j)
    BY <1>1 DEF CopyStart, CopyJob, Request, TypeOK
  <2>2. j.at = q /\ j.src = p /\ j.why = "copy"
    BY CopyJobType
  <2> HIDE DEF j
  <2>3. job'[h] = j /\ \A g \in Handlers \ {h} : Kept(g)
    BY <2>1, BecomesKept
  <2> QED
    BY <2>1, <2>2, <2>3 DEF Own, Begun
<1>2. CASE CopyBlobs(h)
  <2> DEFINE j == [job[h] EXCEPT !.op = "objects", !.todo = @ \cup job[h].keys, !.keys = {}]
  <2>1. ~Idle(h) /\ job[h].why = "copy" /\ job[h].op = "blobs" /\ Becomes(h, j) /\ job[h] \in Jobs
    BY <1>2 DEF CopyBlobs, At, Idle, TypeOK
  <2>2. SameRequest(job[h], j) /\ j.clean = job[h].clean
    BY <2>1 DEF Jobs, SameRequest
  <2> HIDE DEF j
  <2>3. job'[h] = j /\ \A g \in Handlers \ {h} : Kept(g)
    BY <2>1, BecomesKept
  <2> QED
    BY <2>1, <2>2, <2>3 DEF Own, GoesOn, Copying
<1>3. ASSUME NEW t \in Types, CopyObject(h, t) PROVE Own(h) /\ \A g \in Handlers \ {h} : Kept(g)
  <2> DEFINE j == [job[h] EXCEPT !.todo = @ \ {t}]
             k == [job[h] EXCEPT !.todo = @ \ {t}, !.keys = @ \cup {t}]
  <2>1. ~Idle(h) /\ job[h].why = "copy" /\ job[h].op = "objects" /\ job[h] \in Jobs
        /\ (Becomes(h, j) \/ Becomes(h, k))
    BY <1>3 DEF CopyObject, At, Idle, TypeOK
  <2>2. SameRequest(job[h], j) /\ j.clean = job[h].clean /\ SameRequest(job[h], k) /\ k.clean = job[h].clean
    BY <2>1 DEF Jobs, SameRequest
  <2> HIDE DEF j, k
  <2>3. (job'[h] = j \/ job'[h] = k) /\ \A g \in Handlers \ {h} : Kept(g)
    BY <2>1, BecomesKept
  <2> QED
    BY <2>1, <2>2, <2>3 DEF Own, GoesOn, Copying
<1>4. CASE CopyKeys(h) \/ CopyFails(h)
  <2>1. ~Idle(h) /\ job[h].why = "copy" /\ Goes(h, "text")
    BY <1>4 DEF CopyKeys, CopyFails, At, Idle
  <2>2. /\ SameRequest(job[h], job'[h]) /\ job'[h].op = "text" /\ job'[h].clean = job[h].clean
        /\ \A g \in Handlers \ {h} : Kept(g)
    BY <2>1, GoesKept
  <2> QED
    BY <2>1, <2>2 DEF Own, GoesOn, Copying
<1>5. CASE CopyText(h)
  <2> DEFINE j == [job[h] EXCEPT !.op = "images", !.todo = job[h].seen, !.seen = {}]
  <2>1. ~Idle(h) /\ job[h].why = "copy" /\ (Becomes(h, j) \/ Becomes(h, NoJob)) /\ job[h] \in Jobs
    BY <1>5 DEF CopyText, At, Idle, TypeOK
  <2>2. SameRequest(job[h], j) /\ j.op = "images" /\ j.clean = job[h].clean
    BY <2>1, ToImages
  <2> HIDE DEF j
  <2>3. (job'[h] = j \/ job'[h] = NoJob) /\ \A g \in Handlers \ {h} : Kept(g)
    BY <2>1, BecomesKept
  <2> QED
    BY <2>1, <2>2, <2>3 DEF Own, GoesOn, Copying
<1>6. ASSUME NEW i \in Images, CopyImage(h, i) PROVE Own(h) /\ \A g \in Handlers \ {h} : Kept(g)
  <2> DEFINE j == [job[h] EXCEPT !.todo = @ \ {i}]
             k == [job[h] EXCEPT !.todo = @ \ {i}, !.seen = @ \cup {i}]
  <2>1. ~Idle(h) /\ job[h].why = "copy" /\ job[h].op = "images" /\ job[h] \in Jobs
        /\ (Becomes(h, j) \/ Becomes(h, k))
    BY <1>6 DEF CopyImage, At, Idle, TypeOK
  <2>2. /\ SameRequest(job[h], j) /\ j.clean = job[h].clean /\ j.op = job[h].op
        /\ SameRequest(job[h], k) /\ k.clean = job[h].clean /\ k.op = job[h].op
    BY <2>1 DEF Jobs, SameRequest
  <2> HIDE DEF j, k
  <2>3. (job'[h] = j \/ job'[h] = k) /\ \A g \in Handlers \ {h} : Kept(g)
    BY <2>1, BecomesKept
  <2> QED
    BY <2>1, <2>2, <2>3 DEF Own, GoesOn, Copying
<1>7. CASE CopyList(h)
  BY <1>7, BecomesKept DEF CopyList, Own
<1> QED
  BY <1>1, <1>2, <1>3, <1>4, <1>5, <1>6, <1>7 DEF CopySteps

LEMMA JobsMove ==
  ASSUME TypeOK, DeleteInv, NEW h \in Handlers, Moves(h)
  PROVE  Own(h) /\ \A g \in Handlers \ {h} : Kept(g)
<1>1. CASE Dies(h)
  BY <1>1, BecomesKept DEF Dies, Own
<1> QED
  BY <1>1, SaveMoves, OpenMoves, DeleteMoves, DocMoves, CopyMoves DEF Moves
--------------------------------------------------------------------------------
(* Nothing is left of a deleted project.  A deletion empties S3 part by    *)
(* part before the item goes, and what is stored while it goes on or       *)
(* afterwards is loose.                                                    *)

Left(p, x) == object[p][x] # 0 => <<p, x>> \in loose

UsedInv ==
  /\ \A h \in Handlers : ~Idle(h) => item[job[h].at] # "free" /\ item[job[h].src] # "free"
  /\ \A p \in Projects : item[p] = "free" => sim[p] = NoResults

LeftInv ==
  /\ \A h \in Handlers : At(h, "delete", "docs") => \A t \in Types : Left(job[h].at, t)
  /\ \A h \in Handlers : At(h, "delete", "item") => \A x \in Things : Left(job[h].at, x)
  /\ NothingLeft

(* No item becomes free again, nor is one here again; results are written  *)
(* to the item of the job.                                                 *)
LEMMA ItemsMove ==
  ASSUME TypeOK, NEW h \in Handlers, Moves(h), NEW p \in Projects
  PROVE  /\ item'[p] = "free" => item[p] = "free"
         /\ item'[p] = "here" => item[p] \in {"here", "free"}
         /\ item'[p] = "free" => sim'[p] = sim[p] \/ (~Idle(h) /\ p = job[h].at)
         /\ item'[p] = item[p] \/ item'[p] = "here" \/ (~Idle(h) /\ p = job[h].at)
         /\ item'[p] = "gone" => item[p] = "gone" \/ (DeleteItem(h) /\ p = job[h].at)
         /\ item'[p] = "ghost" => item[p] = "ghost" \/ (~Idle(h) /\ p = job[h].at /\ item[p] # "here")
<1>1. item \in [Projects -> {"free", "here", "gone", "ghost"}]
      /\ sim \in [Projects -> [ver : Versions, keys : SUBSET Types]]
  BY DEF TypeOK
<1>2. CASE SaveSteps(h)
  BY <1>1, <1>2 DEF SaveSteps, Create, CreateWith, Save, Edit, Reset, StoreResult, Find, Write, ResetText,
     WriteItem, store, Idle
<1>3. CASE OpenSteps(h)
  BY <1>1, <1>3 DEF OpenSteps, OpenRead, Stamp, Load, Opened, WriteItem, store, Idle, At
<1>4. CASE DeleteSteps(h)
  BY <1>1, <1>4 DEF DeleteSteps, Delete, WipeResults, WipeDocs, DeleteItem, store, Idle, At
<1>5. CASE DocSteps(h)
  BY <1>1, <1>5 DEF DocSteps, DocRead, DocObject, DocWrite, WriteItem, store, Idle
<1>6. CASE CopySteps(h)
  BY <1>1, <1>6 DEF CopySteps, CopyStart, CopyBlobs, CopyObject, CopyKeys, CopyFails, CopyText,
     CopyImage, CopyList, WriteItem, store, Idle, At
<1>7. CASE Dies(h)
  BY <1>7 DEF Dies, store
<1> QED
  BY <1>2, <1>3, <1>4, <1>5, <1>6, <1>7 DEF Moves

LEMMA UsedKept ==
  ASSUME TypeOK, DeleteInv, UsedInv, [Next]_vars
  PROVE  UsedInv' /\ DeleteInv'
<1>1. ASSUME NEW h \in Handlers, Moves(h) PROVE UsedInv' /\ DeleteInv'
  <2>1. Own(h) /\ \A g \in Handlers \ {h} : Kept(g)
    BY <1>1, JobsMove
  <2>2. \A p \in Projects : item'[p] = "free" => item[p] = "free" /\ sim'[p] = NoResults
    <3> TAKE p \in Projects
    <3>1. item'[p] = "free" => item[p] = "free" /\ (sim'[p] = sim[p] \/ (~Idle(h) /\ p = job[h].at))
      BY <1>1, ItemsMove
    <3> QED
      BY <3>1 DEF UsedInv
  <2>3. ASSUME NEW g \in Handlers, ~Idle(g)'
        PROVE  item'[job'[g].at] # "free" /\ item'[job'[g].src] # "free"
    <3>1. CASE ~Idle(g) /\ SameRequest(job[g], job'[g])
      <4>1. job[g].at \in Projects /\ job[g].src \in Projects
        BY <3>1, JobType
      <4> QED
        BY <2>2, <3>1, <4>1 DEF UsedInv, SameRequest
    <3>2. CASE Begun(g)
      BY <3>2 DEF Begun
    <3>3. Idle(g)' \/ Begun(g) \/ (~Idle(g) /\ SameRequest(job[g], job'[g]))
      <4>1. CASE g # h
        BY <2>1, <2>3, <4>1 DEF Kept, Idle
      <4>2. CASE g = h
        BY <2>1, <2>3, <4>2 DEF Own, GoesOn, Idle, NoJob, Begins
      <4> QED
        BY <4>1, <4>2
    <3> QED
      BY <2>3, <3>1, <3>2, <3>3
  <2>4. ASSUME NEW g \in Handlers, job'[g].why = "delete" PROVE job'[g].op \in {"results", "docs", "item"}
    <3>1. CASE g # h
      BY <2>1, <2>4, <3>1 DEF Kept, SameRequest, DeleteInv
    <3>2. CASE g = h
      <4>1. CASE Begun(h)
        BY <2>4, <3>2, <4>1 DEF Begun
      <4>2. CASE GoesOn(h)
        <5>1. WipeResults(h) \/ WipeDocs(h)
          BY <2>4, <3>2, <4>2 DEF GoesOn, SameRequest
        <5>2. Goes(h, "docs") \/ Goes(h, "item")
          BY <5>1 DEF WipeResults, WipeDocs
        <5> QED
          BY <3>2, <5>2, GoesKept
      <4>3. CASE job'[h] = NoJob
        BY <2>4, <3>2, <4>3 DEF NoJob, Begins
      <4> QED
        BY <2>1, <2>4, <3>2, <4>1, <4>2, <4>3 DEF Own, DeleteInv
    <3> QED
      BY <3>1, <3>2
  <2> QED
    BY <2>2, <2>3, <2>4 DEF UsedInv, DeleteInv
<1>2. ASSUME NEW p \in Projects, NEW i \in Images, PutImage(p, i) PROVE UsedInv' /\ DeleteInv'
  BY <1>2 DEF PutImage, UsedInv, DeleteInv, Idle
<1>3. CASE UNCHANGED vars
  BY <1>3 DEF vars, store, UsedInv, DeleteInv, Idle
<1> QED
  BY <1>1, <1>2, <1>3 DEF Next, Moves

LEMMA PutLeaves ==
  ASSUME TypeOK, NEW p \in Projects, NEW x \in Things, Left(p, x),
         item[p] # "here" \/ Closing(p),
         NEW q \in Projects, NEW y \in Things, NEW v, PutObject(q, y, v)
  PROVE  Left(p, x)'
<1>1. object \in [Projects -> [Things -> Versions]]
  BY DEF TypeOK
<1>2. object' = [object EXCEPT ![q][y] = v]
      /\ loose' = IF item[q] # "here" \/ Closing(q) THEN loose \cup {<<q, y>>} ELSE loose
  BY DEF PutObject
<1>3. CASE p = q /\ x = y
  BY <1>2, <1>3 DEF Left
<1>4. CASE ~(p = q /\ x = y)
  <2>1. object'[p][x] = object[p][x]
    BY <1>1, <1>2, <1>4
  <2> QED
    BY <1>2, <2>1 DEF Left
<1> QED
  BY <1>3, <1>4

LEMMA WipeLeaves ==
  ASSUME TypeOK, NEW p \in Projects, NEW x \in Things, NEW q \in Projects,
         NEW xs \in SUBSET Things, Wipes(q, xs)
  PROVE  Left(p, x) \/ (p = q /\ x \in xs) => Left(p, x)'
<1>1. object \in [Projects -> [Things -> Versions]]
  BY DEF TypeOK
<1>2. CASE /\ object' = [object EXCEPT ![q] = [y \in Things |-> IF y \in xs THEN 0 ELSE @[y]]]
           /\ loose' = loose \ ({q} \X xs)
  <2>1. p = q /\ x \in xs => object'[p][x] = 0
    BY <1>1, <1>2
  <2>2. ~(p = q /\ x \in xs) => object'[p][x] = object[p][x] /\ (<<p, x>> \in loose => <<p, x>> \in loose')
    BY <1>1, <1>2
  <2> QED
    BY <2>1, <2>2 DEF Left
<1>3. CASE /\ UNCHANGED object
           /\ loose' = loose \cup {<<q, y>> : y \in {y \in xs : object[q][y] # 0}}
  BY <1>3 DEF Left
<1> QED
  BY <1>2, <1>3 DEF Wipes

(* What is stored for a project that is gone, or going, is loose, and what *)
(* is loose stays so until S3 has lost it.                                 *)
LEMMA LeftStays ==
  ASSUME TypeOK, [Next]_vars, NEW p \in Projects, NEW x \in Things, Left(p, x),
         item[p] # "here" \/ Closing(p)
  PROVE  Left(p, x)'
<1>1. ASSUME NEW h \in Handlers, ~Idle(h), NEW y \in Things, NEW v, PutObject(job[h].at, y, v)
      PROVE  Left(p, x)'
  <2>1. job[h].at \in Projects
    BY <1>1, JobType
  <2> QED
    BY <1>1, <2>1, PutLeaves
<1>2. CASE UNCHANGED <<object, loose>>
  BY <1>2 DEF Left
<1>3. Types \subseteq Things /\ Images \subseteq Things /\ Text \in Things
  BY DEF Things
<1>4. ASSUME NEW h \in Handlers, SaveSteps(h) PROVE Left(p, x)'
  <2>1. ASSUME NEW t \in Types, StoreResult(h, t) PROVE Left(p, x)'
    BY <1>1, <1>3, <2>1 DEF StoreResult, At, Idle
  <2>2. CASE ResetText(h)
    BY <1>1, <1>2, <1>3, <2>2 DEF ResetText, At, Idle
  <2> QED
    BY <1>2, <1>4, <2>1, <2>2 DEF SaveSteps, Create, CreateWith, Save, Edit, Reset, Find, Write, store, history
<1>5. ASSUME NEW h \in Handlers, OpenSteps(h) PROVE Left(p, x)'
  BY <1>2, <1>5 DEF OpenSteps, OpenRead, Stamp, Load, Opened, store, history
<1>6. ASSUME NEW h \in Handlers, DeleteSteps(h) PROVE Left(p, x)'
  <2>1. CASE WipeResults(h) \/ WipeDocs(h)
    <3>1. ~Idle(h) /\ (Wipes(job[h].at, Types) \/ Wipes(job[h].at, Images \cup {Text}))
      BY <2>1 DEF WipeResults, WipeDocs, At, Idle
    <3>2. job[h].at \in Projects
      BY <3>1, JobType
    <3> QED
      BY <1>3, <3>1, <3>2, WipeLeaves
  <2> QED
    BY <1>2, <1>6, <2>1 DEF DeleteSteps, Delete, DeleteItem, store, history
<1>7. ASSUME NEW h \in Handlers, DocSteps(h) PROVE Left(p, x)'
  <2>1. CASE DocObject(h)
    <3>1. CASE job[h].why = "text"
      BY <1>1, <1>3, <2>1, <3>1 DEF DocObject, Idle
    <3>2. CASE job[h].why # "text"
      <4>1. /\ object' = [object EXCEPT ![job[h].at][job[h].img] = 0]
            /\ loose' = loose \ {<<job[h].at, job[h].img>>} /\ ~Idle(h)
        BY <2>1, <3>2 DEF DocObject, Idle
      <4>2. job[h].at \in Projects /\ object \in [Projects -> [Things -> Versions]]
        BY <4>1, JobType DEF TypeOK
      <4>3. CASE p = job[h].at /\ x = job[h].img
        BY <4>1, <4>2, <4>3 DEF Left
      <4>4. CASE ~(p = job[h].at /\ x = job[h].img)
        BY <4>1, <4>2, <4>4 DEF Left
      <4> QED
        BY <4>3, <4>4
    <3> QED
      BY <3>1, <3>2
  <2> QED
    BY <1>2, <1>7, <2>1 DEF DocSteps, DocRead, DocWrite, store, history
<1>8. ASSUME NEW h \in Handlers, CopySteps(h) PROVE Left(p, x)'
  <2>1. ASSUME NEW t \in Types, CopyObject(h, t) PROVE Left(p, x)'
    BY <1>1, <1>2, <1>3, <2>1 DEF CopyObject, At, Idle
  <2>2. CASE CopyText(h)
    BY <1>1, <1>2, <1>3, <2>2 DEF CopyText, At, Idle
  <2>3. ASSUME NEW i \in Images, CopyImage(h, i) PROVE Left(p, x)'
    BY <1>1, <1>2, <1>3, <2>3 DEF CopyImage, At, Idle
  <2> QED
    BY <1>2, <1>8, <2>1, <2>2, <2>3 DEF CopySteps, CopyStart, CopyBlobs, CopyKeys, CopyFails, CopyList, store, history
<1>9. ASSUME NEW h \in Handlers, Dies(h) PROVE Left(p, x)'
  BY <1>2, <1>9 DEF Dies, store, history
<1>10. ASSUME NEW q \in Projects, NEW i \in Images, PutImage(q, i) PROVE Left(p, x)'
  BY <1>3, <1>10, PutLeaves DEF PutImage
<1>11. CASE UNCHANGED vars
  BY <1>2, <1>11 DEF vars, store, history
<1> QED
  BY <1>4, <1>5, <1>6, <1>7, <1>8, <1>9, <1>10, <1>11 DEF Next

LEMMA LeftKept ==
  ASSUME TypeOK, DeleteInv, UsedInv, LeftInv, [Next]_vars
  PROVE  LeftInv'
<1>1. ASSUME NEW g \in Handlers, job[g].why = "delete", job'[g].at = job[g].at, NEW x \in Things,
             Left(job[g].at, x)
      PROVE  Left(job[g].at, x)'
  <2>1. ~Idle(g)
    BY <1>1 DEF DeleteInv, Idle
  <2>2. job[g].at \in Projects
    BY <2>1, JobType
  <2>3. Closing(job[g].at)
    BY <1>1 DEF Closing
  <2>4. Left(job[g].at, x) /\ (\A p \in Projects : p = job[g].at => Left(p, x)')
    BY <1>1, <2>2, <2>3, LeftStays
  <2> QED
    BY <1>1, <2>2, <2>4 DEF Left
<1>2. Types \subseteq Things /\ Things = Types \cup Images \cup {Text}
  BY DEF Things
<1>3. ASSUME NEW h \in Handlers, Moves(h) PROVE LeftInv'
  <2>1. Own(h) /\ \A g \in Handlers \ {h} : Kept(g)
    BY <1>3, JobsMove
  <2>2. ASSUME NEW g \in Handlers, job'[g].why = "delete"
        PROVE  \/ Kept(g) /\ job[g].why = "delete"
               \/ g = h /\ (WipeResults(h) \/ WipeDocs(h)) /\ job[g].why = "delete"
               \/ job'[g].op = "results"
    <3>1. CASE g # h
      BY <2>1, <2>2, <3>1 DEF Kept, SameRequest
    <3>2. CASE g = h
      BY <2>1, <2>2, <3>2 DEF Own, Begun, GoesOn, SameRequest, NoJob, Begins, Kept
    <3> QED
      BY <3>1, <3>2
  <2>3. ASSUME NEW g \in Handlers, At(g, "delete", "docs")', NEW t \in Types PROVE Left(job[g].at, t)'
    <3>1. job'[g].why = "delete" /\ job'[g].op = "docs"
      BY <2>3 DEF At
    <3>2. CASE Kept(g) /\ job[g].why = "delete"
      <4>1. At(g, "delete", "docs") /\ job'[g].at = job[g].at
        BY <3>1, <3>2 DEF At, Kept, SameRequest
      <4> QED
        BY <1>1, <1>2, <3>2, <4>1 DEF LeftInv
    <3>3. CASE g = h /\ WipeResults(h)
      <4>1. Wipes(job[h].at, Types) /\ Goes(h, "docs") /\ ~Idle(h)
        BY <3>3 DEF WipeResults, At, Idle
      <4>2. job[h].at \in Projects /\ job'[h].at = job[h].at
        BY <4>1, JobType, GoesKept DEF SameRequest
      <4>3. \A p \in Projects : p = job[h].at => Left(p, t)'
        BY <1>2, <4>1, <4>2, WipeLeaves
      <4> QED
        BY <3>3, <4>2, <4>3 DEF Left
    <3>4. CASE g = h /\ WipeDocs(h)
      <4>1. Goes(h, "item")
        BY <3>4 DEF WipeDocs
      <4> QED
        BY <3>1, <3>4, <4>1, GoesKept
    <3> QED
      BY <2>2, <3>1, <3>2, <3>3, <3>4
  <2>4. ASSUME NEW g \in Handlers, At(g, "delete", "item")', NEW x \in Things PROVE Left(job[g].at, x)'
    <3>1. job'[g].why = "delete" /\ job'[g].op = "item"
      BY <2>4 DEF At
    <3>2. CASE Kept(g) /\ job[g].why = "delete"
      <4>1. At(g, "delete", "item") /\ job'[g].at = job[g].at
        BY <3>1, <3>2 DEF At, Kept, SameRequest
      <4> QED
        BY <1>1, <3>2, <4>1 DEF LeftInv
    <3>3. CASE g = h /\ WipeDocs(h)
      <4>1. Wipes(job[h].at, Images \cup {Text}) /\ Goes(h, "item") /\ At(h, "delete", "docs") /\ ~Idle(h)
        BY <3>3 DEF WipeDocs, At, Idle
      <4>2. job[h].at \in Projects /\ job'[h].at = job[h].at
        BY <4>1, JobType, GoesKept DEF SameRequest
      <4>3. Left(job[h].at, x) \/ x \in Images \cup {Text}
        BY <1>2, <4>1 DEF LeftInv
      <4>4. Images \cup {Text} \in SUBSET Things
        BY <1>2
      <4>5. \A p \in Projects : p = job[h].at => Left(p, x)'
        BY <4>1, <4>2, <4>3, <4>4, WipeLeaves
      <4> QED
        BY <3>3, <4>2, <4>5 DEF Left
    <3>4. CASE g = h /\ WipeResults(h)
      <4>1. Goes(h, "docs")
        BY <3>4 DEF WipeResults
      <4> QED
        BY <3>1, <3>4, <4>1, GoesKept
    <3> QED
      BY <2>2, <3>1, <3>2, <3>3, <3>4
  <2>5. ASSUME NEW p \in Projects, NEW x \in Things, item'[p] \in {"gone", "ghost"} PROVE Left(p, x)'
    <3>1. CASE item[p] \in {"gone", "ghost"}
      <4>1. Left(p, x) /\ item[p] # "here"
        BY <3>1 DEF LeftInv, NothingLeft, Left
      <4> QED
        BY <4>1, LeftStays
    <3>2. CASE item[p] \notin {"gone", "ghost"}
      <4>1. DeleteItem(h) /\ p = job[h].at
        <5>1. item'[p] = "gone" => item[p] = "gone" \/ (DeleteItem(h) /\ p = job[h].at)
          BY <1>3, ItemsMove
        <5>2. item'[p] = "ghost" => item[p] = "ghost" \/ (~Idle(h) /\ p = job[h].at /\ item[p] # "here")
          BY <1>3, ItemsMove
        <5>3. item[p] \in {"free", "here"}
          BY <3>2 DEF TypeOK
        <5> QED
          BY <2>5, <3>2, <5>1, <5>2, <5>3 DEF UsedInv
      <4>2. At(h, "delete", "item") /\ UNCHANGED <<object, loose>>
        BY <4>1 DEF DeleteItem, history
      <4>3. Left(p, x)
        BY <4>1, <4>2 DEF LeftInv
      <4> QED
        BY <4>2, <4>3 DEF Left
    <3> QED
      BY <3>1, <3>2
  <2> QED
    BY <2>3, <2>4, <2>5 DEF LeftInv, NothingLeft, Left
<1>4. ASSUME UNCHANGED <<job, item>> PROVE LeftInv'
  <2>1. ASSUME NEW h \in Handlers, NEW x \in Things, job[h].why = "delete", Left(job[h].at, x)
        PROVE  Left(job[h].at, x)'
    BY <1>1, <1>4, <2>1
  <2>2. ASSUME NEW p \in Projects, NEW x \in Things, item[p] \in {"gone", "ghost"} PROVE Left(p, x)'
    <3>1. Left(p, x) /\ item[p] # "here"
      BY <2>2 DEF LeftInv, NothingLeft, Left
    <3> QED
      BY <3>1, LeftStays
  <2>3. \A h \in Handlers : At(h, "delete", "docs")' => \A t \in Types : Left(job[h].at, t)'
    BY <1>2, <1>4, <2>1 DEF LeftInv, At, Left
  <2>4. \A h \in Handlers : At(h, "delete", "item")' => \A x \in Things : Left(job[h].at, x)'
    BY <1>4, <2>1 DEF LeftInv, At, Left
  <2> QED
    BY <1>4, <2>2, <2>3, <2>4 DEF LeftInv, NothingLeft, Left, At
<1>5. ASSUME NEW q \in Projects, NEW i \in Images, PutImage(q, i) PROVE LeftInv'
  BY <1>4, <1>5 DEF PutImage
<1>6. CASE UNCHANGED vars
  BY <1>4, <1>6 DEF vars, store
<1> QED
  BY <1>3, <1>5, <1>6 DEF Next, Moves

(* A deleted project leaves nothing in S3 but what was stored behind its   *)
(* deletion, or what S3 refused to delete (delete_project).                *)
THEOREM DeletionsComplete == Spec => []NothingLeft
<1> DEFINE I == TypeOK /\ DeleteInv /\ UsedInv /\ LeftInv
<1>1. Init => I
  <2> SUFFICES ASSUME Init PROVE DeleteInv /\ UsedInv /\ LeftInv
    BY InitTyped
  <2>1. \A h \in Handlers : job[h].op = "idle" /\ job[h].why = "none"
    BY DEF Init, NoJob, Begins
  <2>2. \A p \in Projects : item[p] = "free" /\ sim[p] = NoResults
    BY DEF Init
  <2> QED
    BY <2>1, <2>2 DEF DeleteInv, UsedInv, LeftInv, NothingLeft, At, Idle
<1>2. I /\ [Next]_vars => I'
  BY NextTyped, UsedKept, LeftKept
<1>3. I => NothingLeft
  BY DEF LeftInv
<1> QED
  BY <1>1, <1>2, <1>3, PTL DEF Spec
--------------------------------------------------------------------------------
(* The results of a project are of one save.  A save, a copy or an opening *)
(* that nobody disturbed is alone with the projects it reads and writes,   *)
(* and while a project is not torn nobody writes its results.              *)

Busy(j, p) == j.op # "idle" /\ j.at = p /\ (j.why \in {"save", "delete"} \/ Copying(j))
Relies(j) == j.op # "idle" /\ j.clean /\ (j.why \in {"save", "open"} \/ Copying(j))

BusyInv ==
  /\ \A h \in Handlers : \A p \in Projects : Busy(job[h], p) => p \in torn
  /\ \A h \in Handlers : \A g \in Handlers \ {h} :
       Relies(job[h]) => ~Busy(job[g], job[h].at) /\ ~Busy(job[g], job[h].src)

(* A handler that begins to change results disturbs the others.            *)
BeginsApart(h) ==
  /\ \A p \in Projects : Busy(job'[h], p) =>
       p \in torn' /\ \A g \in Handlers \ {h} : Relies(job'[g]) => p # job'[g].at /\ p # job'[g].src
  /\ Relies(job'[h]) => \A g \in Handlers \ {h} : ~Busy(job[g], job'[h].at) /\ ~Busy(job[g], job'[h].src)

LEMMA Quiet ==
  ASSUME NEW p, ~Changes(p), NEW g \in Handlers
  PROVE  ~Busy(job[g], p)
BY DEF Changes, Busy, Copying

LEMMA DisturbsAlone ==
  ASSUME TypeOK, NEW h \in Handlers, NEW p \in Projects, NEW j, j.at = p, j.src = p,
         Disturbs(h, p, j), torn' = torn \cup {p}, j.why \in {"save", "delete"},
         j.why = "save" /\ j.clean => ~Changes(p)
  PROVE  BeginsApart(h)
<1>1. /\ job'[h] = j
      /\ \A g \in Handlers \ {h} : Kept(g) /\ (p \in {job[g].at, job[g].src} => ~job'[g].clean)
  BY DisturbsKept
<1>2. ASSUME NEW q \in Projects, Busy(job'[h], q)
      PROVE  q \in torn' /\ \A g \in Handlers \ {h} : Relies(job'[g]) => q # job'[g].at /\ q # job'[g].src
  <2>1. q = p
    BY <1>1, <1>2 DEF Busy
  <2>2. ASSUME NEW g \in Handlers \ {h}, Relies(job'[g]) PROVE q # job'[g].at /\ q # job'[g].src
    BY <1>1, <2>1, <2>2 DEF Relies, Kept, SameRequest
  <2> QED
    BY <2>1, <2>2
<1>3. ASSUME Relies(job'[h]), NEW g \in Handlers \ {h}
      PROVE  ~Busy(job[g], job'[h].at) /\ ~Busy(job[g], job'[h].src)
  <2>1. ~Changes(p)
    BY <1>1, <1>3 DEF Relies, Copying
  <2> QED
    BY <1>1, <2>1, Quiet
<1> QED
  BY <1>2, <1>3 DEF BeginsApart

LEMMA BeginsAlone ==
  ASSUME TypeOK, UsedInv, NEW h \in Handlers, Moves(h), Begun(h)
  PROVE  BeginsApart(h)
<1>1. Idle(h) /\ job'[h] # NoJob
  <2>1. job'[h].at \in Projects /\ NoJob.at = None
    BY DEF Begun, NoJob, Begins
  <2> QED
    BY <2>1, StoreAssumption DEF Begun
<1>2. ASSUME NEW p \in Projects, NEW keys \in SUBSET Types, CreateWith(h, p, keys) \/ Save(h, p, keys)
      PROVE  BeginsApart(h)
  <2> DEFINE j == SaveJob(p, keys)
  <2>1. Request(h) /\ Disturbs(h, p, j) /\ torn' = torn \cup {p}
    BY <1>2 DEF CreateWith, Save
  <2>2. j.at = p /\ j.src = p /\ j.why = "save" /\ (j.clean => ~Changes(p))
    BY <2>1, SaveJobType
  <2> HIDE DEF j
  <2> QED
    BY <2>1, <2>2, DisturbsAlone
<1>3. ASSUME NEW p \in Projects, Delete(h, p) PROVE BeginsApart(h)
  <2> DEFINE j == Begins(p, "delete", "results")
  <2>1. Disturbs(h, p, j) /\ torn' = torn \cup {p}
    BY <1>3 DEF Delete
  <2>2. j.at = p /\ j.src = p /\ j.why = "delete"
    BY DEF Begins
  <2> HIDE DEF j
  <2> QED
    BY <2>1, <2>2, DisturbsAlone
<1>4. ASSUME job'[h].why \in {"edit", "reset"} \cup Docs PROVE BeginsApart(h)
  BY <1>4 DEF BeginsApart, Busy, Relies, Copying, Docs
<1>5. ASSUME NEW p \in Projects, OpenRead(h, p) PROVE BeginsApart(h)
  <2> DEFINE j == [Begins(p, "open", "stamp") EXCEPT
                     !.ver = sim[p].ver, !.keys = sim[p].keys, !.clean = Settled(p)]
  <2>1. Becomes(h, j)
    BY <1>5 DEF OpenRead
  <2>2. j.at = p /\ j.src = p /\ j.why = "open" /\ (j.clean => Settled(p))
    BY OpenJobType
  <2> HIDE DEF j
  <2>3. job'[h] = j
    BY <2>1, BecomesKept
  <2>4. Settled(p) => \A g \in Handlers : ~Busy(job[g], p)
    BY Quiet DEF Settled
  <2> QED
    BY <2>2, <2>3, <2>4 DEF BeginsApart, Busy, Relies, Copying
<1>6. ASSUME NEW p \in Projects, NEW q \in Projects, CopyStart(h, p, q) PROVE BeginsApart(h)
  <2> DEFINE j == CopyJob(p, q)
  <2>1. Becomes(h, j) /\ item[q] = "free" /\ torn' = torn \cup {q}
    BY <1>6 DEF CopyStart, CopyJob
  <2>2. j.at = q /\ j.src = p /\ j.why = "copy" /\ (j.clean => Settled(p))
    BY CopyJobType
  <2> HIDE DEF j
  <2>3. job'[h] = j /\ \A g \in Handlers \ {h} : Kept(g)
    BY <2>1, BecomesKept
  <2>4. Settled(p) => \A g \in Handlers : ~Busy(job[g], p)
    BY Quiet DEF Settled
  <2>5. \A g \in Handlers : ~Idle(g) => q # job[g].at /\ q # job[g].src
    BY <2>1 DEF UsedInv
  <2>6. \A g \in Handlers : ~Busy(job[g], q)
    BY <2>5 DEF Busy, Idle
  <2>7. \A g \in Handlers \ {h} : Relies(job'[g]) => q # job'[g].at /\ q # job'[g].src
    BY <2>3, <2>5 DEF Relies, Kept, SameRequest, Idle
  <2> QED
    BY <2>1, <2>2, <2>3, <2>4, <2>6, <2>7 DEF BeginsApart, Busy, Relies
<1>7. ASSUME NEW p \in Projects, Edit(h, p) PROVE BeginsApart(h)
  <2>1. job'[h] = Begins(p, "edit", "find")
    BY <1>7, BecomesKept DEF Edit
  <2> QED
    BY <1>4, <2>1 DEF Begins
<1>8. ASSUME NEW p \in Projects, NEW s \in Projects, Reset(h, p, s) PROVE BeginsApart(h)
  <2> DEFINE b == Begins(p, "reset", "find")
             j == [b EXCEPT !.src = s]
  <2>1. b \in Jobs /\ b.why = "reset"
    BY StoreAssumption DEF Begins, Jobs, Versions
  <2>2. Becomes(h, j)
    BY <1>8 DEF Reset
  <2> HIDE DEF b
  <2>3. j.why = "reset"
    BY <2>1 DEF Jobs
  <2> HIDE DEF j
  <2> QED
    BY <1>4, <2>2, <2>3, BecomesKept
<1>9. ASSUME NEW p \in Projects, NEW why \in Docs, NEW i \in Images \cup {Text}, DocRead(h, p, why, i)
      PROVE  BeginsApart(h)
  <2> DEFINE b == Begins(p, why, IF why = "upload" THEN "find" ELSE "s3")
             j == [b EXCEPT !.seen = listed[p], !.img = i]
  <2>1. b \in Jobs /\ b.why = why
    BY StoreAssumption DEF Begins, Jobs, Versions, Docs
  <2>2. job'[h] = j
    BY <1>9 DEF DocRead
  <2> HIDE DEF b
  <2>3. j.why = why
    BY <2>1 DEF Jobs
  <2> QED
    BY <1>4, <2>2, <2>3
<1>10. ASSUME NEW p \in Projects, Create(h, p) PROVE BeginsApart(h)
  BY <1>1, <1>10 DEF Create, Begun, BeginsApart, Busy, Relies, Idle
<1>11. ~Idle(h) => BeginsApart(h)
  BY <1>1
<1>12. CASE SaveSteps(h)
  BY <1>2, <1>7, <1>8, <1>10, <1>11, <1>12
     DEF SaveSteps, StoreResult, Find, Write, ResetText, At, Idle
<1>13. CASE OpenSteps(h)
  BY <1>5, <1>11, <1>13 DEF OpenSteps, Stamp, Load, Opened, At, Idle
<1>14. CASE DeleteSteps(h)
  BY <1>3, <1>11, <1>14 DEF DeleteSteps, WipeResults, WipeDocs, DeleteItem, At, Idle
<1>15. CASE DocSteps(h)
  BY <1>9, <1>11, <1>15 DEF DocSteps, DocObject, DocWrite, Idle
<1>16. CASE CopySteps(h)
  BY <1>6, <1>11, <1>16 DEF CopySteps, CopyBlobs, CopyObject, CopyKeys, CopyFails, CopyText, CopyImage,
     CopyList, At, Idle
<1>17. CASE Dies(h)
  BY <1>11, <1>17 DEF Dies
<1> QED
  BY <1>12, <1>13, <1>14, <1>15, <1>16, <1>17 DEF Moves

(* Only a save or a copy that nobody disturbed makes a project whole.      *)
LEMMA TornMoves ==
  ASSUME TypeOK, NEW h \in Handlers, Moves(h), NEW p \in torn, p \notin torn'
  PROVE  /\ p = job[h].at /\ Relies(job[h]) /\ Busy(job[h], p) /\ job'[h].why # "delete"
         /\ \A q : ~Busy(job'[h], q)
         /\ (Write(h) /\ job[h].why = "save") \/ CopyKeys(h)
<1>1. CASE Write(h) /\ job[h].why = "save"
  <2>1. p = job[h].at /\ job[h].clean /\ job[h].op = "write" /\ Becomes(h, NoJob)
    BY <1>1 DEF Write, Mended
  <2>2. job'[h] = NoJob
    BY <2>1, BecomesKept
  <2> QED
    BY <1>1, <2>1, <2>2 DEF Relies, Busy, NoJob, Begins
<1>2. CASE CopyKeys(h)
  <2>1. p = job[h].at /\ job[h].clean /\ job[h].why = "copy" /\ job[h].op = "objects" /\ Goes(h, "text")
    BY <1>2 DEF CopyKeys, Mended, At
  <2>2. job'[h].why = "copy" /\ job'[h].op = "text"
    BY <2>1, GoesKept DEF SameRequest
  <2> QED
    BY <1>2, <2>1, <2>2 DEF Relies, Busy, Copying
<1>3. CASE SaveSteps(h)
  BY <1>1, <1>3 DEF SaveSteps, Create, CreateWith, Save, Edit, Reset, StoreResult, Find, Write, ResetText,
     history
<1>4. CASE OpenSteps(h) \/ DeleteSteps(h) \/ DocSteps(h) \/ Dies(h)
  BY <1>4 DEF OpenSteps, OpenRead, Stamp, Load, Opened, DeleteSteps, Delete, WipeResults, WipeDocs,
     DeleteItem, DocSteps, DocRead, DocObject, DocWrite, Dies, history
<1>5. CASE CopySteps(h)
  BY <1>2, <1>5 DEF CopySteps, CopyStart, CopyBlobs, CopyObject, CopyFails, CopyText, CopyImage,
     CopyList, history
<1> QED
  BY <1>3, <1>4, <1>5 DEF Moves

LEMMA OwnBusy ==
  ASSUME NEW h \in Handlers, Own(h)
  PROVE  /\ \A p : Busy(job'[h], p) => Busy(job[h], p) \/ Begun(h)
         /\ Relies(job'[h]) => Begun(h) \/
              (Relies(job[h]) /\ job'[h].at = job[h].at /\ job'[h].src = job[h].src)
<1>1. CASE GoesOn(h)
  BY <1>1 DEF GoesOn, Busy, Relies, SameRequest, Idle
<1>2. CASE job'[h] = NoJob
  BY <1>2 DEF NoJob, Begins, Busy, Relies
<1> QED
  BY <1>1, <1>2 DEF Own, Busy, Relies, Idle

LEMMA BusyKept ==
  ASSUME TypeOK, DeleteInv, UsedInv, BusyInv, [Next]_vars
  PROVE  BusyInv'
<1>1. ASSUME NEW h \in Handlers, Moves(h) PROVE BusyInv'
  <2>1. Own(h) /\ \A g \in Handlers \ {h} : Kept(g)
    BY <1>1, JobsMove
  <2>2. Begun(h) => BeginsApart(h)
    BY <1>1, BeginsAlone
  <2>3. \A g \in Handlers \ {h} : /\ \A p : Busy(job'[g], p) <=> Busy(job[g], p)
                                  /\ Relies(job'[g]) => Relies(job[g])
                                  /\ job'[g].at = job[g].at /\ job'[g].src = job[g].src
    BY <2>1 DEF Kept, SameRequest, Busy, Relies, Copying
  <2>4. ASSUME NEW g \in Handlers, NEW p \in Projects, Busy(job'[g], p) PROVE p \in torn'
    <3>1. CASE g = h /\ Begun(h)
      BY <2>2, <2>4, <3>1 DEF BeginsApart
    <3>2. CASE Busy(job[g], p)
      <4>1. p \in torn
        BY <3>2 DEF BusyInv
      <4>2. ASSUME p \notin torn' PROVE FALSE
        <5>1. p = job[h].at /\ Relies(job[h]) /\ \A q : ~Busy(job'[h], q)
          BY <1>1, <4>1, <4>2, TornMoves
        <5>2. g # h
          BY <2>4, <5>1
        <5> QED
          BY <3>2, <5>1, <5>2 DEF BusyInv
      <4> QED
        BY <4>2
    <3> QED
      BY <2>1, <2>3, <2>4, <3>1, <3>2, OwnBusy
  <2>5. ASSUME NEW f \in Handlers, NEW g \in Handlers \ {f}, Relies(job'[f])
        PROVE  ~Busy(job'[g], job'[f].at) /\ ~Busy(job'[g], job'[f].src)
    <3>0. job'[f].at \in Projects /\ job'[f].src \in Projects
      <4>1. TypeOK'
        BY NextTyped
      <4>2. ItFits(job'[f]) /\ job'[f].op # "idle"
        BY <2>5, <4>1 DEF TypeOK, Relies
      <4> QED
        BY <4>2 DEF ItFits
    <3>1. CASE f # h /\ g # h
      <4>1. Relies(job[f]) /\ job'[f].at = job[f].at /\ job'[f].src = job[f].src
        BY <2>3, <2>5, <3>1
      <4>2. ~Busy(job[g], job[f].at) /\ ~Busy(job[g], job[f].src)
        BY <4>1 DEF BusyInv
      <4> QED
        BY <2>3, <3>1, <4>1, <4>2
    <3>2. CASE f = h
      <4>1. CASE Begun(h)
        BY <2>2, <2>3, <2>5, <3>2, <4>1 DEF BeginsApart
      <4>2. CASE Relies(job[h]) /\ job'[h].at = job[h].at /\ job'[h].src = job[h].src
        <5>1. ~Busy(job[g], job[h].at) /\ ~Busy(job[g], job[h].src)
          BY <3>2, <4>2 DEF BusyInv
        <5> QED
          BY <2>3, <3>2, <4>2, <5>1
      <4> QED
        BY <2>1, <2>5, <3>2, <4>1, <4>2, OwnBusy
    <3>3. CASE g = h
      <4>1. f # h /\ Relies(job[f]) /\ job'[f].at = job[f].at /\ job'[f].src = job[f].src
        BY <2>3, <2>5, <3>3
      <4>2. ~Busy(job[h], job[f].at) /\ ~Busy(job[h], job[f].src)
        BY <3>3, <4>1 DEF BusyInv
      <4>3. CASE Begun(h)
        BY <2>2, <2>5, <3>0, <3>3, <4>1, <4>3 DEF BeginsApart
      <4> QED
        BY <2>1, <3>3, <4>1, <4>2, <4>3, OwnBusy
    <3> QED
      BY <3>1, <3>2, <3>3
  <2> QED
    BY <2>4, <2>5 DEF BusyInv
<1>2. ASSUME UNCHANGED <<job, torn>> PROVE BusyInv'
  BY <1>2 DEF BusyInv
<1> QED
  BY <1>1, <1>2 DEF Next, Moves, PutImage, vars, history

(* Only a busy handler changes results of a project, but for a reset.      *)
LEMMA ResultsMove ==
  ASSUME TypeOK, NEW h \in Handlers, Moves(h), NEW p \in Projects, ~Busy(job[h], p)
  PROVE  /\ \A t \in Types : object'[p][t] = object[p][t]
         /\ sim'[p] = sim[p] \/ sim'[p].keys = {}
<1>1. /\ object \in [Projects -> [Things -> Versions]]
      /\ sim \in [Projects -> [ver : Versions, keys : SUBSET Types]]
      /\ \A t \in Types : t # Text /\ t \notin Images /\ t \in Things
  BY StoreAssumption DEF TypeOK, Things
<1>2. CASE UNCHANGED <<object, sim>>
  BY <1>2
<1>3. ASSUME ~Idle(h), NEW q \in Projects, NEW x \in Things, NEW v, PutObject(q, x, v), UNCHANGED sim,
             x \in Types => q # p
      PROVE  /\ \A t \in Types : object'[p][t] = object[p][t]
             /\ sim'[p] = sim[p] \/ sim'[p].keys = {}
  BY <1>1, <1>3 DEF PutObject
<1>4. ~Idle(h) => job[h].at \in Projects
  BY JobType
<1>5. CASE SaveSteps(h)
  <2>1. ASSUME NEW t \in Types, StoreResult(h, t)
        PROVE  ~Idle(h) /\ PutObject(job[h].at, t, job[h].ver) /\ UNCHANGED sim /\ job[h].at # p
    BY <2>1 DEF StoreResult, At, Idle, Busy
  <2>2. CASE Write(h)
    <3>1. ~Idle(h) /\ UNCHANGED object /\ (job[h].why = "save" => job[h].at # p)
      BY <2>2 DEF Write, Idle, Busy
    <3> QED
      BY <1>1, <1>4, <2>2, <3>1 DEF Write, NoResults
  <2>3. CASE ResetText(h)
    <3>1. ~Idle(h) /\ UNCHANGED sim /\ (UNCHANGED object \/ PutObject(job[h].at, Text, 1))
      BY <2>3 DEF ResetText, At, Idle
    <3> QED
      BY <1>1, <1>2, <1>3, <1>4, <3>1 DEF Things
  <2> QED
    BY <1>1, <1>2, <1>3, <1>4, <1>5, <2>1, <2>2, <2>3
       DEF SaveSteps, Create, CreateWith, Save, Edit, Reset, Find, store
<1>6. CASE OpenSteps(h) \/ Dies(h)
  BY <1>2, <1>6 DEF OpenSteps, OpenRead, Stamp, Load, Opened, Dies, store
<1>7. CASE DeleteSteps(h)
  <2>1. CASE WipeResults(h)
    <3>1. ~Idle(h) /\ job[h].at # p /\ Wipes(job[h].at, Types) /\ UNCHANGED sim
      BY <2>1 DEF WipeResults, At, Idle, Busy
    <3> QED
      BY <1>1, <1>4, <3>1 DEF Wipes
  <2>2. CASE WipeDocs(h)
    <3>1. ~Idle(h) /\ Wipes(job[h].at, Images \cup {Text}) /\ UNCHANGED sim
      BY <2>2 DEF WipeDocs, At, Idle
    <3> QED
      BY <1>1, <1>4, <3>1 DEF Wipes
  <2> QED
    BY <1>2, <1>7, <2>1, <2>2 DEF DeleteSteps, Delete, DeleteItem, store
<1>8. CASE DocSteps(h)
  <2>1. CASE DocObject(h)
    <3>1. ~Idle(h) /\ UNCHANGED sim /\ job[h].why \in Docs
      BY <2>1 DEF DocObject, Idle
    <3>2. CASE job[h].why = "text"
      BY <1>1, <1>3, <1>4, <2>1, <3>1, <3>2 DEF DocObject, Things
    <3>3. CASE job[h].why # "text"
      <4>1. object' = [object EXCEPT ![job[h].at][job[h].img] = 0]
        BY <2>1, <3>3 DEF DocObject
      <4>2. job[h].img \in Images
        BY <3>1, <3>3, JobType DEF ItFits, Docs
      <4> QED
        BY <1>1, <1>4, <3>1, <4>1, <4>2
    <3> QED
      BY <3>2, <3>3
  <2> QED
    BY <1>2, <1>8, <2>1 DEF DocSteps, DocRead, DocWrite, store
<1>9. CASE CopySteps(h)
  <2>1. ASSUME NEW t \in Types, CopyObject(h, t)
        PROVE  /\ ~Idle(h) /\ job[h].at # p /\ UNCHANGED sim
               /\ UNCHANGED object \/ \E v : PutObject(job[h].at, t, v)
    BY <2>1 DEF CopyObject, At, Idle, Busy, Copying
  <2>2. CASE CopyText(h)
    <3>1. ~Idle(h) /\ UNCHANGED sim /\ (UNCHANGED object \/ PutObject(job[h].at, Text, 1))
      BY <2>2 DEF CopyText, At, Idle
    <3> QED
      BY <1>1, <1>2, <1>3, <1>4, <3>1 DEF Things
  <2>3. ASSUME NEW i \in Images, CopyImage(h, i)
        PROVE  ~Idle(h) /\ UNCHANGED sim /\ (UNCHANGED object \/ PutObject(job[h].at, i, 1))
    BY <2>3 DEF CopyImage, At, Idle
  <2>4. CASE CopyBlobs(h) \/ CopyKeys(h)
    <3>1. ~Idle(h) /\ job[h].at # p /\ UNCHANGED object
      BY <2>4 DEF CopyBlobs, CopyKeys, At, Idle, Busy, Copying
    <3>2. UNCHANGED sim \/ sim' = [sim EXCEPT ![job[h].at] = [ver |-> job[h].ver, keys |-> job[h].keys]]
      BY <2>4 DEF CopyBlobs, CopyKeys
    <3> QED
      BY <1>1, <1>4, <3>1, <3>2
  <2>5. ASSUME NEW t \in Types, CopyObject(h, t)
        PROVE  (\A u \in Types : object'[p][u] = object[p][u]) /\ sim'[p] = sim[p]
    BY <1>1, <1>2, <1>3, <1>4, <2>1, <2>5 DEF PutObject
  <2>6. ASSUME NEW i \in Images, CopyImage(h, i)
        PROVE  (\A u \in Types : object'[p][u] = object[p][u]) /\ sim'[p] = sim[p]
    BY <1>1, <1>2, <1>3, <1>4, <2>3, <2>6 DEF Things, PutObject
  <2> QED
    BY <1>2, <1>9, <2>2, <2>4, <2>5, <2>6 DEF CopySteps, CopyStart, CopyFails, CopyList, store
<1> QED
  BY <1>5, <1>6, <1>7, <1>8, <1>9 DEF Moves

Of(p, ts, ver) == \A t \in ts : object[p][t] = ver

\* What every job of a save, an opening or a copy is like.
JobInv(j) ==
  /\ j.why = "save" => /\ j.op \in {"store", "write"} /\ j.ver # 0 /\ j.src = j.at
                       /\ (j.op = "write" => j.todo = {})
  /\ j.why = "open" => /\ j.op \in {"stamp", "load"} /\ (j.op = "stamp" => j.seen = {}) /\ j.src = j.at
  /\ Copying(j) => /\ (j.op = "blobs" => j.todo = {})
                   /\ (j.keys \cup j.todo # {} => j.ver # 0)
                   /\ j.src # j.at
JobsInv ==
  /\ \A h \in Handlers : JobInv(job[h])
  /\ \A p \in Projects : sim[p].keys # {} => sim[p].ver # 0

\* What the job of an undisturbed one has read and written.
WholeJob(j) ==
  /\ j.why = "save" => Of(j.at, j.keys \ j.todo, j.ver)
  /\ j.why = "open" => /\ j.op = "stamp" => Of(j.at, j.keys, j.ver)
                       /\ j.op = "load" => Of(j.at, j.todo, j.ver)
                       /\ j.seen \subseteq {j.ver}
  /\ Copying(j) => /\ j.op = "blobs" => Of(j.src, j.keys, j.ver)
                   /\ j.op = "objects" => /\ Of(j.src, j.todo, j.ver) /\ Of(j.at, j.keys, j.ver)
                                          /\ sim[j.at].keys \subseteq j.keys \cup j.todo

WholeInv == (\A h \in Handlers : Relies(job[h]) => WholeJob(job[h])) /\ OneSave

SaveJobs(h) == \E p \in Projects, keys \in SUBSET Types : CreateWith(h, p, keys) \/ Save(h, p, keys)
Uploads(h) ==
  \/ SaveJobs(h) \/ (Find(h) /\ job[h].why = "save") \/ Stamp(h) \/ CopyBlobs(h)
  \/ \E t \in Types : StoreResult(h, t) \/ Load(h, t) \/ CopyObject(h, t)
  \/ \E p \in Projects : OpenRead(h, p) \/ \E q \in Projects : CopyStart(h, p, q)

(* Every other step leaves a job that is none of these.                    *)
LEMMA OtherSteps ==
  ASSUME TypeOK, JobsInv, NEW h \in Handlers, Moves(h), ~Uploads(h)
  PROVE  \/ job'[h] = NoJob
         \/ job'[h].why \notin {"save", "open"} /\ ~Copying(job'[h])
         \/ Idle(h) /\ UNCHANGED job
<1>1. CASE SaveSteps(h)
  <2>1. ASSUME NEW p \in Projects, Edit(h, p) PROVE job'[h].why = "edit"
    <3>1. job'[h] = Begins(p, "edit", "find")
      BY <2>1, BecomesKept DEF Edit
    <3> QED
      BY <3>1 DEF Begins
  <2>2. ASSUME NEW p \in Projects, NEW s \in Projects, Reset(h, p, s) PROVE job'[h].why = "reset"
    <3> DEFINE b == Begins(p, "reset", "find")
               j == [b EXCEPT !.src = s]
    <3>1. b \in Jobs /\ b.why = "reset"
      BY StoreAssumption DEF Begins, Jobs, Versions
    <3>2. Becomes(h, j)
      BY <2>2 DEF Reset
    <3> HIDE DEF b
    <3>3. j.why = "reset"
      BY <3>1 DEF Jobs
    <3> HIDE DEF j
    <3> QED
      BY <3>2, <3>3, BecomesKept
  <2>3. CASE Find(h)
    <3>1. job[h].why # "save" /\ job[h].op = "find"
      BY <1>1, <2>3 DEF Uploads, Find, At
    <3>2. job[h].why # "open"
      BY <3>1 DEF JobsInv, JobInv
    <3>3. job'[h] = NoJob \/ (job'[h].why = job[h].why /\ job'[h].op = "write")
      BY <2>3, BecomesKept, GoesKept DEF Find, SameRequest
    <3> QED
      BY <3>1, <3>2, <3>3 DEF Copying
  <2>4. CASE Write(h)
    <3>1. job'[h] = NoJob \/ (job[h].why = "reset" /\ Goes(h, "text"))
      BY <2>4, BecomesKept DEF Write
    <3> QED
      BY <3>1, GoesKept DEF SameRequest, Copying
  <2>5. CASE ResetText(h)
    BY <2>5, BecomesKept DEF ResetText
  <2>6. \A p \in Projects : Create(h, p) => Idle(h) /\ UNCHANGED job
    BY DEF Create, Request
  <2>7. (\E p \in Projects, keys \in SUBSET Types : CreateWith(h, p, keys) \/ Save(h, p, keys)) => Uploads(h)
    BY DEF Uploads, SaveJobs
  <2>8. (\E t \in Types : StoreResult(h, t)) => Uploads(h)
    BY DEF Uploads
  <2> QED
    BY <1>1, <2>1, <2>2, <2>3, <2>4, <2>5, <2>6, <2>7, <2>8 DEF SaveSteps, Copying
<1>2. CASE OpenSteps(h)
  <2>1. CASE Opened(h)
    BY <2>1, BecomesKept DEF Opened
  <2> QED
    BY <1>2, <2>1 DEF OpenSteps, Uploads
<1>3. CASE DeleteSteps(h)
  <2>1. ASSUME NEW p \in Projects, Delete(h, p) PROVE job'[h].why = "delete"
    <3>1. job'[h] = Begins(p, "delete", "results")
      BY <2>1, DisturbsKept DEF Delete
    <3> QED
      BY <3>1 DEF Begins
  <2>2. CASE WipeResults(h) \/ WipeDocs(h)
    <3>1. job[h].why = "delete" /\ (Goes(h, "docs") \/ Goes(h, "item"))
      BY <2>2 DEF WipeResults, WipeDocs, At
    <3> QED
      BY <3>1, GoesKept DEF SameRequest, Copying
  <2>3. CASE DeleteItem(h)
    BY <2>3, BecomesKept DEF DeleteItem
  <2> QED
    BY <1>3, <2>1, <2>2, <2>3 DEF DeleteSteps, Copying
<1>4. CASE DocSteps(h)
  <2>1. ASSUME NEW p \in Projects, NEW why \in Docs, NEW i \in Images \cup {Text}, DocRead(h, p, why, i)
        PROVE  job'[h].why = why
    <3> DEFINE b == Begins(p, why, IF why = "upload" THEN "find" ELSE "s3")
               j == [b EXCEPT !.seen = listed[p], !.img = i]
    <3>1. b \in Jobs /\ b.why = why
      BY StoreAssumption DEF Begins, Jobs, Versions, Docs
    <3>2. job'[h] = j
      BY <2>1 DEF DocRead
    <3> HIDE DEF b
    <3>3. j.why = why
      BY <3>1 DEF Jobs
    <3> QED
      BY <3>2, <3>3
  <2>2. CASE DocObject(h)
    <3>1. job[h].why \in Docs /\ Goes(h, "find")
      BY <2>2 DEF DocObject
    <3> QED
      BY <3>1, GoesKept DEF SameRequest, Copying, Docs
  <2>3. CASE DocWrite(h)
    BY <2>3, BecomesKept DEF DocWrite
  <2> QED
    BY <1>4, <2>1, <2>2, <2>3 DEF DocSteps, Docs, Copying
<1>5. CASE CopySteps(h)
  <2>1. CASE CopyKeys(h) \/ CopyFails(h)
    <3>1. job[h].why = "copy" /\ Goes(h, "text")
      BY <2>1 DEF CopyKeys, CopyFails, At
    <3> QED
      BY <3>1, GoesKept DEF SameRequest, Copying
  <2>2. CASE CopyText(h)
    <3> DEFINE j == [job[h] EXCEPT !.op = "images", !.todo = job[h].seen, !.seen = {}]
    <3>1. job[h].why = "copy" /\ (Becomes(h, j) \/ Becomes(h, NoJob)) /\ job[h] \in Jobs
      BY <2>2 DEF CopyText, At, TypeOK
    <3>2. j.why = job[h].why /\ j.op = "images"
      BY <3>1 DEF Jobs
    <3> HIDE DEF j
    <3> QED
      BY <3>1, <3>2, BecomesKept DEF Copying
  <2>3. ASSUME NEW i \in Images, CopyImage(h, i) PROVE job'[h].why = "copy" /\ job'[h].op = "images"
    <3> DEFINE j == [job[h] EXCEPT !.todo = @ \ {i}]
               k == [job[h] EXCEPT !.todo = @ \ {i}, !.seen = @ \cup {i}]
    <3>1. job[h].why = "copy" /\ job[h].op = "images" /\ job[h] \in Jobs /\ (Becomes(h, j) \/ Becomes(h, k))
      BY <2>3 DEF CopyImage, At, TypeOK
    <3>2. j.why = job[h].why /\ j.op = job[h].op /\ k.why = job[h].why /\ k.op = job[h].op
      BY <3>1 DEF Jobs
    <3> HIDE DEF j, k
    <3> QED
      BY <3>1, <3>2, BecomesKept
  <2>4. CASE CopyList(h)
    BY <2>4, BecomesKept DEF CopyList
  <2> QED
    BY <1>5, <2>1, <2>2, <2>3, <2>4 DEF CopySteps, Uploads, Copying
<1>6. CASE Dies(h)
  BY <1>6, BecomesKept DEF Dies
<1> QED
  BY <1>1, <1>2, <1>3, <1>4, <1>5, <1>6 DEF Moves

(* What the steps of a save, an opening and a copy make of their job.      *)
Fits(h) == JobInv(job'[h]) /\ (Relies(job'[h]) => WholeJob(job[h])')

LEMMA SaveFits ==
  ASSUME TypeOK, JobsInv, NEW h \in Handlers, Relies(job[h]) => WholeJob(job[h])
  PROVE  /\ SaveJobs(h) => Fits(h) /\ job'[h].ver # 0
         /\ \A t \in Types : StoreResult(h, t) => Fits(h)
         /\ Find(h) /\ job[h].why = "save" => job'[h] = NoJob \/ Fits(h)
<1>1. ASSUME SaveJobs(h) PROVE Fits(h) /\ job'[h].ver # 0
  <2>1. PICK p \in Projects, keys \in SUBSET Types : CreateWith(h, p, keys) \/ Save(h, p, keys)
    BY <1>1 DEF SaveJobs
  <2>2. Request(h) /\ Disturbs(h, p, SaveJob(p, keys)) /\ begun \in Nat
    BY <2>1, StoreAssumption DEF CreateWith, Save, TypeOK, Versions
  <2>3. job'[h] = SaveJob(p, keys)
    BY <2>2, DisturbsKept
  <2>4. /\ job'[h].op = "store" /\ job'[h].why = "save" /\ job'[h].src = job'[h].at
        /\ job'[h].ver = begun + 1 /\ job'[h].keys = job'[h].todo
    BY <2>2, <2>3, SaveJobType
  <2>5. job'[h].ver # 0
    BY <2>2, <2>4
  <2> QED
    BY <2>4, <2>5 DEF Fits, JobInv, WholeJob, Copying, Of
<1>2. ASSUME NEW t \in Types, StoreResult(h, t) PROVE Fits(h)
  <2> DEFINE j == job[h]
             k == [job[h] EXCEPT !.todo = @ \ {t}]
  <2>1. At(h, "save", "store") /\ t \in j.todo /\ Becomes(h, k) /\ PutObject(j.at, t, j.ver) /\ j \in Jobs
    BY <1>2 DEF StoreResult, TypeOK
  <2>2. /\ SameRequest(j, k) /\ k.op = j.op /\ k.keys = j.keys /\ k.todo = j.todo \ {t}
        /\ k.clean = j.clean
    BY <2>1, Ticked
  <2>3. job'[h] = k
    BY <2>1, BecomesKept
  <2>4. j.at \in Projects /\ JobInv(j)
    BY <2>1, JobType DEF At, Idle, JobsInv
  <2>5. JobInv(k)
    BY <2>1, <2>2, <2>4 DEF At, JobInv, SameRequest, Copying
  <2>6. ASSUME Relies(k) PROVE \A u \in k.keys \ k.todo : object'[k.at][u] = k.ver
    <3>1. \A u \in j.keys \ j.todo : object[j.at][u] = j.ver
      BY <2>1, <2>2, <2>6 DEF Relies, At, WholeJob, Of, SameRequest
    <3>2. t \in Things /\ j.keys \subseteq Types /\ Types \subseteq Things
      BY <2>1, JobType
    <3>3. object'[j.at][t] = j.ver /\ \A u \in Things \ {t} : object'[j.at][u] = object[j.at][u]
      BY <2>1, <2>4, <3>2 DEF PutObject, TypeOK
    <3> QED
      BY <2>2, <3>1, <3>2, <3>3 DEF SameRequest
  <2> HIDE DEF k
  <2> QED
    BY <2>1, <2>2, <2>3, <2>5, <2>6 DEF Fits, WholeJob, Of, At, SameRequest, Copying
<1>3. ASSUME Find(h), job[h].why = "save" PROVE job'[h] = NoJob \/ Fits(h)
  <2>1. JobInv(job[h]) /\ job[h].op = "store" /\ job[h].todo = {}
    BY <1>3 DEF Find, JobsInv, JobInv, At
  <2>2. CASE Goes(h, "write")
    <3>1. /\ SameRequest(job[h], job'[h]) /\ job'[h].op = "write" /\ job'[h].keys = job[h].keys
          /\ job'[h].todo = job[h].todo /\ job'[h].clean = job[h].clean
      BY <2>2, GoesKept
    <3>2. UNCHANGED object
      BY <1>3 DEF Find, store
    <3>3. JobInv(job'[h])
      BY <1>3, <2>1, <3>1 DEF JobInv, SameRequest, Copying
    <3>4. ASSUME Relies(job'[h]) PROVE WholeJob(job[h])'
      <4>1. WholeJob(job[h])
        BY <1>3, <2>1, <3>1, <3>4 DEF Relies
      <4> QED
        BY <1>3, <3>1, <3>2, <4>1 DEF WholeJob, Of, SameRequest, Copying
    <3> QED
      BY <3>3, <3>4 DEF Fits
  <2> QED
    BY <1>3, <2>2, BecomesKept DEF Find
<1> QED
  BY <1>1, <1>2, <1>3

LEMMA OpenFits ==
  ASSUME TypeOK, JobsInv, OneSave, NEW h \in Handlers, Relies(job[h]) => WholeJob(job[h])
  PROVE  /\ \A p \in Projects : OpenRead(h, p) => Fits(h)
         /\ Stamp(h) => Fits(h)
         /\ \A t \in Types : Load(h, t) => Fits(h)
<1>1. ASSUME NEW p \in Projects, OpenRead(h, p) PROVE Fits(h)
  <2> DEFINE j == [Begins(p, "open", "stamp") EXCEPT
                     !.ver = sim[p].ver, !.keys = sim[p].keys, !.clean = Settled(p)]
  <2>1. item[p] = "here" /\ Becomes(h, j) /\ UNCHANGED object
    BY <1>1 DEF OpenRead, store
  <2>2. /\ j.op = "stamp" /\ j.why = "open" /\ j.at = p /\ j.src = p /\ j.ver = sim[p].ver
        /\ j.keys = sim[p].keys /\ j.seen = {} /\ (j.clean => Settled(p))
    BY OpenJobType
  <2> HIDE DEF j
  <2>3. job'[h] = j
    BY <2>1, BecomesKept
  <2>4. ASSUME Relies(j) PROVE \A t \in j.keys : object'[j.at][t] = j.ver
    BY <2>1, <2>2, <2>4 DEF Relies, Settled, OneSave
  <2> QED
    BY <2>2, <2>3, <2>4 DEF Fits, JobInv, WholeJob, Of, Copying
<1>2. ASSUME Stamp(h) PROVE Fits(h)
  <2> DEFINE j == job[h]
             k == [job[h] EXCEPT !.op = "load", !.todo = job[h].keys]
  <2>1. At(h, "open", "stamp") /\ Becomes(h, k) /\ UNCHANGED object /\ j \in Jobs /\ JobInv(j)
    BY <1>2 DEF Stamp, TypeOK, JobsInv, At
  <2>2. SameRequest(j, k) /\ k.op = "load" /\ k.todo = j.keys /\ k.seen = j.seen /\ k.clean = j.clean
    BY <2>1, ToLoad
  <2> HIDE DEF k
  <2>3. job'[h] = k
    BY <2>1, BecomesKept
  <2>4. ASSUME Relies(k) PROVE \A t \in k.todo : object'[k.at][t] = k.ver
    BY <2>1, <2>2, <2>4 DEF Relies, At, WholeJob, Of, SameRequest
  <2>5. k.seen = {}
    BY <2>1, <2>2 DEF JobInv, At
  <2>6. JobInv(k)
    BY <2>1, <2>2 DEF JobInv, At, SameRequest, Copying
  <2> QED
    BY <2>1, <2>2, <2>3, <2>4, <2>5, <2>6 DEF Fits, WholeJob, Of, At, SameRequest, Copying
<1>3. ASSUME NEW t \in Types, Load(h, t) PROVE Fits(h)
  <2> DEFINE j == job[h]
             k == [job[h] EXCEPT !.todo = @ \ {t}, !.seen = @ \cup {object[job[h].at][t]}]
  <2>1. /\ At(h, "open", "load") /\ t \in j.todo /\ Becomes(h, k) /\ UNCHANGED object
        /\ j \in Jobs /\ JobInv(j)
    BY <1>3 DEF Load, TypeOK, JobsInv, At, store
  <2>2. /\ SameRequest(j, k) /\ k.op = j.op /\ k.todo = j.todo \ {t}
        /\ k.seen = j.seen \cup {object[j.at][t]} /\ k.clean = j.clean
    BY <2>1 DEF Jobs, SameRequest
  <2> HIDE DEF k
  <2>3. job'[h] = k
    BY <2>1, BecomesKept
  <2>4. JobInv(k)
    BY <2>1, <2>2 DEF JobInv, At, SameRequest, Copying
  <2>5. ASSUME Relies(k) PROVE (\A u \in k.todo : object'[k.at][u] = k.ver) /\ k.seen \subseteq {k.ver}
    <3>1. (\A u \in j.todo : object[j.at][u] = j.ver) /\ j.seen \subseteq {j.ver}
      BY <2>1, <2>2, <2>5 DEF Relies, At, WholeJob, Of, SameRequest
    <3> QED
      BY <2>1, <2>2, <3>1 DEF SameRequest
  <2> QED
    BY <2>1, <2>2, <2>3, <2>4, <2>5 DEF Fits, WholeJob, Of, At, SameRequest, Copying
<1> QED
  BY <1>1, <1>2, <1>3

LEMMA CopyFits ==
  ASSUME TypeOK, JobsInv, OneSave, NEW h \in Handlers, Relies(job[h]) => WholeJob(job[h])
  PROVE  /\ \A p \in Projects : \A q \in Projects : CopyStart(h, p, q) => Fits(h)
         /\ CopyBlobs(h) => Fits(h)
         /\ \A t \in Types : CopyObject(h, t) => Fits(h)
<1>1. ASSUME NEW p \in Projects, NEW q \in Projects, CopyStart(h, p, q) PROVE Fits(h)
  <2> DEFINE j == CopyJob(p, q)
  <2>1. item[p] = "here" /\ p # q /\ Becomes(h, j) /\ UNCHANGED object
    BY <1>1 DEF CopyStart, CopyJob
  <2>2. /\ j.op = "blobs" /\ j.why = "copy" /\ j.at = q /\ j.src = p /\ j.ver = sim[p].ver
        /\ j.keys = sim[p].keys /\ j.todo = {} /\ (j.clean => Settled(p))
    BY CopyJobType
  <2> HIDE DEF j
  <2>3. job'[h] = j
    BY <2>1, BecomesKept
  <2>4. JobInv(j)
    BY <2>1, <2>2 DEF JobInv, JobsInv, Copying
  <2>5. ASSUME Relies(j) PROVE \A t \in j.keys : object'[j.src][t] = j.ver
    BY <2>1, <2>2, <2>5 DEF Relies, Settled, OneSave
  <2> QED
    BY <2>2, <2>3, <2>4, <2>5 DEF Fits, WholeJob, Of, Copying
<1>2. ASSUME CopyBlobs(h) PROVE Fits(h)
  <2> DEFINE j == job[h]
             k == [job[h] EXCEPT !.op = "objects", !.todo = @ \cup job[h].keys, !.keys = {}]
  <2>1. /\ At(h, "copy", "blobs") /\ Becomes(h, k) /\ UNCHANGED object /\ j \in Jobs /\ JobInv(j)
        /\ sim' = [sim EXCEPT ![j.at] = [ver |-> j.ver, keys |-> j.keys]] /\ j.at \in Projects
    BY <1>2, JobType DEF CopyBlobs, TypeOK, JobsInv, At, Idle
  <2>2. /\ SameRequest(j, k) /\ k.op = "objects" /\ k.keys = {} /\ k.todo = j.todo \cup j.keys
        /\ k.clean = j.clean
    BY <2>1 DEF Jobs, SameRequest
  <2> HIDE DEF k
  <2>3. job'[h] = k
    BY <2>1, BecomesKept
  <2>4. JobInv(k) /\ j.todo = {}
    BY <2>1, <2>2 DEF JobInv, At, SameRequest, Copying
  <2>5. ASSUME Relies(k) PROVE \A t \in k.todo : object'[k.src][t] = k.ver
    BY <2>1, <2>2, <2>4, <2>5 DEF Relies, At, WholeJob, Of, SameRequest, Copying
  <2>6. sim'[k.at].keys \subseteq k.keys \cup k.todo
    <3>1. sim'[j.at] = [ver |-> j.ver, keys |-> j.keys]
      BY <2>1 DEF TypeOK
    <3> QED
      BY <2>2, <3>1 DEF SameRequest
  <2> QED
    BY <2>1, <2>2, <2>3, <2>4, <2>5, <2>6 DEF Fits, WholeJob, Of, At, SameRequest, Copying
<1>3. ASSUME NEW t \in Types, CopyObject(h, t) PROVE Fits(h)
  <2> DEFINE j == job[h]
  <2>1. /\ At(h, "copy", "objects") /\ t \in j.todo /\ UNCHANGED sim /\ j \in Jobs /\ JobInv(j)
        /\ j.at \in Projects /\ j.src \in Projects /\ j.keys \subseteq Types
        /\ Types \subseteq Things /\ t \in Things /\ j.todo \subseteq Types
    <3>1. At(h, "copy", "objects") /\ t \in j.todo /\ UNCHANGED sim
      BY <1>3 DEF CopyObject
    <3> QED
      BY <3>1, JobType DEF TypeOK, JobsInv, At, Idle, ItFits
  <2>2. j.src # j.at /\ j.ver # 0
    BY <2>1 DEF JobInv, Copying, At
  <2>3. ASSUME Relies(j)
        PROVE  /\ \A u \in j.todo : object[j.src][u] = j.ver
               /\ \A u \in j.keys : object[j.at][u] = j.ver
               /\ sim[j.at].keys \subseteq j.keys \cup j.todo
    BY <2>1, <2>3 DEF WholeJob, Of, Copying, At
  <2>4. CASE object[j.src][t] = 0
    <3> DEFINE k == [job[h] EXCEPT !.todo = @ \ {t}]
    <3>1. Becomes(h, k)
      BY <1>3, <2>4 DEF CopyObject
    <3>2. SameRequest(j, k) /\ k.op = j.op /\ k.keys = j.keys /\ k.todo = j.todo \ {t} /\ k.clean = j.clean
      BY <2>1, Ticked
    <3> HIDE DEF k
    <3>3. job'[h] = k
      BY <3>1, BecomesKept
    <3>4. JobInv(k)
      BY <2>1, <2>2, <3>2 DEF JobInv, At, SameRequest, Copying
    <3>5. ~Relies(k)
      <4>1. Relies(k) => Relies(j)
        BY <2>1, <3>2 DEF Relies, At, SameRequest, Copying
      <4> QED
        BY <2>1, <2>2, <2>3, <2>4, <4>1
    <3> QED
      BY <3>3, <3>4, <3>5 DEF Fits
  <2>5. CASE object[j.src][t] # 0
    <3> DEFINE k == [job[h] EXCEPT !.todo = @ \ {t}, !.keys = @ \cup {t}]
    <3>1. Becomes(h, k) /\ PutObject(j.at, t, object[j.src][t])
      BY <1>3, <2>5 DEF CopyObject
    <3>2. /\ SameRequest(j, k) /\ k.op = j.op /\ k.keys = j.keys \cup {t} /\ k.todo = j.todo \ {t}
          /\ k.clean = j.clean
      BY <2>1 DEF Jobs, SameRequest
    <3> HIDE DEF k
    <3>3. job'[h] = k
      BY <3>1, BecomesKept
    <3>4. JobInv(k)
      BY <2>1, <2>2, <3>2 DEF JobInv, At, SameRequest, Copying
    <3>5. /\ \A u \in Things : object'[j.src][u] = object[j.src][u]
          /\ object'[j.at][t] = object[j.src][t]
          /\ \A u \in Things \ {t} : object'[j.at][u] = object[j.at][u]
      BY <2>1, <2>2, <3>1 DEF PutObject, TypeOK
    <3>6. ASSUME Relies(k)
          PROVE  /\ \A u \in k.todo : object'[k.src][u] = k.ver
                 /\ \A u \in k.keys : object'[k.at][u] = k.ver
                 /\ sim'[k.at].keys \subseteq k.keys \cup k.todo
      <4>1. Relies(j)
        BY <2>1, <3>2, <3>6 DEF Relies, At, SameRequest, Copying
      <4>2. object[j.src][t] = j.ver
        BY <2>1, <2>3, <4>1
      <4>3. \A u \in k.todo : object'[k.src][u] = k.ver
        BY <2>1, <2>3, <3>2, <3>5, <4>1 DEF SameRequest
      <4>4. \A u \in k.keys : object'[k.at][u] = k.ver
        BY <2>1, <2>3, <3>2, <3>5, <4>1, <4>2 DEF SameRequest
      <4>5. sim'[k.at].keys \subseteq k.keys \cup k.todo
        BY <2>1, <2>3, <3>2, <4>1 DEF SameRequest
      <4> QED
        BY <4>3, <4>4, <4>5
    <3> QED
      BY <2>1, <3>2, <3>3, <3>4, <3>6 DEF Fits, WholeJob, Of, At, SameRequest, Copying
  <2> QED
    BY <2>4, <2>5
<1> QED
  BY <1>1, <1>2, <1>3

LEMMA OwnFits ==
  ASSUME TypeOK, JobsInv, OneSave, NEW h \in Handlers, Moves(h), Relies(job[h]) => WholeJob(job[h])
  PROVE  /\ JobInv(job'[h])
         /\ Relies(job'[h]) => WholeJob(job[h])'
<1>1. CASE Uploads(h)
  <2>1. job'[h] = NoJob \/ Fits(h)
    BY <1>1, SaveFits, OpenFits, CopyFits DEF Uploads
  <2>2. JobInv(NoJob) /\ ~Relies(NoJob)
    BY DEF NoJob, Begins, Relies, JobInv, Copying
  <2> QED
    BY <2>1, <2>2 DEF Fits
<1>2. CASE ~Uploads(h)
  <2>1. CASE Idle(h) /\ UNCHANGED job
    <3>1. job'[h] = job[h] /\ job[h].op = "idle"
      BY <2>1 DEF Idle
    <3> QED
      BY <3>1 DEF Relies, JobsInv
  <2>2. CASE job'[h] = NoJob
    BY <2>2 DEF NoJob, Begins, Relies, JobInv, Copying
  <2>3. CASE job'[h].why \notin {"save", "open"} /\ ~Copying(job'[h])
    BY <2>3 DEF Relies, JobInv
  <2> QED
    BY <1>2, <2>1, <2>2, <2>3, OtherSteps
<1> QED
  BY <1>1, <1>2

(* Versions are numbered from 1.                                           *)
LEMMA SimMoves ==
  ASSUME TypeOK, JobsInv, NEW h \in Handlers, Moves(h), NEW p \in Projects
  PROVE  \/ sim'[p] = sim[p] \/ sim'[p].keys = {}
         \/ /\ sim'[p] = [ver |-> job[h].ver, keys |-> job[h].keys]
            /\ (Write(h) /\ job[h].why = "save") \/ CopyBlobs(h) \/ CopyKeys(h)
            /\ p = job[h].at
<1>1. sim \in [Projects -> [ver : Versions, keys : SUBSET Types]]
  BY DEF TypeOK
<1>2. CASE Write(h) \/ CopyBlobs(h) \/ CopyKeys(h)
  BY <1>1, <1>2 DEF Write, CopyBlobs, CopyKeys, NoResults
<1>3. CASE ~(Write(h) \/ CopyBlobs(h) \/ CopyKeys(h))
  <2>1. UNCHANGED sim
    BY <1>3 DEF Moves, SaveSteps, Create, CreateWith, Save, Edit, Reset, StoreResult, Find, ResetText,
       OpenSteps, OpenRead, Stamp, Load, Opened, DeleteSteps, Delete, WipeResults, WipeDocs,
       DeleteItem, DocSteps, DocRead, DocObject, DocWrite, CopySteps, CopyStart, CopyObject,
       CopyFails, CopyText, CopyImage, CopyList, Dies, store
  <2> QED
    BY <2>1
<1> QED
  BY <1>2, <1>3

LEMMA JobsKept ==
  ASSUME TypeOK, DeleteInv, JobsInv, WholeInv, [Next]_vars
  PROVE  JobsInv'
<1>1. ASSUME NEW h \in Handlers, Moves(h) PROVE JobsInv'
  <2>1. ASSUME NEW g \in Handlers PROVE JobInv(job'[g])
    <3>1. CASE g = h
      BY <1>1, <3>1, OwnFits DEF WholeInv
    <3>2. CASE g # h
      <4>1. Kept(g)
        BY <1>1, <3>2, JobsMove
      <4>2. JobInv(job[g])
        BY DEF JobsInv
      <4> QED
        BY <4>1, <4>2 DEF Kept, SameRequest, JobInv, Copying
    <3> QED
      BY <3>1, <3>2
  <2>2. ASSUME NEW p \in Projects, sim'[p].keys # {} PROVE sim'[p].ver # 0
    <3>1. CASE sim'[p] = sim[p]
      BY <2>2, <3>1 DEF JobsInv
    <3>2. CASE /\ sim'[p] = [ver |-> job[h].ver, keys |-> job[h].keys]
               /\ (Write(h) /\ job[h].why = "save") \/ CopyBlobs(h) \/ CopyKeys(h)
      <4>1. JobInv(job[h])
        BY <3>2 DEF JobsInv, Write, CopyBlobs, CopyKeys, At
      <4> QED
        BY <2>2, <3>2, <4>1 DEF JobInv, CopyBlobs, CopyKeys, At, Copying
    <3> QED
      BY <1>1, <2>2, <3>1, <3>2, SimMoves
  <2> QED
    BY <2>1, <2>2 DEF JobsInv
<1>2. ASSUME UNCHANGED <<job, sim>> PROVE JobsInv'
  BY <1>2 DEF JobsInv
<1> QED
  BY <1>1, <1>2 DEF Next, Moves, PutImage, vars, store

(* What an undisturbed job has read and written stays as it is.            *)
LEMMA OthersFit ==
  ASSUME TypeOK, DeleteInv, BusyInv, WholeInv, NEW h \in Handlers, Moves(h),
         NEW g \in Handlers \ {h}, Relies(job'[g])
  PROVE  WholeJob(job[g])'
<1> DEFINE j == job[g]
<1>1. Kept(g)
  BY JobsMove
<1>2. Relies(j)
  BY <1>1 DEF Kept, SameRequest, Relies, Copying
<1>3. /\ j.at \in Projects /\ j.src \in Projects /\ j.keys \subseteq Types
      /\ (j.op \in {"store", "load", "objects"} => j.todo \subseteq Types)
  BY <1>2, JobType DEF Relies, Idle, ItFits
<1>4. ~Busy(job[h], j.at) /\ ~Busy(job[h], j.src)
  BY <1>2 DEF BusyInv
<1>5. /\ \A t \in Types : object'[j.at][t] = object[j.at][t] /\ object'[j.src][t] = object[j.src][t]
      /\ sim'[j.at] = sim[j.at] \/ sim'[j.at].keys = {}
  BY <1>3, <1>4, ResultsMove
<1>6. WholeJob(j)
  BY <1>2 DEF WholeInv
<1>7. \A ts \in SUBSET Types : Of(j.at, ts, j.ver) => \A t \in ts : object'[j.at][t] = j.ver
  BY <1>5 DEF Of
<1>8. \A ts \in SUBSET Types : Of(j.src, ts, j.ver) => \A t \in ts : object'[j.src][t] = j.ver
  BY <1>5 DEF Of
<1> DEFINE k == job'[g]
<1>9. /\ k.why = j.why /\ k.at = j.at /\ k.src = j.src /\ k.ver = j.ver /\ k.op = j.op
      /\ k.keys = j.keys /\ k.todo = j.todo /\ k.seen = j.seen
  BY <1>1 DEF Kept, SameRequest
<1>10. CASE j.why = "save"
  <2>1. Of(j.at, j.keys \ j.todo, j.ver) /\ j.keys \ j.todo \in SUBSET Types
    BY <1>3, <1>6, <1>10 DEF WholeJob
  <2>2. \A t \in j.keys \ j.todo : object'[j.at][t] = j.ver
    BY <1>7, <2>1
  <2> QED
    BY <1>9, <1>10, <2>2 DEF WholeJob, Of, Copying
<1>11. CASE j.why = "open"
  BY <1>3, <1>6, <1>7, <1>9, <1>11 DEF WholeJob, Of, Copying
<1>12. CASE Copying(j)
  BY <1>3, <1>5, <1>6, <1>7, <1>8, <1>9, <1>12 DEF WholeJob, Of, Copying
<1> QED
  BY <1>2, <1>10, <1>11, <1>12 DEF Relies

(* A save or a copy that nobody disturbed leaves the project whole.        *)
LEMMA Whole ==
  ASSUME TypeOK, UsedInv, JobsInv, BusyInv, WholeInv, NEW h \in Handlers, Moves(h)
  PROVE  OneSave'
<1> SUFFICES ASSUME NEW p \in Projects, item'[p] = "here", p \notin torn', NEW t \in sim'[p].keys
             PROVE  object'[p][t] = sim'[p].ver
  BY DEF OneSave
<1>1. item[p] \in {"here", "free"} /\ sim[p].keys \subseteq Types
  BY ItemsMove DEF TypeOK
<1>2. CASE p \notin torn
  <2>1. ~Busy(job[h], p)
    BY <1>2 DEF BusyInv
  <2>2. sim'[p] = sim[p] /\ \A u \in Types : object'[p][u] = object[p][u]
    BY <2>1, ResultsMove
  <2>3. item[p] = "here"
    BY <1>1, <2>2 DEF UsedInv, NoResults
  <2> QED
    BY <1>1, <1>2, <2>2, <2>3 DEF WholeInv, OneSave
<1>3. CASE p \in torn
  <2>1. /\ p = job[h].at /\ Relies(job[h]) /\ ((Write(h) /\ job[h].why = "save") \/ CopyKeys(h))
    BY <1>3, TornMoves
  <2>2. WholeJob(job[h]) /\ JobInv(job[h]) /\ UNCHANGED object
    BY <2>1 DEF WholeInv, JobsInv, Relies, Write, CopyKeys
  <2>3. CASE Write(h) /\ job[h].why = "save"
    <3>1. sim'[p] = [ver |-> job[h].ver, keys |-> job[h].keys]
      BY <2>1, <2>3 DEF Write, TypeOK
    <3>2. job[h].todo = {}
      BY <2>2, <2>3 DEF JobInv, Write
    <3> QED
      BY <2>1, <2>2, <2>3, <3>1, <3>2 DEF WholeJob, Of
  <2>4. CASE CopyKeys(h)
    <3>1. Copying(job[h]) /\ job[h].op = "objects" /\ job[h].todo = {}
      BY <2>4 DEF CopyKeys, At, Copying
    <3>2. Of(p, job[h].keys, job[h].ver) /\ sim[p].keys \subseteq job[h].keys
      BY <2>1, <2>2, <3>1 DEF WholeJob
    <3>3. job[h].keys # {}
      BY <2>4, <3>2 DEF CopyKeys
    <3>4. sim'[p] = [ver |-> job[h].ver, keys |-> job[h].keys]
      BY <2>1, <2>4, <3>3 DEF CopyKeys, TypeOK
    <3> QED
      BY <2>2, <3>2, <3>4 DEF Of
  <2> QED
    BY <2>1, <2>3, <2>4
<1> QED
  BY <1>2, <1>3

LEMMA WholeKept ==
  ASSUME TypeOK, DeleteInv, UsedInv, JobsInv, BusyInv, WholeInv, [Next]_vars
  PROVE  WholeInv'
<1>1. ASSUME NEW h \in Handlers, Moves(h) PROVE WholeInv'
  <2>1. \A g \in Handlers \ {h} : Relies(job'[g]) => WholeJob(job[g])'
    BY <1>1, OthersFit
  <2>2. Relies(job'[h]) => WholeJob(job[h])'
    BY <1>1, OwnFits DEF WholeInv
  <2>3. OneSave'
    BY <1>1, Whole
  <2> QED
    BY <2>1, <2>2, <2>3 DEF WholeInv
<1>2. ASSUME NEW p \in Projects, NEW i \in Images, PutImage(p, i) PROVE WholeInv'
  <2>1. UNCHANGED <<item, sim, job, torn>> /\ object' = [object EXCEPT ![p][i] = 1]
    BY <1>2 DEF PutImage, PutObject
  <2>2. \A q \in Projects : \A t \in Types : object'[q][t] = object[q][t]
    <3>1. \A t \in Types : t \in Things /\ t # i
      BY StoreAssumption DEF Things
    <3> QED
      BY <2>1, <3>1 DEF TypeOK
  <2>3. ASSUME NEW g \in Handlers, Relies(job'[g]) PROVE WholeJob(job[g])'
    <3>1. job'[g] = job[g] /\ Relies(job[g])
      BY <2>1, <2>3
    <3>2. WholeJob(job[g])
      BY <3>1 DEF WholeInv
    <3>3. /\ job[g].at \in Projects /\ job[g].src \in Projects /\ job[g].keys \subseteq Types
          /\ (job[g].op \in {"store", "load", "objects"} => job[g].todo \subseteq Types)
      BY <3>1, JobType DEF Relies, Idle, ItFits
    <3> QED
      BY <2>1, <2>2, <3>1, <3>2, <3>3 DEF WholeJob, Of, Copying
  <2>4. OneSave'
    <3>1. \A q \in Projects : sim[q].keys \subseteq Types
      BY DEF TypeOK
    <3> QED
      BY <2>1, <2>2, <3>1 DEF WholeInv, OneSave
  <2> QED
    BY <2>3, <2>4 DEF WholeInv
<1>3. ASSUME UNCHANGED vars PROVE WholeInv'
  BY <1>3 DEF vars, store, history, WholeInv, WholeJob, OneSave, Of
<1> QED
  BY <1>1, <1>2, <1>3 DEF Next, Moves

ResultsInv == TypeOK /\ DeleteInv /\ UsedInv /\ JobsInv /\ BusyInv /\ WholeInv

LEMMA ResultsInductive ==
  /\ Init => ResultsInv
  /\ ResultsInv /\ [Next]_vars => ResultsInv'
<1>1. ASSUME Init PROVE ResultsInv
  <2>1. \A h \in Handlers : job[h].op = "idle" /\ job[h].why = "none"
    BY <1>1 DEF Init, NoJob, Begins
  <2>2. \A p \in Projects : item[p] = "free" /\ sim[p] = NoResults
    BY <1>1 DEF Init
  <2> QED
    BY <1>1, <2>1, <2>2, InitTyped
       DEF ResultsInv, DeleteInv, UsedInv, Idle, JobsInv, JobInv, Copying, BusyInv, Busy, Relies, WholeInv,
           OneSave, NoResults
<1>2. ASSUME ResultsInv, [Next]_vars PROVE ResultsInv'
  BY <1>2, NextTyped, UsedKept, JobsKept, BusyKept, WholeKept DEF ResultsInv
<1> QED
  BY <1>1, <1>2

(* The objects that a project's item names are there and of the save that  *)
(* wrote the item, unless a save, a copy or a deletion overlapped another  *)
(* or was cut short (create_project, update_project, duplicate_project).   *)
THEOREM SavesWhole == Spec => []OneSave
<1>1. ResultsInv => OneSave
  BY DEF ResultsInv, WholeInv
<1> QED
  BY <1>1, ResultsInductive, PTL DEF Spec

(* A project opened while nobody saves or deletes it is of one save        *)
(* (get_project, hydrate_results), unless an earlier save, copy or         *)
(* deletion of it overlapped another or was cut short, and no undisturbed  *)
(* save has followed.                                                      *)
THEOREM OpensWhole == Spec => []OpenedWhole
<1>1. ResultsInv => OpenedWhole
  <2> SUFFICES ASSUME ResultsInv, NEW h \in Handlers, job[h].why = "open", job[h].clean
               PROVE  job[h].seen \subseteq {job[h].ver}
    BY DEF OpenedWhole
  <2>1. job[h].op \in {"stamp", "load"} /\ JobInv(job[h])
    BY DEF ResultsInv, JobsInv, JobInv
  <2> QED
    BY <2>1 DEF ResultsInv, WholeInv, Relies, WholeJob
<1> QED
  BY <1>1, ResultsInductive, PTL DEF Spec
--------------------------------------------------------------------------------
(* The list of images.  Who writes it from what it read is alone with it,  *)
(* unless the project is crossed; a copy that nothing disturbs finds the   *)
(* list and the images of its new project empty.                           *)

Lister(j) == j.why \in Docs \cup {"copy"}
Has(p, i) == object[p][i] # 0
Awaited(p, i) == <<p, i>> \in urls
Trusts(j) == (j.clean /\ j.why = "copy") \/ (j.at \notin crossed /\ j.why \in Docs)

DocFits(j) ==
  /\ j.seen = listed[j.at]
  /\ j.why = "unlist" =>
       ~Awaited(j.at, j.img) /\ (j.op \in {"find", "write"} => ~Has(j.at, j.img))
EmptyFits(j) ==
  /\ listed[j.at] = {}
  /\ \A i \in Images : ~Awaited(j.at, i) /\ (Has(j.at, i) => j.op = "images" /\ i \in j.seen)
ListJob(j) ==
  /\ Lister(j) => j.op # "idle"
  /\ j.why = "copy" => j.at \in crossed
  /\ j.why = "copy" /\ j.clean => EmptyFits(j)
  /\ j.why \in Docs /\ j.at \notin crossed => DocFits(j)

Lone(h) ==
  Trusts(job[h]) => \A g \in Handlers \ {h} : Lister(job[g]) => job[g].at # job[h].at
AllListed(p) == \A i \in Images : Has(p, i) \/ Awaited(p, i) => i \in listed[p]

ListInv ==
  /\ \A h \in Handlers : ListJob(job[h]) /\ Lone(h)
  /\ \A p \in Projects \ crossed : AllListed(p)
  /\ \A p \in Projects : item[p] = "free" =>
       listed[p] = {} /\ \A i \in Images : ~Has(p, i) /\ ~Awaited(p, i)

\* A lister goes on with the same list; what is unlisted is gone from S3.
Follows(g) ==
  Lister(job'[g]) =>
    /\ SameRequest(job[g], job'[g]) /\ job[g].op # "idle" /\ job'[g].op # "idle"
    /\ job'[g].seen = job[g].seen /\ job'[g].img = job[g].img /\ (job'[g].clean => job[g].clean)
    /\ job'[g].why = "unlist" /\ job'[g].op \in {"find", "write"} =>
         job[g].op \in {"find", "write"} \/ ~Has(job[g].at, job[g].img)'
    /\ job'[g].why = "copy" /\ job[g].op = "images" => job'[g].op = "images"

LEMMA UncleanImage ==
  ASSUME NEW j \in Jobs
  PROVE  [j EXCEPT !.clean = FALSE].img = j.img
BY DEF Jobs

\* The others at most learn that they are disturbed.
LEMMA OthersFollow ==
  ASSUME TypeOK, DeleteInv, ListInv, NEW h \in Handlers, Moves(h), NEW g \in Handlers \ {h}
  PROVE  Follows(g) /\ job'[g].at = job[g].at
<1>1. Kept(g)
  BY JobsMove
<1>2. job'[g] = job[g] \/ job'[g] = [job[g] EXCEPT !.clean = FALSE]
  <2>1. \A j : Becomes(h, j) => job'[g] = job[g]
    BY DEF Becomes, TypeOK
  <2>2. \A op : Goes(h, op) => job'[g] = job[g]
    BY <2>1 DEF Goes
  <2>3. CASE SaveSteps(h)
    BY <2>1, <2>2, <2>3 DEF SaveSteps, Create, CreateWith, Save, Edit, Reset, StoreResult, Find,
       Write, ResetText, Disturbs
  <2>4. CASE OpenSteps(h)
    BY <2>1, <2>2, <2>4 DEF OpenSteps, OpenRead, Stamp, Load, Opened
  <2>5. CASE DeleteSteps(h)
    BY <2>1, <2>2, <2>5 DEF DeleteSteps, Delete, WipeResults, WipeDocs, DeleteItem, Disturbs
  <2>6. CASE DocSteps(h)
    BY <2>1, <2>2, <2>6 DEF DocSteps, DocRead, DocObject, DocWrite
  <2>7. CASE CopySteps(h)
    BY <2>1, <2>2, <2>7 DEF CopySteps, CopyStart, CopyBlobs, CopyObject, CopyKeys, CopyFails,
       CopyText, CopyImage, CopyList
  <2>8. CASE Dies(h)
    BY <2>1, <2>8 DEF Dies
  <2> QED
    BY <2>3, <2>4, <2>5, <2>6, <2>7, <2>8 DEF Moves
<1>3. job[g] \in Jobs
  BY DEF TypeOK
<1>4. job'[g].img = job[g].img
  BY <1>2, <1>3, UncleanImage
<1>5. Lister(job[g]) => job[g].op # "idle"
  BY DEF ListInv, ListJob
<1> QED
  BY <1>1, <1>4, <1>5 DEF Follows, Kept, SameRequest, Lister

(* Nothing is listed, no image is stored and nobody new writes a list.     *)
LEMMA NothingNew ==
  ASSUME TypeOK, UsedInv, ListInv, UNCHANGED <<listed, urls, crossed>>,
         \A g \in Handlers : Follows(g),
         \A p \in Projects, i \in Images : Has(p, i)' => Has(p, i),
         \A p \in Projects : item'[p] = "free" => item[p] = "free"
  PROVE  ListInv'
<1>1. ASSUME NEW g \in Handlers, Lister(job'[g]) PROVE job[g].at \in Projects /\ job'[g].at = job[g].at
                                                /\ Lister(job[g])
  BY <1>1, JobType DEF Follows, SameRequest, Lister, Idle
<1>2. ASSUME NEW g \in Handlers PROVE ListJob(job[g])'
  <2>1. CASE job'[g].why = "copy" /\ job'[g].clean
    <3>1. EmptyFits(job[g]) /\ job[g].at \in crossed /\ job'[g].op # "idle"
          /\ (job[g].op = "images" => job'[g].op = "images") /\ job'[g].seen = job[g].seen
      BY <2>1 DEF ListInv, ListJob, Follows, SameRequest, Lister
    <3>2. job'[g].at = job[g].at /\ job[g].at \in Projects
      BY <1>1, <2>1 DEF Lister
    <3>3. EmptyFits(job[g])'
      BY <3>1, <3>2 DEF EmptyFits, Awaited
    <3> QED
      BY <2>1, <3>1, <3>2, <3>3 DEF ListJob, Docs
  <2>2. CASE job'[g].why \in Docs /\ job'[g].at \notin crossed'
    <3>1. job'[g].at = job[g].at /\ job[g].at \in Projects /\ job'[g].op # "idle"
          /\ job'[g].why = job[g].why /\ job'[g].seen = job[g].seen /\ job'[g].img = job[g].img
      BY <1>1, <2>2 DEF Lister, Follows, SameRequest
    <3>2. DocFits(job[g])
      BY <2>2, <3>1 DEF ListInv, ListJob
    <3>3. job[g].why = "unlist" => job[g].img \in Images
      BY DEF TypeOK, ItFits
    <3>4. ASSUME job'[g].why = "unlist", job'[g].op \in {"find", "write"}
          PROVE  ~Has(job[g].at, job[g].img)'
      BY <2>2, <3>1, <3>2, <3>3, <3>4 DEF Follows, DocFits, Lister
    <3>5. DocFits(job[g])'
      BY <3>1, <3>2, <3>4 DEF DocFits, Awaited, Has
    <3> QED
      BY <2>2, <3>1, <3>5 DEF ListJob, Docs
  <2>3. CASE ~(job'[g].why = "copy" /\ job'[g].clean) /\ ~(job'[g].why \in Docs /\ job'[g].at \notin crossed')
    BY <1>1, <2>3 DEF ListInv, ListJob, Follows, SameRequest, Lister
  <2> QED
    BY <2>1, <2>2, <2>3
<1>3. ASSUME NEW g \in Handlers PROVE Lone(g)'
  <2>1. ASSUME Trusts(job[g])', NEW k \in Handlers \ {g}, Lister(job'[k])
        PROVE  job'[k].at # job'[g].at
    <3>1. Lister(job'[g])
      BY <2>1 DEF Trusts, Lister
    <3>2. Trusts(job[g])
      BY <2>1, <3>1 DEF Trusts, Follows, SameRequest
    <3> QED
      BY <1>1, <2>1, <3>1, <3>2 DEF ListInv, Lone
  <2> QED
    BY <2>1 DEF Lone, Lister
<1>4. \A p \in Projects \ crossed' : AllListed(p)'
  BY DEF ListInv, AllListed, Awaited
<1> QED
  BY <1>2, <1>3, <1>4 DEF ListInv, Awaited

(* One that writes the list or an image of its project p, alone with it or *)
(* trusted by nobody.                                                      *)
LEMMA LoneStep ==
  ASSUME TypeOK, UsedInv, ListInv, NEW h \in Handlers, Lister(job[h]),
         \A g \in Handlers \ {h} : Follows(g),
         \A q \in Projects : q # job[h].at =>
           /\ listed'[q] = listed[q] /\ (q \in crossed' <=> q \in crossed)
           /\ \A i \in Images : (Has(q, i)' => Has(q, i)) /\ (Awaited(q, i)' <=> Awaited(q, i)),
         job[h].at \in crossed' => job[h].at \in crossed,
         job[h].at \in crossed /\ job[h].at \notin crossed' => Trusts(job[h]),
         \A q \in Projects : item'[q] = "free" => item[q] = "free",
         Lister(job'[h]) => job'[h].at = job[h].at /\ (Trusts(job[h])' => Trusts(job[h])),
         ListJob(job[h])',
         \A q \in Projects : q = job[h].at /\ q \notin crossed' => AllListed(q)'
  PROVE  ListInv'
<1> DEFINE p == job[h].at
<1>1. p \in Projects /\ item[p] # "free" /\ item'[p] # "free"
  BY JobType DEF ListInv, ListJob, Idle, UsedInv
<1>2. ASSUME NEW g \in Handlers \ {h}, Lister(job'[g])
      PROVE  /\ job[g].at \in Projects /\ job'[g].at = job[g].at /\ Lister(job[g])
             /\ (Trusts(job[g])' => Trusts(job[g]))
  <2>1. job[g].at \in Projects /\ job'[g].at = job[g].at /\ job'[g].why = job[g].why
        /\ (job'[g].clean => job[g].clean)
    BY <1>2, JobType DEF Follows, SameRequest, Lister, Idle
  <2>2. job[g].at \notin crossed' => job[g].at \notin crossed
    <3>1. CASE job[g].at = p /\ p \in crossed /\ p \notin crossed'
      BY <1>2, <2>1, <3>1 DEF ListInv, Lone, Lister
    <3> QED
      BY <2>1, <3>1
  <2> QED
    BY <1>2, <2>1, <2>2 DEF Trusts, Lister
<1>3. ASSUME NEW g \in Handlers \ {h}, Lister(job'[g]), Trusts(job[g])'
      PROVE  job[g].at # p
  BY <1>2, <1>3 DEF ListInv, Lone
<1>4. ASSUME NEW g \in Handlers \ {h} PROVE ListJob(job[g])'
  <2>1. CASE job'[g].why = "copy" /\ job'[g].clean
    <3>1. EmptyFits(job[g]) /\ job[g].at \in crossed /\ job'[g].op # "idle"
          /\ (job[g].op = "images" => job'[g].op = "images") /\ job'[g].seen = job[g].seen
      BY <2>1 DEF ListInv, ListJob, Follows, SameRequest, Lister
    <3>2. job'[g].at = job[g].at /\ job[g].at \in Projects /\ job[g].at # p
      BY <1>2, <1>3, <2>1 DEF Lister, Trusts
    <3>3. EmptyFits(job[g])'
      BY <3>1, <3>2 DEF EmptyFits
    <3> QED
      BY <2>1, <3>1, <3>2, <3>3 DEF ListJob, Docs
  <2>2. CASE job'[g].why \in Docs /\ job'[g].at \notin crossed'
    <3>1. job'[g].at = job[g].at /\ job[g].at \in Projects /\ job'[g].op # "idle" /\ job[g].at # p
          /\ job'[g].why = job[g].why /\ job'[g].seen = job[g].seen /\ job'[g].img = job[g].img
      BY <1>2, <1>3, <2>2 DEF Lister, Follows, SameRequest, Trusts
    <3>2. DocFits(job[g])
      BY <2>2, <3>1 DEF ListInv, ListJob
    <3>3. job[g].why = "unlist" => job[g].img \in Images
      BY DEF TypeOK, ItFits
    <3>4. ASSUME job'[g].why = "unlist", job'[g].op \in {"find", "write"}
          PROVE  ~Has(job[g].at, job[g].img)'
      BY <2>2, <3>1, <3>2, <3>3, <3>4 DEF Follows, DocFits, Lister
    <3>5. DocFits(job[g])'
      BY <3>1, <3>2, <3>3, <3>4 DEF DocFits, Has, Awaited
    <3> QED
      BY <2>2, <3>1, <3>5 DEF ListJob, Docs
  <2>3. CASE ~(job'[g].why = "copy" /\ job'[g].clean) /\ ~(job'[g].why \in Docs /\ job'[g].at \notin crossed')
    <3>1. CASE Lister(job'[g])
      <4>1. job'[g].op # "idle" /\ job'[g].at = job[g].at /\ job[g].at \in Projects
            /\ (job'[g].why = "copy" => job[g].at \in crossed)
        BY <1>2, <3>1 DEF ListInv, ListJob, Follows, SameRequest, Lister
      <4>2. CASE job'[g].why = "copy" /\ job[g].at \notin crossed'
        <5>1. job[g].at = p /\ p \in crossed /\ p \notin crossed'
          BY <4>1, <4>2
        <5> QED
          BY <1>2, <3>1, <5>1 DEF ListInv, Lone
      <4> QED
        BY <2>3, <3>1, <4>1, <4>2 DEF ListJob
    <3>2. CASE ~Lister(job'[g])
      BY <3>2 DEF ListJob, Lister
    <3> QED
      BY <3>1, <3>2
  <2> QED
    BY <2>1, <2>2, <2>3
<1>5. ASSUME NEW g \in Handlers PROVE Lone(g)'
  <2>1. ASSUME Trusts(job[g])', NEW k \in Handlers \ {g}, Lister(job'[k])
        PROVE  job'[k].at # job'[g].at
    <3>1. Lister(job'[g])
      BY <2>1 DEF Trusts, Lister
    <3>2. ASSUME NEW m \in Handlers, Lister(job'[m])
          PROVE  Lister(job[m]) /\ job'[m].at = job[m].at /\ (Trusts(job[m])' => Trusts(job[m]))
      BY <1>2, <3>2
    <3> QED
      BY <2>1, <3>1, <3>2 DEF ListInv, Lone
  <2> QED
    BY <2>1 DEF Lone, Lister
<1>6. \A q \in Projects \ crossed' : AllListed(q)'
  <2> TAKE q \in Projects \ crossed'
  <2>1. CASE q = p
    BY <2>1
  <2>2. CASE q # p
    BY <2>2 DEF ListInv, AllListed
  <2> QED
    BY <2>1, <2>2
<1>7. \A q \in Projects : item'[q] = "free" =>
        listed'[q] = {} /\ \A i \in Images : ~Has(q, i)' /\ ~Awaited(q, i)'
  BY <1>1 DEF ListInv
<1> QED
  BY <1>4, <1>5, <1>6, <1>7 DEF ListInv

LEMMA Quietly ==
  ASSUME TypeOK, DeleteInv, UsedInv, ListInv, NEW h \in Handlers, Moves(h),
         UNCHANGED <<listed, urls, crossed>>, Follows(h),
         \A p \in Projects, i \in Images : Has(p, i)' => Has(p, i)
  PROVE  ListInv'
BY NothingNew, OthersFollow, ItemsMove

LEMMA PutOther ==
  ASSUME TypeOK, NEW q \in Projects, NEW y \in Things \ Images, NEW v, PutObject(q, y, v)
  PROVE  \A p \in Projects, i \in Images : Has(p, i)' <=> Has(p, i)
<1>1. object \in [Projects -> [Things -> Versions]] /\ object' = [object EXCEPT ![q][y] = v]
  BY DEF TypeOK, PutObject
<1> QED
  BY <1>1 DEF Has, Things

\* The job of a handler that goes on.
LEMMA GoesFollows ==
  ASSUME TypeOK, NEW h \in Handlers, NEW op, Goes(h, op), ~Idle(h), op # "idle",
         Lister(job[h]) /\ op \in {"find", "write"} =>
           job[h].op \in {"find", "write"} \/ job[h].why # "unlist" \/ ~Has(job[h].at, job[h].img)',
         job[h].why = "copy" /\ job[h].op = "images" => op = "images"
  PROVE  Follows(h)
<1>1. job'[h] = [job[h] EXCEPT !.op = op] /\ job[h] \in Jobs
  BY DEF Goes, Becomes, TypeOK
<1>2. job'[h].img = job[h].img
  BY <1>1 DEF Jobs
<1> QED
  BY <1>2, GoesKept DEF Follows, SameRequest, Idle, Lister

LEMMA EndsFollows == ASSUME NEW h \in Handlers, TypeOK, Becomes(h, NoJob) PROVE Follows(h) /\ ~Lister(job'[h])
<1>1. job'[h].why = "none"
  BY DEF Becomes, TypeOK, NoJob, Begins
<1> QED
  BY <1>1 DEF Follows, Lister, Docs

LEMMA SaveUnlisted ==
  ASSUME TypeOK, DeleteInv, UsedInv, ListInv, NEW h \in Handlers, SaveSteps(h)
  PROVE  ListInv'
<1> USE DEF Moves
<1>0. Text \in Things \ Images /\ Types \subseteq Things \ Images
  BY StoreAssumption DEF Things
<1>1. ASSUME UNCHANGED <<listed, urls, crossed, object>>, Follows(h) PROVE ListInv'
  BY <1>1, Quietly DEF Has
<1>2. ASSUME NEW p \in Projects, Create(h, p) PROVE ListInv'
  <2>1. Follows(h)
    BY <1>2 DEF Create, Request, Idle, ListInv, ListJob, Follows
  <2> QED
    BY <1>1, <1>2, <2>1 DEF Create, history
<1>3. ASSUME NEW p \in Projects, NEW keys \in SUBSET Types, CreateWith(h, p, keys) \/ Save(h, p, keys)
      PROVE  ListInv'
  <2>1. job'[h] = SaveJob(p, keys)
    BY <1>3 DEF CreateWith, Save, Disturbs
  <2>2. ~Lister(job'[h])
    BY <2>1, SaveJobType, <1>3 DEF CreateWith, Save, Lister, Docs
  <2> QED
    BY <1>1, <1>3, <2>2 DEF CreateWith, Save, Follows
<1>4. ASSUME NEW p, NEW s, Edit(h, p) \/ Reset(h, p, s) PROVE ListInv'
  <2>1. job'[h].why \in {"edit", "reset"}
    BY <1>4 DEF Edit, Reset, Becomes, TypeOK, Begins
  <2>2. Follows(h)
    BY <2>1 DEF Follows, Lister, Docs
  <2> QED
    BY <1>1, <1>4, <2>2 DEF Edit, Reset, store, history
<1>5. ASSUME NEW t \in Types, StoreResult(h, t) PROVE ListInv'
  <2>1. ~Idle(h) /\ job[h].at \in Projects /\ job[h].why = "save" /\ job[h] \in Jobs
    BY <1>5, JobType DEF StoreResult, At, Idle, TypeOK
  <2>2. job'[h] = [job[h] EXCEPT !.todo = @ \ {t}]
    BY <1>5 DEF StoreResult, Becomes, TypeOK
  <2>3. Follows(h)
    BY <2>1, <2>2, Ticked DEF Follows, SameRequest, Lister, Docs
  <2> QED
    BY <1>0, <1>5, <2>1, <2>3, Quietly, PutOther DEF StoreResult
<1>6. CASE Find(h)
  <2>1. Follows(h)
    <3>1. CASE Goes(h, "write")
      BY <1>6, <3>1, GoesFollows DEF Find, Idle, At, Lister, Docs
    <3> QED
      BY <1>6, <3>1, EndsFollows DEF Find
  <2> QED
    BY <1>1, <1>6, <2>1 DEF Find, store, history
<1>7. CASE Write(h)
  <2>1. Follows(h)
    <3>1. CASE Goes(h, "text")
      BY <1>7, <3>1, GoesFollows DEF Write, Idle, Lister, Docs
    <3> QED
      BY <1>7, <3>1, EndsFollows DEF Write
  <2> QED
    BY <1>1, <1>7, <2>1 DEF Write
<1>8. CASE ResetText(h)
  <2>1. Follows(h)
    BY <1>8, EndsFollows DEF ResetText
  <2>2. job[h].at \in Projects
    BY <1>8, JobType DEF ResetText, At, Idle
  <2> QED
    BY <1>0, <1>1, <1>8, <2>1, <2>2, Quietly, PutOther DEF ResetText
<1> QED
  BY <1>2, <1>3, <1>4, <1>5, <1>6, <1>7, <1>8 DEF SaveSteps

LEMMA OpenUnlisted ==
  ASSUME TypeOK, DeleteInv, UsedInv, ListInv, NEW h \in Handlers, OpenSteps(h)
  PROVE  ListInv'
<1>1. UNCHANGED <<listed, urls, crossed, object>>
  BY DEF OpenSteps, OpenRead, Stamp, Load, Opened, store, history
<1>2. job'[h].why \in {"open", "none"}
  <2>1. \A j : Becomes(h, j) => job'[h] = j
    BY DEF Becomes, TypeOK
  <2>2. job[h] \in Jobs
    BY DEF TypeOK
  <2>3. ASSUME NEW p \in Projects, OpenRead(h, p) PROVE job'[h].why \in {"open", "none"}
    BY <2>1, <2>3 DEF OpenRead, Begins
  <2>4. ASSUME NEW t, Load(h, t) \/ Stamp(h) PROVE job'[h].why \in {"open", "none"}
    <3>1. \/ job'[h] = [job[h] EXCEPT !.todo = @ \ {t}, !.seen = @ \cup {object[job[h].at][t]}]
          \/ job'[h] = [job[h] EXCEPT !.op = "load", !.todo = job[h].keys]
      BY <2>1, <2>4 DEF Load, Stamp
    <3>2. job[h].why = "open"
      BY <2>4 DEF Load, Stamp, At
    <3> QED
      BY <2>2, <3>1, <3>2 DEF Jobs
  <2>5. CASE Opened(h)
    BY <2>1, <2>5 DEF Opened, NoJob, Begins
  <2> QED
    BY <2>3, <2>4, <2>5 DEF OpenSteps
<1>3. Follows(h)
  BY <1>2 DEF Follows, Lister, Docs
<1> QED
  BY <1>1, <1>3, Quietly DEF Has, Moves

LEMMA DeleteUnlisted ==
  ASSUME TypeOK, DeleteInv, UsedInv, ListInv, NEW h \in Handlers, DeleteSteps(h)
  PROVE  ListInv'
<1>1. UNCHANGED <<listed, urls, crossed>>
  BY DEF DeleteSteps, Delete, WipeResults, WipeDocs, DeleteItem, store, history
<1>2. job'[h].why \in {"delete", "none"}
  <2>1. \A j : Becomes(h, j) => job'[h] = j
    BY DEF Becomes, TypeOK
  <2>2. ASSUME NEW p \in Projects, Delete(h, p) PROVE job'[h].why \in {"delete", "none"}
    BY <2>2 DEF Delete, Disturbs, Begins
  <2>3. CASE WipeResults(h) \/ WipeDocs(h)
    BY <2>3, GoesKept DEF WipeResults, WipeDocs, At, SameRequest
  <2>4. CASE DeleteItem(h)
    BY <2>1, <2>4 DEF DeleteItem, NoJob, Begins
  <2> QED
    BY <2>2, <2>3, <2>4 DEF DeleteSteps
<1>3. Follows(h)
  BY <1>2 DEF Follows, Lister, Docs
<1>4. ASSUME NEW q \in Projects, NEW xs, Wipes(q, xs)
      PROVE  \A p \in Projects, i \in Images : Has(p, i)' => Has(p, i)
  <2>1. object \in [Projects -> [Things -> Versions]] /\ Images \subseteq Things
    BY DEF TypeOK, Things
  <2> QED
    BY <1>4, <2>1 DEF Wipes, Has
<1>5. \A p \in Projects, i \in Images : Has(p, i)' => Has(p, i)
  <2>1. CASE WipeResults(h) \/ WipeDocs(h)
    <3>1. job[h].at \in Projects
      BY <2>1, JobType DEF WipeResults, WipeDocs, At, Idle
    <3> QED
      BY <1>4, <2>1, <3>1 DEF WipeResults, WipeDocs
  <2>2. CASE UNCHANGED object
    BY <2>2 DEF Has
  <2> QED
    BY <2>1, <2>2 DEF DeleteSteps, Delete, DeleteItem, store
<1> QED
  BY <1>1, <1>3, <1>5, Quietly DEF Moves

(* A request about the documentation reads the list: it is alone, or the   *)
(* project is crossed.                                                     *)
LEMMA ReadListed ==
  ASSUME TypeOK, DeleteInv, UsedInv, ListInv, NEW h \in Handlers, NEW p \in Projects, NEW why \in Docs,
         NEW i \in Images \cup {Text}, DocRead(h, p, why, i)
  PROVE  ListInv'
<1> DEFINE op == IF why = "upload" THEN "find" ELSE "s3"
           j == [Begins(p, why, op) EXCEPT !.seen = listed[p], !.img = i]
<1>1. job'[h] = j /\ Idle(h)
  BY DEF DocRead, Request
<1>2. j.why = why /\ j.at = p /\ j.op = op /\ j.seen = listed[p] /\ j.img = i
  BY DEF Begins
<1>3. UNCHANGED <<item, listed, object, urls>>
      /\ crossed' = IF Lists(p) \/ <<p, i>> \in urls THEN crossed \cup {p} ELSE crossed
  BY DEF DocRead, store
<1> HIDE DEF j
<1>4. ASSUME NEW g \in Handlers \ {h}
      PROVE  Follows(g) /\ job'[g].at = job[g].at
             /\ (Lister(job[g]) /\ job[g].at = p => ~Trusts(job[g])')
  <2>1. Follows(g) /\ job'[g].at = job[g].at
    BY OthersFollow DEF Moves, DocSteps
  <2>2. ASSUME Lister(job[g]), job[g].at = p PROVE ~Trusts(job[g])'
    <3>1. p \in crossed'
      BY <1>3, <2>2 DEF Lists, Lister
    <3>2. job[g].why = "copy" => ~job'[g].clean
      <4>1. job[g].why = "copy" => job'[g] = [job[g] EXCEPT !.clean = FALSE]
        BY <2>2 DEF DocRead
      <4>2. job[g] \in Jobs
        BY DEF TypeOK
      <4> QED
        BY <4>1, <4>2, Unclean
    <3>3. job'[g].why = "copy" => job[g].why = "copy"
      BY <2>1 DEF Follows, Lister, SameRequest
    <3> QED
      BY <2>1, <2>2, <3>1, <3>2, <3>3 DEF Trusts
  <2> QED
    BY <2>1, <2>2
<1>5. ASSUME NEW g \in Handlers \ {h}, Lister(job'[g])
      PROVE  /\ Lister(job[g]) /\ job'[g].at = job[g].at /\ job[g].at \in Projects
             /\ (Trusts(job[g])' => Trusts(job[g]) /\ job[g].at # p)
  <2>1. Lister(job[g]) /\ job'[g].at = job[g].at /\ job'[g].why = job[g].why
        /\ (job'[g].clean => job[g].clean) /\ job[g].at \in Projects
    BY <1>4, <1>5, JobType DEF Follows, SameRequest, Lister, Idle
  <2> QED
    BY <1>3, <1>4, <2>1 DEF Trusts
<1>6. ASSUME NEW g \in Handlers \ {h} PROVE ListJob(job[g])'
  <2>1. CASE Lister(job'[g])
    <3>1. /\ ListJob(job[g]) /\ job'[g].at = job[g].at /\ job'[g].why = job[g].why /\ job'[g].op # "idle"
          /\ (job'[g].clean => job[g].clean) /\ job'[g].seen = job[g].seen /\ job'[g].img = job[g].img
          /\ (job'[g].why = "copy" /\ job[g].op = "images" => job'[g].op = "images")
      BY <1>4, <2>1 DEF ListInv, Follows, SameRequest
    <3>2. job'[g].why = "unlist" /\ job'[g].op \in {"find", "write"} =>
            job[g].op \in {"find", "write"} \/ ~Has(job[g].at, job[g].img)
      BY <1>3, <1>4, <2>1, <3>1 DEF Follows, Has
    <3>3. DocFits(job[g]) => DocFits(job[g])'
      BY <1>3, <3>1, <3>2 DEF DocFits, Has, Awaited
    <3>4. job'[g].clean /\ job'[g].why = "copy" /\ EmptyFits(job[g]) => EmptyFits(job[g])'
      BY <1>3, <3>1 DEF EmptyFits, Has, Awaited
    <3>5. job[g].at \in crossed => job[g].at \in crossed'
      BY <1>3
    <3> QED
      BY <3>1, <3>3, <3>4, <3>5 DEF ListJob
  <2>2. CASE ~Lister(job'[g])
    BY <2>2 DEF ListJob, Lister
  <2> QED
    BY <2>1, <2>2
<1>7. ListJob(job[h])'
  <2>1. ASSUME p \notin crossed' PROVE DocFits(job[h])'
    <3>1. ~Awaited(p, i)
      BY <1>3, <2>1 DEF Awaited
    <3>2. why = "unlist" => op = "s3"
      OBVIOUS
    <3> QED
      BY <1>1, <1>2, <1>3, <3>1, <3>2 DEF DocFits, Awaited
  <2> QED
    BY <1>1, <1>2, <2>1 DEF ListJob, Docs
<1>8. ASSUME NEW g \in Handlers PROVE Lone(g)'
  <2>1. CASE g = h
    <3>1. Trusts(job[h])' => p \notin crossed'
      BY <1>1, <1>2 DEF Trusts, Docs
    <3>2. p \notin crossed' => \A k \in Handlers \ {h} : Lister(job[k]) => job[k].at # p
      BY <1>3 DEF Lists, Lister
    <3> QED
      BY <1>1, <1>2, <1>5, <2>1, <3>1, <3>2 DEF Lone
  <2>2. CASE g # h
    <3>1. ASSUME Trusts(job[g])', NEW k \in Handlers \ {g}, Lister(job'[k]) PROVE job'[k].at # job'[g].at
      <4>1. Lister(job'[g])
        BY <3>1 DEF Trusts, Lister
      <4>2. CASE k = h
        BY <1>1, <1>2, <1>5, <2>2, <3>1, <4>1, <4>2
      <4>3. CASE k # h
        BY <1>5, <2>2, <3>1, <4>1, <4>3 DEF ListInv, Lone
      <4> QED
        BY <4>2, <4>3
    <3> QED
      BY <3>1 DEF Lone
  <2> QED
    BY <2>1, <2>2
<1>9. \A q \in Projects \ crossed' : AllListed(q)'
  BY <1>3 DEF ListInv, AllListed, Has, Awaited
<1> QED
  BY <1>3, <1>6, <1>7, <1>8, <1>9 DEF ListInv, Has, Awaited

LEMMA DocUnlisted ==
  ASSUME TypeOK, DeleteInv, UsedInv, ListInv, NEW h \in Handlers, DocObject(h) \/ DocWrite(h)
  PROVE  ListInv'
<1>1. ~Idle(h) /\ job[h].at \in Projects /\ job[h].why \in Docs /\ Lister(job[h]) /\ Moves(h)
  BY JobType DEF DocObject, DocWrite, Idle, Lister, Moves, DocSteps
<1>2. /\ listed \in [Projects -> SUBSET Images] /\ object \in [Projects -> [Things -> Versions]]
      /\ Images \subseteq Things /\ Text \notin Images
  BY StoreAssumption DEF TypeOK, Things
<1>3. CASE DocObject(h)
  <2>1. \A p \in Projects, i \in Images : Has(p, i)' => Has(p, i)
    <3>1. CASE job[h].why = "text"
      <4>1. PutObject(job[h].at, Text, 1) /\ Text \in Things \ Images
        BY <1>2, <1>3, <3>1 DEF DocObject, Things
      <4> QED
        BY <1>1, <4>1, PutOther
    <3>2. CASE job[h].why # "text"
      BY <1>1, <1>2, <1>3, <3>2 DEF DocObject, Has
    <3> QED
      BY <3>1, <3>2
  <2>2. job[h].why = "unlist" => ~Has(job[h].at, job[h].img)'
    <3>1. SUFFICES ASSUME job[h].why = "unlist" PROVE ~Has(job[h].at, job[h].img)'
      OBVIOUS
    <3>2. job[h].img \in Images
      BY <3>1 DEF TypeOK, ItFits
    <3>3. job'[h].at = job[h].at /\ job'[h].img = job[h].img
      <4>1. job'[h] = [job[h] EXCEPT !.op = "find"] /\ job[h] \in Jobs
        BY <1>3 DEF DocObject, Goes, Becomes, TypeOK
      <4> QED
        BY <4>1 DEF Jobs
    <3>4. object' = [object EXCEPT ![job[h].at][job[h].img] = 0]
      BY <1>3, <3>1 DEF DocObject
    <3>5. object'[job[h].at][job[h].img] = 0
      BY <1>1, <1>2, <3>2, <3>4
    <3> QED
      BY <3>3, <3>5 DEF Has
  <2>3. Follows(h)
    BY <1>1, <1>3, <2>2, GoesFollows DEF DocObject, Lister, Docs
  <2> QED
    BY <1>1, <1>3, <2>1, <2>3, Quietly DEF DocObject
<1>4. CASE DocWrite(h)
  <2>1. /\ listed' = [listed EXCEPT ![job[h].at] = NewList(h)] /\ job' = [job EXCEPT ![h] = NoJob]
        /\ urls' = IF job[h].why = "upload" THEN urls \cup {<<job[h].at, job[h].img>>} ELSE urls
        /\ UNCHANGED <<object, crossed>> /\ job[h].op = "write"
    BY <1>4 DEF DocWrite, Becomes, history
  <2>2. ~Lister(job'[h])
    BY <1>4, EndsFollows DEF DocWrite
  <2>3. \A q \in Projects : q # job[h].at =>
           /\ listed'[q] = listed[q] /\ (q \in crossed' <=> q \in crossed)
           /\ \A i \in Images : (Has(q, i)' => Has(q, i)) /\ (Awaited(q, i)' <=> Awaited(q, i))
    BY <1>2, <2>1 DEF Has, Awaited
  <2>4. ASSUME NEW q \in Projects, q = job[h].at, q \notin crossed' PROVE AllListed(q)'
    <3>1. DocFits(job[h]) /\ AllListed(q)
      BY <1>1, <2>1, <2>4 DEF ListInv, ListJob
    <3>2. listed'[q] = NewList(h)
      BY <1>2, <2>1, <2>4
    <3>3. ASSUME NEW i \in Images, Has(q, i)' \/ Awaited(q, i)' PROVE i \in listed'[q]
      <4>1. Has(q, i)' <=> Has(q, i)
        BY <2>1 DEF Has
      <4>2. CASE job[h].why = "text"
        BY <2>1, <2>4, <3>1, <3>2, <3>3, <4>1, <4>2 DEF AllListed, DocFits, NewList, Awaited
      <4>3. CASE job[h].why = "upload"
        BY <2>1, <2>4, <3>1, <3>2, <3>3, <4>1, <4>3 DEF AllListed, DocFits, NewList, Awaited
      <4>4. CASE job[h].why = "unlist"
        <5>1. ~Awaited(q, job[h].img) /\ ~Has(q, job[h].img)
          BY <2>1, <2>4, <3>1, <4>4 DEF DocFits
        <5>2. Awaited(q, i)' <=> Awaited(q, i)
          BY <2>1, <4>4 DEF Awaited
        <5>3. i # job[h].img
          BY <3>3, <4>1, <5>1, <5>2
        <5> QED
          BY <2>4, <3>1, <3>2, <3>3, <4>1, <4>4, <5>2, <5>3 DEF AllListed, DocFits, NewList
      <4> QED
        BY <1>1, <4>2, <4>3, <4>4 DEF Docs
    <3> QED
      BY <3>3 DEF AllListed
  <2>5. ListJob(job[h])'
    BY <2>2 DEF ListJob, Lister
  <2> QED
    BY <1>1, <2>1, <2>2, <2>3, <2>4, <2>5, LoneStep, OthersFollow, ItemsMove
<1> QED
  BY <1>3, <1>4

(* An image that was awaited is there.                                     *)
LEMMA ImageListed ==
  ASSUME TypeOK, UsedInv, ListInv, NEW p \in Projects, NEW i \in Images, PutImage(p, i)
  PROVE  ListInv'
<1>1. UNCHANGED <<item, listed, crossed, job>>
  BY DEF PutImage
<1>2. object' = [object EXCEPT ![p][i] = 1] /\ urls' = urls \ {<<p, i>>} /\ Awaited(p, i)
  BY DEF PutImage, PutObject, Awaited
<1>3. object \in [Projects -> [Things -> Versions]] /\ i \in Things
  BY DEF TypeOK, Things
<1>4. \A q \in Projects, k \in Images :
        /\ Has(q, k)' => Has(q, k) \/ (q = p /\ k = i)
        /\ Awaited(q, k)' => Awaited(q, k)
  BY <1>2, <1>3 DEF Has, Awaited, Things
<1>5. ASSUME NEW h \in Handlers PROVE ListJob(job[h])'
  <2>1. ListJob(job[h]) /\ (Lister(job[h]) => job[h].at \in Projects)
    BY JobType DEF ListInv, ListJob, Idle
  <2>2. job[h].why = "copy" /\ EmptyFits(job[h]) => EmptyFits(job[h])'
    BY <1>1, <1>2, <1>4, <2>1 DEF EmptyFits, Lister
  <2>3. job[h].why \in Docs /\ DocFits(job[h]) => DocFits(job[h])'
    <3>1. job[h].why = "unlist" => job[h].img \in Images
      BY DEF TypeOK, ItFits
    <3> QED
      BY <1>1, <1>2, <1>4, <2>1, <3>1 DEF DocFits, Lister
  <2> QED
    BY <1>1, <2>1, <2>2, <2>3 DEF ListJob, Lister
<1>6. \A h \in Handlers : Lone(h)'
  BY <1>1 DEF ListInv, Lone, Trusts
<1>7. \A q \in Projects \ crossed' : AllListed(q)'
  BY <1>1, <1>2, <1>4 DEF ListInv, AllListed
<1>8. \A q \in Projects : item'[q] = "free" =>
        listed'[q] = {} /\ \A k \in Images : ~Has(q, k)' /\ ~Awaited(q, k)'
  BY <1>1, <1>2, <1>4 DEF ListInv
<1> QED
  BY <1>5, <1>6, <1>7, <1>8 DEF ListInv

(* A copy begins with an id nobody works on.                               *)
LEMMA CopyListed ==
  ASSUME TypeOK, DeleteInv, UsedInv, ListInv, NEW h \in Handlers, NEW p \in Projects, NEW q \in Projects,
         CopyStart(h, p, q)
  PROVE  ListInv'
<1>1. UNCHANGED <<listed, object, urls>> /\ crossed' = crossed \cup {q} /\ item[q] = "free"
      /\ item' = [item EXCEPT ![q] = "here"]
  BY DEF CopyStart
<1>2. job'[h].at = q /\ job'[h].why = "copy" /\ job'[h].op = "blobs"
  BY DEF CopyStart, Becomes, TypeOK, Begins
<1>3. ASSUME NEW g \in Handlers \ {h} PROVE job'[g] = job[g] /\ (Lister(job[g]) => job[g].at # q)
  BY <1>1 DEF CopyStart, Becomes, TypeOK, UsedInv, ListInv, ListJob, Idle
<1>4. ASSUME NEW g \in Handlers \ {h} PROVE ListJob(job[g])'
  <2>1. ListJob(job[g]) /\ job'[g] = job[g]
    BY <1>3 DEF ListInv
  <2>2. DocFits(job[g]) => DocFits(job[g])'
    BY <1>1, <2>1 DEF DocFits, Has, Awaited
  <2>3. EmptyFits(job[g]) => EmptyFits(job[g])'
    BY <1>1, <2>1 DEF EmptyFits, Has, Awaited
  <2>4. job[g].at \in crossed => job[g].at \in crossed'
    BY <1>1
  <2> QED
    BY <2>1, <2>2, <2>3, <2>4 DEF ListJob, Lister
<1>5. ListJob(job[h])'
  <2>1. EmptyFits(job[h])'
    <3>1. listed[q] = {} /\ \A i \in Images : ~Has(q, i) /\ ~Awaited(q, i)
      BY <1>1 DEF ListInv
    <3> QED
      BY <1>1, <1>2, <3>1 DEF EmptyFits, Has, Awaited
  <2> QED
    BY <1>1, <1>2, <2>1 DEF ListJob, Docs
<1>6. ASSUME NEW g \in Handlers PROVE Lone(g)'
  <2>1. CASE g = h
    BY <1>2, <1>3, <2>1 DEF Lone
  <2>2. CASE g # h
    <3>1. ASSUME Trusts(job[g])', NEW k \in Handlers \ {g}, Lister(job'[k]) PROVE job'[k].at # job'[g].at
      <4>1. Trusts(job[g]) /\ Lister(job[g])
        BY <1>1, <1>3, <2>2, <3>1 DEF Trusts, Lister
      <4>2. CASE k = h
        BY <1>2, <1>3, <2>2, <4>1, <4>2
      <4>3. CASE k # h
        BY <1>3, <2>2, <3>1, <4>1, <4>3 DEF ListInv, Lone
      <4> QED
        BY <4>2, <4>3
    <3> QED
      BY <3>1 DEF Lone
  <2> QED
    BY <2>1, <2>2
<1>7. \A r \in Projects \ crossed' : AllListed(r)'
  BY <1>1 DEF ListInv, AllListed, Has, Awaited
<1>8. \A r \in Projects : item'[r] = "free" =>
        listed'[r] = {} /\ \A k \in Images : ~Has(r, k)' /\ ~Awaited(r, k)'
  BY <1>1 DEF ListInv, Has, Awaited, TypeOK
<1> QED
  BY <1>4, <1>5, <1>6, <1>7, <1>8 DEF ListInv

(* The copy of the results changes neither list nor images.                *)
LEMMA CopyUnlisted ==
  ASSUME TypeOK, DeleteInv, UsedInv, ListInv, NEW h \in Handlers,
         \/ CopyBlobs(h) \/ CopyKeys(h) \/ CopyFails(h)
         \/ \E t \in Types : CopyObject(h, t)
  PROVE  ListInv'
<1>1. /\ ~Idle(h) /\ job[h].why = "copy" /\ job[h].op \in {"blobs", "objects"} /\ job[h] \in Jobs
      /\ job[h].at \in Projects /\ Moves(h)
  BY JobType DEF CopyBlobs, CopyKeys, CopyFails, CopyObject, At, Idle, TypeOK, Moves, CopySteps
<1>2. \A j : Becomes(h, j) => job'[h] = j
  BY DEF Becomes, TypeOK
<1>3. Types \subseteq Things \ Images
  BY StoreAssumption DEF Things
<1>4. CASE CopyBlobs(h)
  <2>1. job'[h] = [job[h] EXCEPT !.op = "objects", !.todo = @ \cup job[h].keys, !.keys = {}]
    BY <1>2, <1>4 DEF CopyBlobs
  <2>2. Follows(h)
    <3>1. /\ job'[h].why = "copy" /\ job'[h].at = job[h].at /\ job'[h].src = job[h].src
          /\ job'[h].ver = job[h].ver /\ job'[h].op = "objects" /\ job'[h].seen = job[h].seen
          /\ job'[h].img = job[h].img /\ job'[h].clean = job[h].clean
      BY <1>1, <2>1 DEF Jobs
    <3> QED
      BY <1>1, <3>1 DEF Follows, SameRequest
  <2> QED
    BY <1>1, <1>4, <2>2, Quietly DEF CopyBlobs, history, Has
<1>5. CASE CopyKeys(h) \/ CopyFails(h)
  <2>1. Follows(h)
    BY <1>1, <1>5, GoesFollows DEF CopyKeys, CopyFails
  <2> QED
    BY <1>1, <1>5, <2>1, Quietly DEF CopyKeys, CopyFails, store, history, Has
<1>6. ASSUME NEW t \in Types, CopyObject(h, t) PROVE ListInv'
  <2>1. \/ job'[h] = [job[h] EXCEPT !.todo = @ \ {t}]
        \/ job'[h] = [job[h] EXCEPT !.todo = @ \ {t}, !.keys = @ \cup {t}]
    BY <1>2, <1>6 DEF CopyObject
  <2>0. job[h].op = "objects"
    BY <1>6 DEF CopyObject, At
  <2>2. Follows(h)
    <3>1. /\ job'[h].why = "copy" /\ job'[h].at = job[h].at /\ job'[h].src = job[h].src
          /\ job'[h].ver = job[h].ver /\ job'[h].op = "objects" /\ job'[h].seen = job[h].seen
          /\ job'[h].img = job[h].img /\ job'[h].clean = job[h].clean
      BY <1>1, <2>0, <2>1 DEF Jobs
    <3> QED
      BY <1>1, <3>1 DEF Follows, SameRequest
  <2>3. \A p \in Projects, i \in Images : Has(p, i)' => Has(p, i)
    <3>1. CASE UNCHANGED object
      BY <3>1 DEF Has
    <3>2. CASE PutObject(job[h].at, t, object[job[h].src][t])
      <4>1. t \in Things \ Images
        BY <1>3
      <4>2. object' = [object EXCEPT ![job[h].at][t] = object[job[h].src][t]]
            /\ object \in [Projects -> [Things -> Versions]]
        BY <3>2 DEF PutObject, TypeOK
      <4> QED
        BY <1>1, <4>1, <4>2 DEF Has, Things
    <3> QED
      BY <1>6, <3>1, <3>2 DEF CopyObject
  <2> QED
    BY <1>1, <1>6, <2>2, <2>3, Quietly DEF CopyObject
<1> QED
  BY <1>4, <1>5, <1>6

(* The copy of the documentation, with the images that S3 still has.       *)
LEMMA CopyImages ==
  ASSUME TypeOK, DeleteInv, UsedInv, ListInv, NEW h \in Handlers,
         CopyText(h) \/ CopyList(h) \/ \E i \in Images : CopyImage(h, i)
  PROVE  ListInv'
<1>1. /\ ~Idle(h) /\ job[h].why = "copy" /\ job[h].op \in {"text", "images"} /\ job[h] \in Jobs
      /\ job[h].at \in Projects /\ Moves(h) /\ Lister(job[h]) /\ job[h].at \in crossed
  BY JobType DEF CopyText, CopyList, CopyImage, At, Idle, TypeOK, Moves, CopySteps, Lister, ListInv, ListJob
<1>2. \A j : Becomes(h, j) => job'[h] = j
  BY DEF Becomes, TypeOK
<1>3. /\ object \in [Projects -> [Things -> Versions]] /\ listed \in [Projects -> SUBSET Images]
      /\ Images \subseteq Things /\ Text \in Things \ Images
  BY StoreAssumption DEF TypeOK, Things
<1>4. job[h].clean => EmptyFits(job[h]) /\ Trusts(job[h])
  BY <1>1 DEF ListInv, ListJob, Trusts
<1>5. ASSUME job'[h] = NoJob, crossed' = Uncrossed(h), UNCHANGED urls,
             \A q \in Projects : q # job[h].at => listed'[q] = listed[q],
             \A q \in Projects, i \in Images : Has(q, i)' => Has(q, i),
             \A q \in Projects : q = job[h].at /\ job[h].clean => AllListed(q)'
      PROVE  ListInv'
  <2>1. ~Lister(job'[h])
    BY <1>5 DEF NoJob, Begins, Lister, Docs
  <2>2. \A q \in Projects : q \in crossed' <=> q \in crossed /\ ~(q = job[h].at /\ job[h].clean)
    BY <1>5 DEF Uncrossed
  <2>3. \A q \in Projects : q # job[h].at =>
           /\ listed'[q] = listed[q] /\ (q \in crossed' <=> q \in crossed)
           /\ \A i \in Images : (Has(q, i)' => Has(q, i)) /\ (Awaited(q, i)' <=> Awaited(q, i))
    BY <1>5, <2>2 DEF Awaited
  <2>4. ListJob(job[h])'
    BY <2>1 DEF ListJob, Lister
  <2>5. /\ job[h].at \in crossed' => job[h].at \in crossed
        /\ job[h].at \in crossed /\ job[h].at \notin crossed' => Trusts(job[h])
        /\ \A q \in Projects : q = job[h].at /\ q \notin crossed' => AllListed(q)'
    BY <1>1, <1>4, <1>5, <2>2
  <2> QED
    BY <1>1, <2>1, <2>3, <2>4, <2>5, LoneStep, OthersFollow, ItemsMove
<1>6. ASSUME job'[h].why = "copy", job'[h].at = job[h].at, job'[h].op = "images",
             job'[h].clean = job[h].clean,
             UNCHANGED <<crossed, listed, urls>>,
             \A q \in Projects : q # job[h].at => \A i \in Images : Has(q, i)' => Has(q, i),
             \A q \in Projects : q = job[h].at /\ job[h].clean =>
               \A i \in Images : Has(q, i)' => i \in job'[h].seen
      PROVE  ListInv'
  <2>1. \A q \in Projects : q # job[h].at =>
           /\ listed'[q] = listed[q] /\ (q \in crossed' <=> q \in crossed)
           /\ \A i \in Images : (Has(q, i)' => Has(q, i)) /\ (Awaited(q, i)' <=> Awaited(q, i))
    BY <1>6 DEF Awaited
  <2>2. ListJob(job[h])'
    <3>1. ASSUME job[h].clean PROVE EmptyFits(job[h])'
      <4>1. listed[job[h].at] = {} /\ \A i \in Images : ~Awaited(job[h].at, i)
        BY <1>4, <3>1 DEF EmptyFits
      <4>2. \A i \in Images : Has(job[h].at, i)' => i \in job'[h].seen
        BY <1>1, <1>6, <3>1
      <4>3. /\ job'[h].op = "images" /\ job'[h].at = job[h].at
            /\ \A i \in Images : object'[job[h].at][i] # 0 => i \in job'[h].seen
        BY <1>6, <4>2 DEF Has
      <4>4. listed'[job[h].at] = {} /\ \A i \in Images : <<job[h].at, i>> \notin urls'
        BY <1>6, <4>1 DEF Awaited
      <4> QED
        BY <4>3, <4>4 DEF EmptyFits, Has, Awaited
    <3> QED
      BY <1>1, <1>6, <3>1 DEF ListJob, Docs
  <2>3. Trusts(job[h])' => Trusts(job[h])
    BY <1>1, <1>6 DEF Trusts, Docs
  <2> QED
    BY <1>1, <1>6, <2>1, <2>2, <2>3, LoneStep, OthersFollow, ItemsMove
<1>7. CASE CopyText(h)
  <2>1. job[h].op = "text"
    BY <1>7 DEF CopyText, At
  <2>2. \A q \in Projects, i \in Images : Has(q, i)' <=> Has(q, i)
    <3>1. CASE UNCHANGED object
      BY <3>1 DEF Has
    <3>2. CASE PutObject(job[h].at, Text, 1)
      BY <1>1, <1>3, <3>2, PutOther
    <3> QED
      BY <1>7, <3>1, <3>2 DEF CopyText
  <2>3. \A q \in Projects : q = job[h].at /\ job[h].clean =>
          \A i \in Images : ~Has(q, i)' /\ ~Awaited(q, i)
    BY <1>4, <2>1, <2>2 DEF EmptyFits
  <2>4. CASE Becomes(h, NoJob) /\ crossed' = Uncrossed(h)
    <3>1. \A q \in Projects : q = job[h].at /\ job[h].clean => AllListed(q)'
      BY <1>7, <2>3 DEF CopyText, AllListed, Awaited
    <3> QED
      BY <1>2, <1>5, <1>7, <2>2, <2>4, <3>1 DEF CopyText
  <2>5. CASE /\ UNCHANGED crossed
             /\ Becomes(h, [job[h] EXCEPT !.op = "images", !.todo = job[h].seen, !.seen = {}])
    <3>1. job'[h] = [job[h] EXCEPT !.op = "images", !.todo = job[h].seen, !.seen = {}]
      BY <1>2, <2>5
    <3>2. /\ job'[h].why = "copy" /\ job'[h].at = job[h].at /\ job'[h].op = "images"
          /\ job'[h].clean = job[h].clean
      BY <1>1, <3>1 DEF Jobs
    <3> QED
      BY <1>6, <1>7, <2>2, <2>3, <2>5, <3>2 DEF CopyText
  <2> QED
    BY <1>7, <2>4, <2>5 DEF CopyText
<1>8. CASE CopyList(h)
  <2>1. job[h].op = "images" /\ job[h].seen \subseteq Images
        /\ listed' = [listed EXCEPT ![job[h].at] = job[h].seen] /\ UNCHANGED <<object, urls>>
    BY <1>1, <1>8 DEF CopyList, At, TypeOK, ItFits
  <2>2. \A q \in Projects : q = job[h].at /\ job[h].clean => AllListed(q)'
    <3>1. ASSUME NEW q \in Projects, q = job[h].at, job[h].clean PROVE AllListed(q)'
      <4>1. listed'[q] = job[h].seen
        BY <1>3, <2>1, <3>1
      <4>2. \A i \in Images : ~Awaited(q, i) /\ (Has(q, i) => i \in job[h].seen)
        BY <1>4, <2>1, <3>1 DEF EmptyFits
      <4> QED
        BY <2>1, <4>1, <4>2 DEF AllListed, Has, Awaited
    <3> QED
      BY <3>1
  <2>3. \A q \in Projects : q # job[h].at => listed'[q] = listed[q]
    BY <1>3, <2>1
  <2>4. \A q \in Projects, i \in Images : Has(q, i)' => Has(q, i)
    BY <2>1 DEF Has
  <2> QED
    BY <1>2, <1>5, <1>8, <2>1, <2>2, <2>3, <2>4 DEF CopyList
<1>9. ASSUME NEW i \in Images, CopyImage(h, i) PROVE ListInv'
  <2>1. job[h].op = "images" /\ UNCHANGED <<listed, urls, crossed>>
    BY <1>9 DEF CopyImage, At
  <2>2. \A q \in Projects : q = job[h].at /\ job[h].clean =>
          \A k \in Images : Has(q, k) => k \in job[h].seen
    BY <1>4, <2>1 DEF EmptyFits
  <2>3. CASE /\ Becomes(h, [job[h] EXCEPT !.todo = @ \ {i}])
             /\ UNCHANGED <<object, loose>>
    <3>1. job'[h] = [job[h] EXCEPT !.todo = @ \ {i}]
      BY <1>2, <2>3
    <3>2. /\ job'[h].why = "copy" /\ job'[h].at = job[h].at /\ job'[h].op = "images"
          /\ job'[h].clean = job[h].clean /\ job'[h].seen = job[h].seen
      BY <1>1, <2>1, <3>1 DEF Jobs
    <3>3. \A q \in Projects, k \in Images : Has(q, k)' <=> Has(q, k)
      BY <2>3 DEF Has
    <3> QED
      BY <1>6, <2>1, <2>2, <3>2, <3>3
  <2>4. CASE /\ PutObject(job[h].at, i, 1)
             /\ Becomes(h, [job[h] EXCEPT !.todo = @ \ {i}, !.seen = @ \cup {i}])
    <3>1. job'[h] = [job[h] EXCEPT !.todo = @ \ {i}, !.seen = @ \cup {i}]
      BY <1>2, <2>4
    <3>2. /\ job'[h].why = "copy" /\ job'[h].at = job[h].at /\ job'[h].op = "images"
          /\ job'[h].clean = job[h].clean /\ job'[h].seen = job[h].seen \cup {i}
      BY <1>1, <2>1, <3>1 DEF Jobs
    <3>3. object' = [object EXCEPT ![job[h].at][i] = 1]
      BY <2>4 DEF PutObject
    <3>4. \A q \in Projects, k \in Images : Has(q, k)' => Has(q, k) \/ (q = job[h].at /\ k = i)
      BY <1>3, <3>3 DEF Has
    <3> QED
      BY <1>6, <2>1, <2>2, <3>2, <3>4
  <2> QED
    BY <1>9, <2>3, <2>4 DEF CopyImage
<1> QED
  BY <1>7, <1>8, <1>9

LEMMA ListKept ==
  ASSUME TypeOK, DeleteInv, UsedInv, ListInv, [Next]_vars
  PROVE  ListInv'
<1>1. ASSUME NEW h \in Handlers, DocSteps(h) PROVE ListInv'
  BY <1>1, ReadListed, DocUnlisted DEF DocSteps
<1>2. ASSUME NEW h \in Handlers, CopySteps(h) PROVE ListInv'
  BY <1>2, CopyListed, CopyUnlisted, CopyImages DEF CopySteps
<1>3. ASSUME NEW h \in Handlers, Dies(h) PROVE ListInv'
  BY <1>3, EndsFollows, Quietly DEF Dies, Moves, store, history, Has
<1>4. CASE UNCHANGED vars
  <2>1. UNCHANGED <<item, listed, object, urls, job, crossed>>
    BY <1>4 DEF vars, store, history
  <2> QED
    BY <2>1 DEF ListInv, ListJob, DocFits, EmptyFits, Lone, Trusts, AllListed, Has, Awaited
<1> QED
  BY <1>1, <1>2, <1>3, <1>4, SaveUnlisted, OpenUnlisted, DeleteUnlisted, ImageListed DEF Next

(* An image in S3 of a project that is there is in the list from which     *)
(* images are copied and deleted, unless two requests overlapped on the    *)
(* list (upload_image, save_documentation, delete_image, duplicate_images),*)
(* or the project is a copy that was cut short before its list was written *)
(* or whose original was torn or changed while it was made.                *)
THEOREM ImagesFound == Spec => []ImagesListed
<1> DEFINE I == TypeOK /\ DeleteInv /\ UsedInv /\ ListInv
<1>1. Init => I
  <2> SUFFICES ASSUME Init PROVE DeleteInv /\ UsedInv /\ ListInv
    BY InitTyped
  <2>1. \A h \in Handlers : job[h].op = "idle" /\ job[h].why = "none"
    BY DEF Init, NoJob, Begins
  <2>2. \A p \in Projects : item[p] = "free" /\ sim[p] = NoResults /\ listed[p] = {}
    BY DEF Init
  <2>3. DeleteInv /\ UsedInv
    BY <2>1, <2>2 DEF DeleteInv, UsedInv, Idle
  <2>4. \A h \in Handlers : ~Lister(job[h])
    BY <2>1 DEF Lister, Docs
  <2>5. \A p \in Projects, i \in Images : ~Has(p, i) /\ ~Awaited(p, i)
    BY DEF Init, Has, Awaited, Things
  <2>6. \A h \in Handlers : ListJob(job[h]) /\ Lone(h)
    BY <2>4 DEF ListJob, Lone, Lister
  <2> QED
    BY <2>2, <2>3, <2>5, <2>6 DEF ListInv, AllListed
<1>2. I /\ [Next]_vars => I'
  BY NextTyped, UsedKept, ListKept
<1>3. I => ImagesListed
  BY DEF ListInv, AllListed, Has, ImagesListed
<1> QED
  BY <1>1, <1>2, <1>3, PTL DEF Spec
--------------------------------------------------------------------------------
(* No update makes an item of its own, when no item is deleted between the *)
(* reading and the writing of another handler.                             *)

Writing == {"write", "stamp", "blobs", "objects"}

\* A request that goes on and will write has just found the item, or was to
\* write it before.
LEMMA HoldsOn ==
  ASSUME TypeOK, NEW h \in Handlers, Moves(h), ~Idle(h), job'[h].op \in Writing
  PROVE  job[h].op \in Writing \/ (Find(h) /\ item[job[h].at] = "here")
<1>0. job[h] \in Jobs /\ NoJob.op = "idle"
  BY DEF TypeOK, NoJob, Begins
<1>1. ~Becomes(h, NoJob)
  BY <1>0, BecomesKept DEF Writing
<1>2. ~Goes(h, "docs") /\ ~Goes(h, "item") /\ ~Goes(h, "find")
  <2>1. ASSUME NEW op, Goes(h, op) PROVE op \in Writing
    BY <2>1, GoesKept
  <2> QED
    BY <2>1 DEF Writing
<1>3. CASE SaveSteps(h)
  <2>1. ASSUME NEW t \in Types, StoreResult(h, t) PROVE FALSE
    <3> DEFINE j == [job[h] EXCEPT !.todo = @ \ {t}]
    <3>1. Becomes(h, j) /\ job[h].op = "store"
      BY <2>1 DEF StoreResult, At
    <3>2. j.op = job[h].op
      BY <1>0, Ticked
    <3> HIDE DEF j
    <3>3. job'[h] = j
      BY <3>1, BecomesKept
    <3> QED
      BY <3>1, <3>2, <3>3 DEF Writing
  <2>2. Find(h) \/ Write(h) \/ ResetText(h)
    BY <1>3, <2>1 DEF SaveSteps, Create, CreateWith, Save, Edit, Reset, Request
  <2> QED
    BY <2>2, <1>1 DEF Find, Write, ResetText, Writing
<1>4. CASE OpenSteps(h)
  <2>1. ASSUME NEW t \in Types, Load(h, t) PROVE FALSE
    <3> DEFINE j == [job[h] EXCEPT !.todo = @ \ {t}, !.seen = @ \cup {object[job[h].at][t]}]
    <3>1. Becomes(h, j) /\ job[h].op = "load"
      BY <2>1 DEF Load, At
    <3>2. j.op = job[h].op
      BY <1>0 DEF Jobs
    <3> HIDE DEF j
    <3>3. job'[h] = j
      BY <3>1, BecomesKept
    <3> QED
      BY <3>1, <3>2, <3>3 DEF Writing
  <2>2. Stamp(h) => job[h].op \in Writing
    BY DEF Stamp, At, Writing
  <2> QED
    BY <1>1, <1>4, <2>1, <2>2 DEF OpenSteps, OpenRead, Request, Opened
<1>5. CASE DeleteSteps(h)
  <2>1. Goes(h, "docs") \/ Goes(h, "item")
    BY <1>1, <1>5 DEF DeleteSteps, Delete, Request, WipeResults, WipeDocs, DeleteItem
  <2> QED
    BY <1>2, <2>1 DEF Writing
<1>6. CASE DocSteps(h)
  BY <1>1, <1>2, <1>6 DEF DocSteps, DocRead, Request, DocObject, DocWrite, Writing
<1>7. CASE CopySteps(h)
  <2>1. CopyBlobs(h) \/ CopyKeys(h) \/ CopyFails(h) \/ (\E t \in Types : CopyObject(h, t))
          => job[h].op \in Writing
    BY DEF CopyBlobs, CopyKeys, CopyFails, CopyObject, At, Writing
  <2>2. ASSUME CopyText(h) PROVE FALSE
    <3> DEFINE j == [job[h] EXCEPT !.op = "images", !.todo = job[h].seen, !.seen = {}]
    <3>1. Becomes(h, j)
      BY <1>1, <2>2 DEF CopyText
    <3>2. j.op = "images"
      BY <1>0, ToImages
    <3> HIDE DEF j
    <3> QED
      BY <3>1, <3>2, BecomesKept DEF Writing
  <2>3. ASSUME NEW i \in Images, CopyImage(h, i) PROVE FALSE
    <3> DEFINE j == [job[h] EXCEPT !.todo = @ \ {i}]
               k == [job[h] EXCEPT !.todo = @ \ {i}, !.seen = @ \cup {i}]
    <3>1. (Becomes(h, j) \/ Becomes(h, k)) /\ job[h].op = "images"
      BY <2>3 DEF CopyImage, At
    <3>2. j.op = job[h].op /\ k.op = job[h].op
      BY <1>0 DEF Jobs
    <3> HIDE DEF j, k
    <3>3. job'[h] = j \/ job'[h] = k
      BY <3>1, BecomesKept
    <3> QED
      BY <3>1, <3>2, <3>3 DEF Writing
  <2> QED
    BY <1>1, <1>7, <2>1, <2>2, <2>3 DEF CopySteps, CopyStart, Request, CopyList
<1>8. CASE Dies(h)
  BY <1>1, <1>8 DEF Dies
<1> QED
  BY <1>3, <1>4, <1>5, <1>6, <1>7, <1>8 DEF Moves

\* An item comes to be a ghost by the update of a handler that was to write it.
LEMMA GhostMove ==
  ASSUME TypeOK, NEW h \in Handlers, Moves(h), NEW p \in Projects, item'[p] = "ghost"
  PROVE  item[p] = "ghost" \/ (Holds(h, p) /\ item[p] # "here")
<1>1. item \in [Projects -> {"free", "here", "gone", "ghost"}]
  BY DEF TypeOK
<1>2. CASE SaveSteps(h)
  BY <1>1, <1>2 DEF SaveSteps, Create, CreateWith, Save, Edit, Reset, StoreResult, Find, Write, ResetText,
     WriteItem, store, Holds
<1>3. CASE OpenSteps(h)
  BY <1>1, <1>3 DEF OpenSteps, OpenRead, Stamp, Load, Opened, WriteItem, store, At, Holds
<1>4. CASE DeleteSteps(h)
  BY <1>1, <1>4 DEF DeleteSteps, Delete, WipeResults, WipeDocs, DeleteItem, store, Holds
<1>5. CASE DocSteps(h)
  BY <1>1, <1>5 DEF DocSteps, DocRead, DocObject, DocWrite, WriteItem, store, Holds
<1>6. CASE CopySteps(h)
  BY <1>1, <1>6 DEF CopySteps, CopyStart, CopyBlobs, CopyObject, CopyKeys, CopyFails, CopyText,
     CopyImage, CopyList, WriteItem, store, At, Holds
<1>7. CASE Dies(h)
  BY <1>7 DEF Dies, store
<1> QED
  BY <1>2, <1>3, <1>4, <1>5, <1>6, <1>7 DEF Moves

LEMMA HeldKept ==
  ASSUME TypeOK, TypeOK', DeleteInv, HeldInv, NoGhost, [Next]_vars,
         \A h \in Handlers : DeleteItem(h) => \A g \in Handlers : ~Holds(g, job[h].at)
  PROVE  HeldInv' /\ NoGhost'
<1>1. CASE UNCHANGED vars
  BY <1>1 DEF vars, store, HeldInv, NoGhost, Holds
<1>2. ASSUME NEW p \in Projects, NEW i \in Images, PutImage(p, i) PROVE HeldInv' /\ NoGhost'
  BY <1>2 DEF PutImage, HeldInv, NoGhost, Holds
<1>3. ASSUME NEW h \in Handlers, Moves(h) PROVE HeldInv' /\ NoGhost'
  <2>1. NoGhost'
    BY <1>3, GhostMove DEF NoGhost, HeldInv
  <2>2. ASSUME NEW g \in Handlers, NEW p \in Projects, Holds(g, p) PROVE item'[p] = "here"
    <3>1. item[p] = "here" /\ item'[p] \in {"free", "here", "gone", "ghost"}
      BY <2>2 DEF HeldInv, TypeOK
    <3>2. item'[p] # "free" /\ item'[p] # "ghost"
      BY <1>3, <3>1, <2>1, ItemsMove DEF NoGhost
    <3>3. item'[p] = "gone" => DeleteItem(h) /\ p = job[h].at
      BY <1>3, <3>1, ItemsMove
    <3> QED
      BY <2>2, <3>1, <3>2, <3>3
  <2>3. ASSUME NEW g \in Handlers \ {h}, NEW p \in Projects, Holds(g, p)' PROVE item'[p] = "here"
    <3>1. Kept(g)
      BY <1>3, JobsMove
    <3> QED
      BY <2>2, <2>3, <3>1 DEF Kept, SameRequest, Holds
  <2>4. ASSUME NEW p \in Projects, Holds(h, p)' PROVE item'[p] = "here"
    <3>1. job'[h].at = p /\ job'[h].op \in Writing
      BY <2>4 DEF Holds, Writing
    <3>2. NoJob.op = "idle"
      BY DEF NoJob, Begins
    <3>3. Own(h)
      BY <1>3, JobsMove
    <3>4. CASE Begun(h)
      BY <3>1, <3>4 DEF Begun
    <3>5. CASE GoesOn(h)
      <4>1. job[h].at = p /\ ~Idle(h)
        BY <3>1, <3>5 DEF GoesOn, SameRequest
      <4>2. CASE job[h].op \in Writing
        BY <2>2, <4>1, <4>2 DEF Holds, Writing
      <4>3. CASE Find(h) /\ item[p] = "here"
        BY <4>3 DEF Find, store
      <4> QED
        BY <1>3, <3>1, <4>1, <4>2, <4>3, HoldsOn
    <3> QED
      BY <3>1, <3>2, <3>3, <3>4, <3>5 DEF Own, Idle, Writing
  <2> QED
    BY <2>1, <2>3, <2>4 DEF HeldInv
<1> QED
  BY <1>1, <1>2, <1>3 DEF Next, Moves

(* The stamp of get_project, and every other write of an item without a    *)
(* condition, makes no item of its own, when deletions keep apart from it. *)
THEOREM NoGhostCorrect == Spec /\ DeletesApart => []NoGhost
<1> DEFINE A == \A h \in Handlers : DeleteItem(h) => \A g \in Handlers : ~Holds(g, job[h].at)
           I == DeleteInv /\ UsedInv /\ HeldInv /\ NoGhost
<1>1. Init => I
  <2> SUFFICES ASSUME Init PROVE I
    OBVIOUS
  <2>1. \A h \in Handlers : job[h].op = "idle" /\ job[h].why = "none"
    BY DEF Init, NoJob, Begins
  <2>2. \A p \in Projects : item[p] = "free" /\ sim[p] = NoResults
    BY DEF Init
  <2> QED
    BY <2>1, <2>2 DEF DeleteInv, UsedInv, Idle, HeldInv, Holds, NoGhost
<1>2. TypeOK /\ TypeOK' /\ I /\ [Next]_vars /\ [A]_vars => I'
  <2> SUFFICES ASSUME TypeOK, TypeOK', I, [Next]_vars, [A]_vars PROVE I'
    OBVIOUS
  <2>1. UsedInv' /\ DeleteInv'
    BY UsedKept
  <2>2. HeldInv' /\ NoGhost'
    <3>1. CASE A
      BY <3>1, HeldKept
    <3>2. CASE UNCHANGED vars
      BY <3>2 DEF vars, store, HeldInv, NoGhost, Holds
    <3> QED
      BY <3>1, <3>2
  <2> QED
    BY <2>1, <2>2
<1>3. DeletesApart <=> [][A]_vars
  BY DEF DeletesApart
<1>4. I => NoGhost
  OBVIOUS
<1> HIDE DEF A, I
<1> QED
  BY <1>1, <1>2, <1>3, <1>4, TypeCorrect, PTL DEF Spec
================================================================================

----------------------------- MODULE ProjectStore -----------------------------
(***************************************************************************)
(* A project is an item of a table and the objects in S3 that belong to    *)
(* it: up to four objects of results, the text of its documentation and    *)
(* the images in it.  No transaction spans the two.  Each handler of       *)
(* projects/main.py reads the item, works on S3 and writes the item back,  *)
(* while other handlers do the same, and may die after any of its steps.   *)
(***************************************************************************)
EXTENDS Naturals, FiniteSets

CONSTANTS
  Projects, Types, Images,   \* Types: the kinds of results stored in S3
  Handlers,                  \* requests that run at once, a bound
  Text,                      \* the documentation's text
  None,                      \* no project
  MaxRequests                \* a bound; a save is numbered by its request

Things == Types \cup Images \cup {Text}

ASSUME StoreAssumption ==
  /\ Text \notin Types \cup Images /\ Types \cap Images = {}
  /\ MaxRequests \in Nat \ {0} /\ None \notin Projects

VARIABLES
  item,      \* of a project: free (an id not used yet), here, gone, or ghost:
             \* an item created by an update of one that was gone
  sim,       \* the results in the item: which save wrote them, and result_keys
  listed,    \* the item's image_keys
  object,    \* S3: which save wrote an object, 0 when there is none
  urls,      \* uploads of an image that the browser may still make
  begun,     \* requests so far
  job,
  torn,      \* projects with a save, a copy or a deletion that goes on, was cut
             \* short, or overlapped another one
  crossed,   \* projects on whose list of images two updates overlapped, and
             \* copies that are not finished or were disturbed
  loose      \* objects stored behind a deletion, or that one failed to delete

store == <<item, sim, listed, object, urls>>
history == <<torn, crossed, loose>>
vars == <<store, begun, job, history>>

NoResults == [ver |-> 0, keys |-> {}]
Begins(p, why, op) ==
  [op |-> op, why |-> why, at |-> p, src |-> p, ver |-> 0, keys |-> {}, todo |-> {}, seen |-> {},
   img |-> Text, clean |-> TRUE]
NoJob == Begins(None, "none", "idle")

Init ==
  /\ item = [p \in Projects |-> "free"] /\ sim = [p \in Projects |-> NoResults]
  /\ listed = [p \in Projects |-> {}] /\ object = [p \in Projects |-> [x \in Things |-> 0]]
  /\ urls = {} /\ begun = 0 /\ job = [h \in Handlers |-> NoJob]
  /\ torn = {} /\ crossed = {} /\ loose = {}

Idle(h) == job[h].op = "idle"
Request(h) == Idle(h) /\ begun < MaxRequests /\ begun' = begun + 1
At(h, why, op) == job[h].why = why /\ job[h].op = op
Becomes(h, j) == job' = [job EXCEPT ![h] = j]
Goes(h, op) == Becomes(h, [job[h] EXCEPT !.op = op])

\* A handler that changes the results of p, or is about to.
Changes(p) == \E g \in Handlers : job[g].why \in {"save", "copy", "delete"} /\ job[g].at = p
Settled(p) == p \notin torn /\ ~Changes(p)

\* Handler h begins to change p: no handler that works on p is undisturbed.
Disturbs(h, p, j) ==
  job' = [g \in Handlers |-> IF g = h THEN j
          ELSE IF p \in {job[g].at, job[g].src} THEN [job[g] EXCEPT !.clean = FALSE]
          ELSE job[g]]

Closing(p) == \E g \in Handlers : job[g].why = "delete" /\ job[g].at = p
PutObject(p, x, ver) ==
  /\ object' = [object EXCEPT ![p][x] = ver]
  /\ loose' = IF item[p] # "here" \/ Closing(p) THEN loose \cup {<<p, x>>} ELSE loose

\* update_item makes an item where none is; it has no key by which to find it.
WriteItem(p) == item' = [item EXCEPT ![p] = IF @ = "here" THEN "here" ELSE "ghost"]
--------------------------------------------------------------------------------
(* create_project and update_project.                                      *)

\* The job of a save: the objects first, then the item.
SaveJob(p, keys) ==
  [Begins(p, "save", "store") EXCEPT !.ver = begun + 1, !.keys = keys, !.todo = keys,
                                        !.clean = ~Changes(p)]

Create(h, p) ==
  /\ Request(h) /\ item[p] = "free"
  /\ item' = [item EXCEPT ![p] = "here"]
  /\ UNCHANGED <<sim, listed, object, urls, job, history>>

CreateWith(h, p, keys) ==
  /\ Request(h) /\ item[p] = "free"
  /\ item' = [item EXCEPT ![p] = "here"]
  /\ torn' = torn \cup {p}
  /\ Disturbs(h, p, SaveJob(p, keys))
  /\ UNCHANGED <<sim, listed, object, urls, crossed, loose>>

Save(h, p, keys) ==
  /\ Request(h) /\ item[p] = "here"
  /\ torn' = torn \cup {p}
  /\ Disturbs(h, p, SaveJob(p, keys))
  /\ UNCHANGED <<item, sim, listed, object, urls, crossed, loose>>

\* An update that carries no results.
Edit(h, p) ==
  /\ Request(h) /\ item[p] = "here"
  /\ Becomes(h, Begins(p, "edit", "find"))
  /\ UNCHANGED <<store, history>>

\* reset_project_to_source: of a copy p to its source s.
Reset(h, p, s) ==
  /\ Request(h) /\ item[p] = "here" /\ s # p /\ item[s] = "here"
  /\ Becomes(h, [Begins(p, "reset", "find") EXCEPT !.src = s])
  /\ UNCHANGED <<store, history>>

\* extract_and_store, one type of results after the other.
StoreResult(h, t) ==
  /\ At(h, "save", "store") /\ t \in job[h].todo
  /\ PutObject(job[h].at, t, job[h].ver)
  /\ Becomes(h, [job[h] EXCEPT !.todo = @ \ {t}])
  /\ UNCHANGED <<item, sim, listed, urls, begun, torn, crossed>>

\* The repository reads the item once more, and fails when it is not there.
Find(h) ==
  /\ job[h].op = "find" \/ (At(h, "save", "store") /\ job[h].todo = {})
  /\ IF item[job[h].at] = "here" THEN Goes(h, "write") ELSE Becomes(h, NoJob)
  /\ UNCHANGED <<store, begun, history>>

\* A save that nothing disturbed makes the results whole.
Mended(h) == IF job[h].clean THEN torn \ {job[h].at} ELSE torn

\* mutant: what the item named before stays named
WriteMerged(h) ==
  /\ job[h].why \in {"save", "edit", "reset"} /\ job[h].op = "write"
  /\ WriteItem(job[h].at)
  /\ sim' = CASE job[h].why = "save" ->
                   [sim EXCEPT ![job[h].at] = [ver |-> job[h].ver, keys |-> @.keys \cup job[h].keys]]
             [] job[h].why = "reset" -> [sim EXCEPT ![job[h].at] = NoResults]
             [] job[h].why = "edit" -> sim
  /\ torn' = IF job[h].why = "save" THEN Mended(h) ELSE torn
  /\ IF job[h].why = "reset" THEN Goes(h, "text") ELSE Becomes(h, NoJob)
  /\ UNCHANGED <<listed, object, urls, begun, crossed, loose>>

Write(h) ==
  /\ job[h].why \in {"save", "edit", "reset"} /\ job[h].op = "write"
  /\ WriteItem(job[h].at)
  /\ sim' = CASE job[h].why = "save" ->
                   [sim EXCEPT ![job[h].at] = [ver |-> job[h].ver, keys |-> job[h].keys]]
             [] job[h].why = "reset" -> [sim EXCEPT ![job[h].at] = NoResults]
             [] job[h].why = "edit" -> sim
  /\ torn' = IF job[h].why = "save" THEN Mended(h) ELSE torn
  /\ IF job[h].why = "reset" THEN Goes(h, "text") ELSE Becomes(h, NoJob)
  /\ UNCHANGED <<listed, object, urls, begun, crossed, loose>>

\* The text of the source follows, if there is one.
ResetText(h) ==
  /\ At(h, "reset", "text")
  /\ IF object[job[h].src][Text] = 0 THEN UNCHANGED <<object, loose>>
     ELSE PutObject(job[h].at, Text, 1)
  /\ Becomes(h, NoJob)
  /\ UNCHANGED <<item, sim, listed, urls, begun, torn, crossed>>
--------------------------------------------------------------------------------
(* get_project: the item is read, stamped, and filled from S3.             *)

OpenRead(h, p) ==
  /\ Request(h) /\ item[p] = "here"
  /\ Becomes(h, [Begins(p, "open", "stamp") EXCEPT
                   !.ver = sim[p].ver, !.keys = sim[p].keys, !.clean = Settled(p)])
  /\ UNCHANGED <<store, history>>

\* mutant: every type is fetched, named or not
StampAll(h) ==
  /\ At(h, "open", "stamp")
  /\ WriteItem(job[h].at)
  /\ Becomes(h, [job[h] EXCEPT !.op = "load", !.todo = Types])
  /\ UNCHANGED <<sim, listed, object, urls, begun, history>>

Stamp(h) ==
  /\ At(h, "open", "stamp")
  /\ WriteItem(job[h].at)
  /\ Becomes(h, [job[h] EXCEPT !.op = "load", !.todo = job[h].keys])
  /\ UNCHANGED <<sim, listed, object, urls, begun, history>>

\* hydrate_results, one type after the other; the saves met are collected.
Load(h, t) ==
  /\ At(h, "open", "load") /\ t \in job[h].todo
  /\ Becomes(h, [job[h] EXCEPT !.todo = @ \ {t}, !.seen = @ \cup {object[job[h].at][t]}])
  /\ UNCHANGED <<store, begun, history>>

Opened(h) ==
  /\ At(h, "open", "load") /\ job[h].todo = {}
  /\ Becomes(h, NoJob)
  /\ UNCHANGED <<store, begun, history>>
--------------------------------------------------------------------------------
(* delete_project: S3 first, then the item.                                *)

Delete(h, p) ==
  /\ Request(h) /\ item[p] = "here"
  /\ torn' = torn \cup {p}
  /\ Disturbs(h, p, Begins(p, "delete", "results"))
  /\ UNCHANGED <<store, crossed, loose>>

\* The objects of p under a prefix go, or S3 fails and the handler goes on.
Wipes(p, xs) ==
  \/ /\ object' = [object EXCEPT ![p] = [x \in Things |-> IF x \in xs THEN 0 ELSE @[x]]]
     /\ loose' = loose \ ({p} \X xs)
  \/ /\ UNCHANGED object
     /\ loose' = loose \cup {<<p, x>> : x \in {x \in xs : object[p][x] # 0}}

WipeResults(h) ==
  /\ At(h, "delete", "results")
  /\ Wipes(job[h].at, Types)
  /\ Goes(h, "docs")
  /\ UNCHANGED <<item, sim, listed, urls, begun, torn, crossed>>

\* mutant: only the text goes
WipeText(h) ==
  /\ At(h, "delete", "docs")
  /\ Wipes(job[h].at, {Text})
  /\ Goes(h, "item")
  /\ UNCHANGED <<item, sim, listed, urls, begun, torn, crossed>>

WipeDocs(h) ==
  /\ At(h, "delete", "docs")
  /\ Wipes(job[h].at, Images \cup {Text})
  /\ Goes(h, "item")
  /\ UNCHANGED <<item, sim, listed, urls, begun, torn, crossed>>

DeleteItem(h) ==
  /\ At(h, "delete", "item")
  /\ item' = [item EXCEPT ![job[h].at] = IF @ = "here" THEN "gone" ELSE @]
  /\ Becomes(h, NoJob)
  /\ UNCHANGED <<sim, listed, object, urls, begun, history>>
--------------------------------------------------------------------------------
(* The documentation: save_documentation, upload_image, delete_image.      *)

Docs == {"text", "upload", "unlist"}
\* A handler that will write the list of images of p from what it read.
Lists(p) == \E g \in Handlers : job[g].why \in Docs \cup {"copy"} /\ job[g].at = p

DocRead(h, p, why, i) ==
  /\ Request(h) /\ item[p] = "here" /\ why \in Docs
  /\ CASE why = "text" -> i = Text
       [] why = "upload" -> i \in Images /\ \A q \in Projects : i \notin listed[q] /\ <<q, i>> \notin urls
       [] why = "unlist" -> i \in listed[p]
  /\ job' = [g \in Handlers |->
       IF g = h THEN [Begins(p, why, IF why = "upload" THEN "find" ELSE "s3") EXCEPT
                        !.seen = listed[p], !.img = i]
       ELSE IF job[g].why = "copy" /\ job[g].at = p THEN [job[g] EXCEPT !.clean = FALSE]
       ELSE job[g]]
  /\ crossed' = IF Lists(p) \/ <<p, i>> \in urls THEN crossed \cup {p} ELSE crossed
  /\ UNCHANGED <<store, torn, loose>>

\* save_content puts the text, delete_image removes the image.
DocObject(h) ==
  /\ job[h].why \in Docs /\ job[h].op = "s3"
  /\ IF job[h].why = "text" THEN PutObject(job[h].at, Text, 1)
     ELSE /\ object' = [object EXCEPT ![job[h].at][job[h].img] = 0]
          /\ loose' = loose \ {<<job[h].at, job[h].img>>}
  /\ Goes(h, "find")
  /\ UNCHANGED <<item, sim, listed, urls, begun, torn, crossed>>

\* mutant: the text's metadata are written without the images
NewListEmpty(h) ==
  CASE job[h].why = "text" -> {}
    [] job[h].why = "upload" -> job[h].seen \cup {job[h].img}
    [] job[h].why = "unlist" -> job[h].seen \ {job[h].img}

\* mutant: the text is put in the list as well
NewListText(h) ==
  IF job[h].why = "unlist" THEN job[h].seen \ {job[h].img} ELSE job[h].seen \cup {job[h].img}

NewList(h) ==
  CASE job[h].why = "text" -> job[h].seen
    [] job[h].why = "upload" -> job[h].seen \cup {job[h].img}
    [] job[h].why = "unlist" -> job[h].seen \ {job[h].img}

DocWrite(h) ==
  /\ job[h].why \in Docs /\ job[h].op = "write"
  /\ WriteItem(job[h].at)
  /\ listed' = [listed EXCEPT ![job[h].at] = NewList(h)]
  /\ urls' = IF job[h].why = "upload" THEN urls \cup {<<job[h].at, job[h].img>>} ELSE urls
  /\ Becomes(h, NoJob)
  /\ UNCHANGED <<sim, object, begun, history>>

\* The browser puts the image under the URL it was given, however late.
PutImage(p, i) ==
  /\ <<p, i>> \in urls
  /\ urls' = urls \ {<<p, i>>}
  /\ PutObject(p, i, 1)
  /\ UNCHANGED <<item, sim, listed, begun, job, torn, crossed>>
--------------------------------------------------------------------------------
(* duplicate_project: _deep_copy_project of p as q.                        *)

CopyStart(h, p, q) ==
  /\ Request(h) /\ item[p] = "here" /\ item[q] = "free"
  /\ item' = [item EXCEPT ![q] = "here"]
  /\ torn' = torn \cup {q} /\ crossed' = crossed \cup {q}
  /\ Becomes(h, [Begins(q, "copy", "blobs") EXCEPT !.src = p, !.ver = sim[p].ver,
                   !.keys = sim[p].keys, !.seen = listed[p], !.clean = Settled(p)])
  /\ UNCHANGED <<sim, listed, object, urls, loose>>

\* The copy's item names the objects of the original until its own are there.
CopyBlobs(h) ==
  /\ At(h, "copy", "blobs")
  /\ WriteItem(job[h].at)
  /\ sim' = [sim EXCEPT ![job[h].at] = [ver |-> job[h].ver, keys |-> job[h].keys]]
  /\ Becomes(h, [job[h] EXCEPT !.op = "objects", !.todo = @ \cup job[h].keys, !.keys = {}])
  /\ UNCHANGED <<listed, object, urls, begun, history>>

\* duplicate_results: data that is not found is skipped.
CopyObject(h, t) ==
  /\ At(h, "copy", "objects") /\ t \in job[h].todo
  /\ LET found == object[job[h].src][t] IN
       IF found = 0 THEN /\ Becomes(h, [job[h] EXCEPT !.todo = @ \ {t}])
                         /\ UNCHANGED <<object, loose>>
       ELSE /\ PutObject(job[h].at, t, found)
            /\ Becomes(h, [job[h] EXCEPT !.todo = @ \ {t}, !.keys = @ \cup {t}])
  /\ UNCHANGED <<item, sim, listed, urls, begun, torn, crossed>>

CopyKeys(h) ==
  /\ At(h, "copy", "objects") /\ job[h].todo = {}
  /\ IF job[h].keys = {} THEN UNCHANGED <<item, sim>>
     ELSE /\ WriteItem(job[h].at)
          /\ sim' = [sim EXCEPT ![job[h].at] = [ver |-> job[h].ver, keys |-> job[h].keys]]
  /\ torn' = Mended(h)
  /\ Goes(h, "text")
  /\ UNCHANGED <<listed, object, urls, begun, crossed, loose>>

\* A failure of S3 while the results are copied is only logged.
CopyFails(h) ==
  /\ At(h, "copy", "objects")
  /\ Goes(h, "text")
  /\ UNCHANGED <<store, begun, history>>

Uncrossed(h) == IF job[h].clean THEN crossed \ {job[h].at} ELSE crossed

\* Without a text nothing of the documentation is copied.
CopyText(h) ==
  /\ At(h, "copy", "text")
  /\ IF object[job[h].src][Text] = 0
     THEN /\ Becomes(h, NoJob) /\ crossed' = Uncrossed(h)
          /\ UNCHANGED <<object, loose>>
     ELSE /\ PutObject(job[h].at, Text, 1) /\ UNCHANGED crossed
          /\ Becomes(h, [job[h] EXCEPT !.op = "images", !.todo = job[h].seen, !.seen = {}])
  /\ UNCHANGED <<item, sim, listed, urls, begun, torn>>

\* duplicate_images: an image that is not there or not copied is skipped.
CopyImage(h, i) ==
  /\ At(h, "copy", "images") /\ i \in job[h].todo
  /\ \/ /\ Becomes(h, [job[h] EXCEPT !.todo = @ \ {i}])
        /\ UNCHANGED <<object, loose>>
     \/ /\ object[job[h].src][i] # 0
        /\ PutObject(job[h].at, i, 1)
        /\ Becomes(h, [job[h] EXCEPT !.todo = @ \ {i}, !.seen = @ \cup {i}])
  /\ UNCHANGED <<item, sim, listed, urls, begun, torn, crossed>>

CopyList(h) ==
  /\ At(h, "copy", "images") /\ job[h].todo = {} /\ item[job[h].at] = "here"
  /\ listed' = [listed EXCEPT ![job[h].at] = job[h].seen]
  /\ crossed' = Uncrossed(h)
  /\ Becomes(h, NoJob)
  /\ UNCHANGED <<item, sim, object, urls, begun, torn, loose>>
--------------------------------------------------------------------------------
\* The instance dies, or the request fails and answers with an error.
Dies(h) ==
  /\ ~Idle(h)
  /\ Becomes(h, NoJob)
  /\ UNCHANGED <<store, begun, history>>

SaveSteps(h) ==
  \/ \E p \in Projects : Create(h, p)
  \/ \E p \in Projects, keys \in SUBSET Types : CreateWith(h, p, keys) \/ Save(h, p, keys)
  \/ \E p \in Projects : Edit(h, p)
  \/ \E p, s \in Projects : Reset(h, p, s)
  \/ \E t \in Types : StoreResult(h, t)
  \/ Find(h) \/ Write(h) \/ ResetText(h)

OpenSteps(h) ==
  \/ \E p \in Projects : OpenRead(h, p)
  \/ \E t \in Types : Load(h, t)
  \/ Stamp(h) \/ Opened(h)

DeleteSteps(h) ==
  \/ \E p \in Projects : Delete(h, p)
  \/ WipeResults(h) \/ WipeDocs(h) \/ DeleteItem(h)

DocSteps(h) ==
  \/ \E p \in Projects, why \in Docs, i \in Images \cup {Text} : DocRead(h, p, why, i)
  \/ DocObject(h) \/ DocWrite(h)

CopySteps(h) ==
  \/ \E p, q \in Projects : CopyStart(h, p, q)
  \/ \E t \in Types : CopyObject(h, t)
  \/ \E i \in Images : CopyImage(h, i)
  \/ CopyBlobs(h) \/ CopyKeys(h) \/ CopyFails(h) \/ CopyText(h) \/ CopyList(h)

Next ==
  \/ \E h \in Handlers :
       SaveSteps(h) \/ OpenSteps(h) \/ DeleteSteps(h) \/ DocSteps(h) \/ CopySteps(h) \/ Dies(h)
  \/ \E p \in Projects, i \in Images : PutImage(p, i)

Spec == Init /\ [][Next]_vars
--------------------------------------------------------------------------------
Versions == 0 .. MaxRequests
Jobs == [op : {"idle", "store", "find", "write", "stamp", "load", "results", "docs", "item",
               "s3", "blobs", "objects", "text", "images"},
         why : {"none", "save", "edit", "reset", "open", "delete", "copy"} \cup Docs,
         at : Projects \cup {None}, src : Projects \cup {None}, ver : Versions, keys : SUBSET Types,
         todo : SUBSET (Types \cup Images), seen : SUBSET (Images \cup Versions),
         img : Images \cup {Text}, clean : BOOLEAN]

\* What the job of a request holds fits what the request does.
ItFits(j) ==
  /\ j.op # "idle" => j.at \in Projects /\ j.src \in Projects
  /\ j.why \in {"upload", "unlist"} => j.img \in Images
  /\ j.why \in Docs \cup {"copy"} => j.seen \subseteq Images
  /\ j.op \in {"store", "load", "blobs", "objects"} => j.todo \subseteq Types
  /\ j.op = "images" => j.todo \subseteq Images

TypeOK ==
  /\ item \in [Projects -> {"free", "here", "gone", "ghost"}]
  /\ sim \in [Projects -> [ver : Versions, keys : SUBSET Types]]
  /\ listed \in [Projects -> SUBSET Images]
  /\ object \in [Projects -> [Things -> Versions]]
  /\ urls \subseteq Projects \X Images /\ begun \in Versions
  /\ job \in [Handlers -> Jobs] /\ \A h \in Handlers : ItFits(job[h])
  /\ torn \subseteq Projects /\ crossed \subseteq Projects /\ loose \subseteq Projects \X Things

\* What the item names as its results is in S3 and of the save that wrote the
\* item, unless a save, a copy or a deletion overlapped another or was cut
\* short and no undisturbed save followed.
OneSave ==
  \A p \in Projects : item[p] = "here" /\ p \notin torn =>
    \A t \in sim[p].keys : object[p][t] = sim[p].ver

\* A project that is opened while nobody saves, copies over or deletes it is of one
\* save, unless a save, a copy or a deletion had overlapped another or was cut short
\* before (a save dies between the objects and the item) and no undisturbed save
\* followed.
OpenedWhole == \A h \in Handlers : job[h].why = "open" /\ job[h].clean => job[h].seen \subseteq {job[h].ver}

\* A deleted project leaves nothing in S3 but what was stored behind its
\* deletion or what S3 refused to delete.
NothingLeft ==
  \A p \in Projects, x \in Things :
    item[p] \in {"gone", "ghost"} /\ object[p][x] # 0 => <<p, x>> \in loose

\* An image in S3 is in the list from which it is copied, unless two updates of
\* the list overlapped, or the project is a copy that was cut short before its
\* list was written, or one whose original was torn or changed while it was made.
ImagesListed ==
  \A p \in Projects \ crossed, i \in Images :
    item[p] = "here" /\ object[p][i] # 0 => i \in listed[p]

\* What the code does not promise: each image in S3 can be found, without those
\* exceptions (an upload, main.py:562, beside another, or beside a saved text).
EveryImageListed ==
  \A p \in Projects, i \in Images :
    item[p] = "here" /\ object[p][i] # 0 => i \in listed[p]

\* What the code does not promise: no update makes an item of its own.
NoGhost == \A p \in Projects : item[p] # "ghost"

\* A handler that has read the item of p, or made it, and will write it without
\* reading it again: the stamp of get_project (main.py:296) is one of four.
Holds(g, p) == job[g].at = p /\ job[g].op \in {"write", "stamp", "blobs", "objects"}

\* No item is deleted between another handler's reading and its writing.
DeletesApart ==
  [][\A h \in Handlers : DeleteItem(h) => \A g \in Handlers : ~Holds(g, job[h].at)]_vars

\* What such a handler will write is then still there.
HeldInv == \A g \in Handlers, p \in Projects : Holds(g, p) => item[p] = "here"
================================================================================

----------------------------- MODULE AutoSave_proofs -----------------------------
(* Proofs about AutoSave: its types, that the design of one project is     *)
(* stored as another's only after a page has shown the wrong one, and what *)
(* it takes for a change not to reach the server or to go from it again.   *)
EXTENDS AutoSave, TLAPS

LEMMA DesignType ==
  /\ \A d \in Designs : d # Nothing => d \in Design
  /\ \A d \in Designs : d.of # None => d \in Design
  /\ \A d \in Design : d.of \in Projects /\ d.of # None /\ d.has \in SUBSET Changes
  /\ \A p \in Projects : Fresh(p) \in Design
BY SaveAssumption DEF Designs, Design, Nothing, Fresh

LEMMA SchedulesType ==
  ASSUME TypeOK, NEW g \in Pages, NEW design \in Design, NEW try \in 0 .. MaxRetries,
         Schedules(g, design, try)
  PROVE  /\ pending' \in [Pages -> [design : Designs, try : 0 .. MaxRetries]]
         /\ pending'[g].design = design
         /\ \A k \in Pages : k # g => pending'[k] = pending[k]
<1>1. [design |-> design, try |-> try] \in [design : Designs, try : 0 .. MaxRetries]
  BY DEF Designs
<1> QED
  BY <1>1 DEF Schedules, TypeOK

LEMMA CountedType ==
  ASSUME TypeOK, NEW long \in BOOLEAN, Counted(long)
  PROVE  /\ pending' \in [Pages -> [design : Designs, try : 0 .. MaxRetries]]
         /\ \A g \in Pages : pending'[g] = pending[g] \/ (cancels /\ g = pages /\ ~Waits(g)')
         /\ \A g \in Pages : Waits(g)' => g <= pages /\ pending'[g].design \in Design
         /\ cancels' \in BOOLEAN /\ (cancels' => cancels)
<1>1. NoCall \in [design : Designs, try : 0 .. MaxRetries]
  BY SaveAssumption DEF NoCall, Designs
<1>2. pending' \in [Pages -> [design : Designs, try : 0 .. MaxRetries]]
  BY <1>1 DEF Counted, TypeOK
<1>3. \A g \in Pages : pending'[g] = pending[g] \/ (cancels /\ g = pages /\ ~Waits(g)')
  BY DEF Counted, TypeOK, Waits, NoCall
<1> QED
  BY <1>2, <1>3 DEF Counted, TypeOK, Waits

(* Every variable keeps its type; in particular a save is retried at most  *)
(* MAX_RETRIES times (saveProjectDebounced).                               *)
THEOREM TypeCorrect == Spec => []TypeOK
<1>1. Init => TypeOK
  <2> SUFFICES ASSUME Init PROVE TypeOK
    OBVIOUS
  <2>1. NoCall \in [design : Designs, try : 0 .. MaxRetries]
    BY SaveAssumption DEF NoCall, Designs
  <2>2. \A g \in Pages : ~Waits(g) /\ ~(g <= pages) /\ bound[g] = None
    BY DEF Init, Waits, Pages
  <2>3. server \in [Projects -> Design]
    BY DesignType DEF Init
  <2>4. /\ url = None /\ pages = 0 /\ changes = 0 /\ retries = {} /\ flying = {} /\ fetching = {}
        /\ slice \in Designs /\ current = [id |-> None, design |-> Nothing]
        /\ pending \in [Pages -> [design : Designs, try : 0 .. MaxRetries]]
        /\ bound \in [Pages -> Projects \cup {None}] /\ loading = TRUE /\ settling = FALSE
        /\ cancels = FALSE /\ slips = {}
    BY <2>1 DEF Init, Designs
  <2>5. pages \in 0 .. MaxPages /\ changes \in 0 .. MaxChanges
    BY SaveAssumption, <2>4
  <2>6. current \in [id : Projects, design : Design] \cup {[id |-> None, design |-> Nothing]}
    BY <2>4
  <2> QED
    BY <2>2, <2>3, <2>4, <2>5, <2>6 DEF TypeOK
<1>2. TypeOK /\ [Next]_vars => TypeOK'
  <2> SUFFICES ASSUME TypeOK, [Next]_vars PROVE TypeOK'
    OBVIOUS
  <2> USE SaveAssumption
  <2>1. ASSUME NEW p \in Projects, Open(p) PROVE TypeOK'
    <3>1. pages \in 0 .. MaxPages /\ pages' = pages + 1 /\ pages' \in Pages
      BY <2>1 DEF Open, TypeOK, Pages
    <3>2. bound' \in [Pages -> Projects \cup {None}] /\ \A g \in Pages : bound'[g] # None <=> g <= pages'
      BY <2>1, <3>1 DEF Open, TypeOK, Pages
    <3>3. slice' \in Designs
      BY <2>1 DEF Open, TypeOK, Designs
    <3>4. fetching' \subseteq [id : Projects, got : Designs]
      BY <2>1 DEF Open, TypeOK, Designs
    <3>5. /\ \A g \in Pages : Waits(g)' => g <= pages' /\ pending'[g].design \in Design
          /\ \A r \in (retries \cup flying)' : r.page <= pages'
      BY <2>1, <3>1 DEF Open, TypeOK, Waits, Pages, Calls
    <3>6. slips' \subseteq Projects \X Reasons
      BY <2>1 DEF Open, TypeOK, Slip, Reasons
    <3> QED
      <4>1. /\ url' \in Projects /\ (settling' => url' # None) /\ settling' \in BOOLEAN
            /\ loading' \in BOOLEAN /\ cancels' \in BOOLEAN
            /\ UNCHANGED <<pending, retries, flying, server, current, changes>>
        BY <2>1 DEF Open
      <4>2. pages' \in 0 .. MaxPages
        BY <3>1 DEF Pages
      <4> QED
        BY <3>1, <3>2, <3>3, <3>4, <3>5, <3>6, <4>1, <4>2 DEF TypeOK
  <2>2. ASSUME NEW p \in Projects, Switch(p) PROVE TypeOK'
    <3>1. bound[pages] \in Projects
      BY <2>2 DEF Switch, TypeOK
    <3>2. fetching' \subseteq [id : Projects, got : Designs]
      BY <2>2 DEF Switch, TypeOK, Designs
    <3> QED
      BY <2>2, <3>1, <3>2 DEF Switch, TypeOK, Slip, Reasons, Waits
  <2>3. CASE Leave
    <3>1. bound[pages] \in Projects /\ pages \in Pages
      BY <2>3 DEF Leave, TypeOK
    <3>2. pending' \in [Pages -> [design : Designs, try : 0 .. MaxRetries]]
      BY <2>3 DEF Leave, TypeOK, NoCall, Designs
    <3>3. \A g \in Pages : Waits(g)' => Waits(g) /\ pending'[g] = pending[g]
      BY <2>3, <3>1 DEF Leave, TypeOK, Waits, NoCall
    <3>4. slips' \subseteq Projects \X Reasons
      BY <2>3, <3>1 DEF Leave, TypeOK, Slip, Reasons
    <3> QED
      BY <2>3, <3>2, <3>3, <3>4 DEF Leave, TypeOK
  <2>4. CASE Settle
    <3>1. bound[pages] \in Projects
      BY <2>4 DEF Settle, TypeOK
    <3>2. slips' \subseteq Projects \X Reasons
      BY <2>4, <3>1 DEF Settle, TypeOK, Slip, Reasons
    <3> QED
      BY <2>4, <3>2 DEF Settle, TypeOK, Waits
  <2>5. CASE Change
    <3>1. pages \in Pages /\ bound[pages] \in Projects /\ pages <= pages
      BY <2>5 DEF Change, TypeOK, Pages
    <3>2. slice \in Design /\ changes' \in Changes /\ changes' \in 0 .. MaxChanges
      BY <2>5, DesignType DEF Change, TypeOK, Changes
    <3>3. slice' \in Design
      BY <2>5, <3>2 DEF Change, Design
    <3>4. slice' \in Designs
      BY <3>3 DEF Designs
    <3>5. CASE loading
      <4>1. PICK long \in BOOLEAN : Slip(bound[pages], "lapse") /\ Counted(long)
        BY <2>5, <3>5 DEF Change
      <4>2. slips' \subseteq Projects \X Reasons
        BY <3>1, <4>1 DEF TypeOK, Slip, Reasons
      <4> QED
        BY <2>5, <3>2, <3>4, <4>1, <4>2, CountedType DEF Change, TypeOK
    <3>6. CASE ~loading
      <4>1. Schedules(pages, slice', 0) /\ UNCHANGED slips /\ cancels' \in BOOLEAN
        BY <2>5, <3>6 DEF Change, TypeOK
      <4>2. /\ pending' \in [Pages -> [design : Designs, try : 0 .. MaxRetries]]
            /\ pending'[pages].design = slice'
            /\ \A k \in Pages : k # pages => pending'[k] = pending[k]
        BY <3>1, <3>3, <4>1, SchedulesType
      <4>3. \A g \in Pages : Waits(g)' => g <= pages' /\ pending'[g].design \in Design
        BY <2>5, <3>1, <3>3, <4>2 DEF Change, TypeOK, Waits, NoCall
      <4> QED
        BY <2>5, <3>2, <3>4, <4>1, <4>2, <4>3 DEF Change, TypeOK
    <3> QED
      BY <3>5, <3>6
  <2>6. ASSUME NEW f \in fetching, FetchRead(f) \/ FetchFails(f) PROVE TypeOK'
    <3>1. fetching' \subseteq [id : Projects, got : Designs]
      BY <2>6 DEF FetchRead, FetchFails, TypeOK, Designs
    <3> QED
      BY <2>6, <3>1 DEF FetchRead, FetchFails, TypeOK, Waits
  <2>7. ASSUME NEW f \in fetching, Fetched(f) PROVE TypeOK'
    <3>1. f.id \in Projects /\ f.got \in Design /\ f.got \in Designs
      BY <2>7, DesignType DEF Fetched, TypeOK
    <3>2. /\ fetching' \subseteq [id : Projects, got : Designs]
          /\ current' \in [id : Projects, design : Design]
          /\ UNCHANGED <<url, pages, bound, retries, flying, server, loading, changes>>
      BY <2>7, <3>1 DEF Fetched, TypeOK
    <3>3. url # None => bound[pages] \in Projects /\ pages \in Pages /\ pages <= pages
      BY DEF TypeOK, Pages
    <3>4. slips' \subseteq Projects \X Reasons
      BY <2>7, <3>1, <3>3 DEF Fetched, TypeOK, Reasons
    <3>5. slice' \in Designs /\ settling' \in BOOLEAN /\ (settling' => url # None)
      BY <2>7, <3>1 DEF Fetched, TypeOK
    <3>6. /\ pending' \in [Pages -> [design : Designs, try : 0 .. MaxRetries]]
          /\ \A g \in Pages : Waits(g)' => g <= pages /\ pending'[g].design \in Design
          /\ cancels' \in BOOLEAN
      <4>1. CASE UNCHANGED <<pending, cancels>>
        BY <4>1 DEF TypeOK, Waits
      <4>2. CASE Schedules(pages, f.got, 0) /\ url # None /\ cancels' \in BOOLEAN
        <5>1. /\ pending' \in [Pages -> [design : Designs, try : 0 .. MaxRetries]]
              /\ pending'[pages].design = f.got
              /\ \A k \in Pages : k # pages => pending'[k] = pending[k]
          BY <3>1, <3>3, <4>2, SchedulesType
        <5> QED
          BY <3>1, <3>3, <4>2, <5>1 DEF TypeOK, Waits, NoCall
      <4>3. CASE \E long \in BOOLEAN : Counted(long)
        BY <4>3, CountedType DEF TypeOK
      <4> QED
        BY <2>7, <4>1, <4>2, <4>3 DEF Fetched, TypeOK
    <3> QED
      BY <3>2, <3>4, <3>5, <3>6 DEF TypeOK
  <2>8. ASSUME NEW g \in Pages, Fire(g) PROVE TypeOK'
    <3>1. g <= pages /\ pending[g].design \in Design /\ pending[g].try \in 0 .. MaxRetries
          /\ bound[g] \in Projects
      BY <2>8 DEF Fire, TypeOK
    <3>2. /\ pending' \in [Pages -> [design : Designs, try : 0 .. MaxRetries]]
          /\ \A k \in Pages : Waits(k)' => Waits(k) /\ pending'[k] = pending[k]
      BY <2>8 DEF Fire, TypeOK, Waits, NoCall, Designs
    <3>3. slips' \subseteq Projects \X Reasons
      BY <2>8, <3>1 DEF Fire, TypeOK, Slip, Reasons
    <3>4. /\ flying' \subseteq [page : Pages, design : Design, try : 0 .. MaxRetries, stored : BOOLEAN]
          /\ \A r \in retries \cup flying' : r.page <= pages
      <4>1. PICK r : /\ r = [page |-> g, design |-> pending[g].design, try |-> pending[g].try,
                             stored |-> FALSE]
                     /\ flying' = flying \cup {r}
        BY <2>8 DEF Fire
      <4>2. /\ r \in [page : Pages, design : Design, try : 0 .. MaxRetries, stored : BOOLEAN]
            /\ r.page = g
        BY <3>1, <4>1
      <4> QED
        BY <3>1, <4>1, <4>2 DEF TypeOK
    <3> QED
      BY <2>8, <3>2, <3>3, <3>4 DEF Fire, TypeOK
  <2>9. ASSUME NEW r \in flying, Store(r) PROVE TypeOK'
    <3>1. /\ flying' \subseteq [page : Pages, design : Design, try : 0 .. MaxRetries, stored : BOOLEAN]
          /\ \A q \in retries \cup flying' : q.page <= pages
      BY <2>9 DEF Store, TypeOK
    <3>2. server' \in [Projects -> Design]
      BY <2>9 DEF Store, TypeOK
    <3> QED
      BY <2>9, <3>1, <3>2 DEF Store, TypeOK, Waits
  <2>10. ASSUME NEW r \in flying, Saved(r) PROVE TypeOK'
    <3>1. bound[r.page] \in Projects
      BY DEF TypeOK
    <3>2. current' \in [id : Projects, design : Design] \cup {[id |-> None, design |-> Nothing]}
      BY <2>10, <3>1 DEF Saved, TypeOK
    <3> QED
      BY <2>10, <3>2 DEF Saved, TypeOK, Waits
  <2>11. ASSUME NEW r \in flying, Fail(r) PROVE TypeOK'
    <3>1. bound[r.page] \in Projects
      BY DEF TypeOK
    <3>2. slips' \subseteq Projects \X Reasons
      BY <2>11, <3>1 DEF Fail, TypeOK, Slip, Reasons
    <3>3. retries' \subseteq Calls /\ \A q \in retries' \cup flying' : q.page <= pages
      BY <2>11 DEF Fail, TypeOK, Calls
    <3> QED
      BY <2>11, <3>2, <3>3 DEF Fail, TypeOK, Waits
  <2>12. ASSUME NEW r \in flying, Hangs(r) PROVE TypeOK'
    <3>1. bound[r.page] \in Projects
      BY DEF TypeOK
    <3>2. slips' \subseteq Projects \X Reasons
      BY <2>12, <3>1 DEF Hangs, TypeOK, Slip, Reasons
    <3> QED
      BY <2>12, <3>2 DEF Hangs, TypeOK, Waits
  <2>13. ASSUME NEW r \in retries, Retry(r) PROVE TypeOK'
    <3>1. r.page \in Pages /\ r.design \in Design /\ r.try \in 0 .. MaxRetries /\ r.page <= pages
          /\ bound[r.page] \in Projects
      BY DEF TypeOK, Calls
    <3>2. /\ pending' \in [Pages -> [design : Designs, try : 0 .. MaxRetries]]
          /\ pending'[r.page].design = r.design
          /\ \A k \in Pages : k # r.page => pending'[k] = pending[k]
      BY <2>13, <3>1, SchedulesType DEF Retry
    <3>3. \A g \in Pages : Waits(g)' => g <= pages /\ pending'[g].design \in Design
      BY <3>1, <3>2 DEF TypeOK, Waits, NoCall
    <3>4. slips' \subseteq Projects \X Reasons
      BY <2>13, <3>1 DEF Retry, TypeOK, Slip, Reasons
    <3> QED
      BY <2>13, <3>2, <3>3, <3>4 DEF Retry, TypeOK
  <2>14. CASE UNCHANGED vars
    BY <2>14 DEF vars, TypeOK, Waits
  <2> QED
    BY <2>1, <2>2, <2>3, <2>4, <2>5, <2>6, <2>7, <2>8, <2>9, <2>10, <2>11, <2>12, <2>13, <2>14 DEF Next
<1> QED
  BY <1>1, <1>2, PTL DEF Spec

-----------------------------------------------------------------------------
Foreign(p) == <<p, "foreign">> \in slips

(* Wherever a design travels, it is of the project it is kept for, until   *)
(* the page of that project has shown another one.                         *)
OwnInv ==
  /\ \A p \in Projects : ~Foreign(p) => server[p].of = p
  /\ \A g \in Pages : Waits(g) /\ ~Foreign(bound[g]) => pending[g].design.of = bound[g]
  /\ \A r \in retries \cup flying : ~Foreign(bound[r.page]) => r.design.of = bound[r.page]
  /\ \A f \in fetching : f.got # Nothing /\ ~Foreign(f.id) => f.got.of = f.id
  /\ current.id # None /\ ~Foreign(current.id) => current.design.of = current.id

(* A page shows the project of the store, and once it has stopped loading  *)
(* its own.                                                                *)
ShownInv ==
  url # None =>
    /\ ~Foreign(bound[pages]) => url = bound[pages]
    /\ current.id # None /\ ~Foreign(current.id) => slice.of = current.id
    /\ ~loading /\ ~Foreign(bound[pages]) => slice.of = bound[pages]

(* What belongs to no page, and a page that shows nothing, stay as they    *)
(* were.                                                                   *)
LEMMA ForeignStays == ASSUME Next PROVE \A p : Foreign(p) => Foreign(p)'
BY DEF Next, Open, Leave, Switch, Settle, Change, FetchRead, Fetched, FetchFails, Fire, Store,
       Saved, Fail, Hangs, Retry, Slip, Foreign, Counted

(* A save or a fetch of a project, and the timers, keep OwnInv.            *)
LEMMA OwnKept ==
  ASSUME TypeOK, OwnInv, ShownInv, Next
  PROVE  OwnInv'
<1> USE DEF OwnInv, Foreign
<1>1. \A p : Foreign(p) => Foreign(p)'
  BY ForeignStays
<1>2. ASSUME NEW p \in Projects, Open(p) PROVE OwnInv'
  <2>1. UNCHANGED <<pending, retries, flying, server, current>>
        /\ fetching' = fetching \cup {[id |-> p, got |-> Nothing]}
    BY <1>2 DEF Open
  <2>2. \A g \in Pages : g <= pages => bound'[g] = bound[g]
    BY <1>2 DEF Open, TypeOK, Pages
  <2>3. /\ \A g \in Pages : Waits(g) => bound'[g] = bound[g]
        /\ \A r \in retries \cup flying : bound'[r.page] = bound[r.page]
    BY <2>2 DEF TypeOK, Calls
  <2> QED
    BY <1>1, <2>1, <2>3 DEF Waits
<1>3. ASSUME NEW p \in Projects, Switch(p) PROVE OwnInv'
  BY <1>1, <1>3 DEF Switch, Waits
<1>4. CASE Leave
  <2>1. \A g \in Pages : Waits(g)' => Waits(g) /\ pending'[g] = pending[g]
    BY <1>4 DEF Leave, TypeOK, Waits, NoCall
  <2> QED
    BY <1>1, <1>4, <2>1 DEF Leave
<1>5. CASE Settle
  BY <1>1, <1>5 DEF Settle, Waits
<1>6. CASE Change
  <2>1. UNCHANGED <<bound, retries, flying, server, current, fetching>> /\ url # None
    BY <1>6 DEF Change
  <2>2. CASE loading
    <3>1. PICK long \in BOOLEAN : Counted(long)
      BY <1>6, <2>2 DEF Change
    <3>2. \A g \in Pages : Waits(g)' => Waits(g) /\ pending'[g] = pending[g]
      BY <3>1, CountedType DEF Waits
    <3> QED
      BY <1>1, <2>1, <3>2
  <2>3. CASE ~loading
    <3>1. pages \in Pages /\ slice \in Design
      BY <1>6, DesignType DEF Change, TypeOK
    <3>2. slice' \in Design /\ slice'.of = slice.of
      <4>1. changes + 1 \in Changes
        BY <1>6, SaveAssumption DEF Change, Changes, TypeOK
      <4> QED
        BY <1>6, <3>1, <4>1 DEF Change, Design
    <3>3. /\ pending'[pages].design = slice'
          /\ \A k \in Pages : k # pages => pending'[k] = pending[k]
      BY <1>6, <2>3, <3>1, <3>2, SchedulesType, SaveAssumption DEF Change
    <3>4. ~Foreign(bound[pages]) => slice'.of = bound[pages]
      BY <2>1, <2>3, <3>2 DEF ShownInv
    <3>5. ASSUME NEW g \in Pages, Waits(g)', ~Foreign(bound[g])'
          PROVE  pending'[g].design.of = bound[g]
      <4>1. ~Foreign(bound[g])
        BY <1>1, <2>1, <3>5
      <4>2. CASE g = pages
        BY <3>3, <3>4, <4>1, <4>2
      <4>3. CASE g # pages
        BY <3>3, <3>5, <4>1, <4>3 DEF Waits
      <4> QED
        BY <4>2, <4>3
    <3>6. UNCHANGED slips
      BY <1>6, <2>3 DEF Change
    <3> QED
      BY <2>1, <3>5, <3>6
  <2> QED
    BY <2>2, <2>3
<1>7. ASSUME NEW f \in fetching, FetchRead(f) PROVE OwnInv'
  <2>1. PICK a : /\ a = [f EXCEPT !.got = server[f.id]]
                 /\ fetching' = (fetching \ {f}) \cup {a}
    BY <1>7 DEF FetchRead
  <2>2. a.id = f.id /\ a.got = server[f.id] /\ f.id \in Projects
    BY <2>1 DEF TypeOK
  <2>3. \A b \in fetching' : b \in fetching \/ b = a
    BY <2>1
  <2>4. UNCHANGED <<pending, bound, retries, flying, server, current, slips>>
    BY <1>7 DEF FetchRead
  <2> QED
    BY <2>2, <2>3, <2>4 DEF Waits, Foreign
<1>8. ASSUME NEW f \in fetching, Fetched(f) PROVE OwnInv'
  <2>1. /\ fetching' \subseteq fetching /\ f.got # Nothing /\ current' = [id |-> f.id, design |-> f.got]
        /\ UNCHANGED <<pages, bound, retries, flying, server>>
    BY <1>8 DEF Fetched
  <2>2. \A g \in Pages : Waits(g)' /\ ~Foreign(bound[g])' => pending'[g].design.of = bound[g]
    <3>1. CASE UNCHANGED pending
      BY <1>1, <2>1, <3>1 DEF Waits
    <3>2. CASE Schedules(pages, f.got, 0) /\ url # None
      <4>1. f.got \in Design /\ pages \in Pages
        BY <2>1, <3>2, DesignType DEF TypeOK
      <4>2. /\ pending'[pages].design = f.got
            /\ \A k \in Pages : k # pages => pending'[k] = pending[k]
        BY <3>2, <4>1, SchedulesType, SaveAssumption
      <4>3. ~Foreign(bound[pages])' => f.got.of = bound[pages]
        <5>1. url \notin {None, f.id} => Foreign(bound[pages])'
          BY <1>8, <2>1 DEF Fetched, Foreign
        <5> QED
          BY <1>1, <2>1, <3>2, <5>1 DEF ShownInv
      <4>4. ASSUME NEW g \in Pages, Waits(g)', ~Foreign(bound[g])'
            PROVE  pending'[g].design.of = bound[g]
        <5>1. CASE g = pages
          BY <2>1, <4>2, <4>3, <4>4, <5>1
        <5>2. CASE g # pages
          BY <1>1, <2>1, <4>2, <4>4, <5>2 DEF Waits
        <5> QED
          BY <5>1, <5>2
      <4> QED
        BY <4>4
    <3>3. ASSUME NEW long \in BOOLEAN, Counted(long)
          PROVE  \A g \in Pages : Waits(g)' /\ ~Foreign(bound[g])' => pending'[g].design.of = bound[g]
      <4>1. \A g \in Pages : Waits(g)' => Waits(g) /\ pending'[g] = pending[g]
        BY <3>3, CountedType DEF Waits
      <4> QED
        BY <1>1, <2>1, <4>1
    <3> QED
      BY <1>8, <3>1, <3>2, <3>3 DEF Fetched
  <2> QED
    BY <1>1, <2>1, <2>2
<1>9. ASSUME NEW f \in fetching, FetchFails(f) PROVE OwnInv'
  BY <1>1, <1>9 DEF FetchFails, Waits
<1>10. ASSUME NEW g \in Pages, Fire(g) PROVE OwnInv'
  <2>1. PICK r : /\ r = [page |-> g, design |-> pending[g].design, try |-> pending[g].try,
                         stored |-> FALSE]
                 /\ flying' = flying \cup {r}
    BY <1>10 DEF Fire
  <2>2. r.page = g /\ r.design = pending[g].design /\ Waits(g)
    BY <1>10, <2>1 DEF Fire
  <2>3. \A k \in Pages : Waits(k)' => Waits(k) /\ pending'[k] = pending[k]
    BY <1>10 DEF Fire, TypeOK, Waits, NoCall
  <2>4. UNCHANGED <<bound, retries, fetching, server, current>>
    BY <1>10 DEF Fire
  <2> QED
    BY <1>1, <2>1, <2>2, <2>3, <2>4
<1>11. ASSUME NEW r \in flying, Store(r) PROVE OwnInv'
  <2>1. PICK a : /\ a = [r EXCEPT !.stored = TRUE]
                 /\ flying' = (flying \ {r}) \cup {a}
    BY <1>11 DEF Store
  <2>2. a.page = r.page /\ a.design = r.design
    BY <2>1 DEF TypeOK
  <2>3. \A p \in Projects : server'[p] = IF p = bound[r.page] THEN r.design ELSE server[p]
    BY <1>11 DEF Store, TypeOK
  <2>4. UNCHANGED <<bound, pending, retries, fetching, current, slips>>
    BY <1>11 DEF Store
  <2>5. ASSUME NEW p \in Projects, ~Foreign(p) PROVE server'[p].of = p
    BY <2>3, <2>5
  <2>6. \A q \in flying' : q \in flying \/ q = a
    BY <2>1
  <2>7. \A q \in retries \cup flying' : ~Foreign(bound[q.page]) => q.design.of = bound[q.page]
    BY <2>2, <2>6
  <2> QED
    BY <2>4, <2>5, <2>7 DEF Waits
<1>12. ASSUME NEW r \in flying, Saved(r) PROVE OwnInv'
  <2>1. UNCHANGED <<bound, pending, retries, fetching, server, slips>> /\ flying' \subseteq flying
    BY <1>12 DEF Saved
  <2>2. current'.id # None /\ ~Foreign(current'.id) => current'.design.of = current'.id
    <3>1. CASE current.id = bound[r.page]
      <4>1. current'.id = current.id /\ current'.design = r.design
        BY <1>12, <3>1 DEF Saved, TypeOK
      <4> QED
        BY <3>1, <4>1
    <3>2. CASE current.id # bound[r.page]
      BY <1>12, <3>2 DEF Saved
    <3> QED
      BY <3>1, <3>2
  <2> QED
    BY <2>1, <2>2 DEF Waits, Foreign
<1>13. ASSUME NEW r \in flying, Hangs(r) PROVE OwnInv'
  <2>1. UNCHANGED <<bound, pending, retries, fetching, server, current>> /\ flying' \subseteq flying
    BY <1>13 DEF Hangs
  <2> QED
    BY <1>1, <2>1 DEF Waits
<1>14. ASSUME NEW r \in flying, Fail(r) PROVE OwnInv'
  <2>1. \A q \in retries' : q \in retries \/ (q.page = r.page /\ q.design = r.design)
    BY <1>14 DEF Fail
  <2>2. UNCHANGED <<bound, pending, fetching, server, current>> /\ flying' \subseteq flying
    BY <1>14 DEF Fail
  <2> QED
    BY <1>1, <2>1, <2>2 DEF Waits
<1>15. ASSUME NEW r \in retries, Retry(r) PROVE OwnInv'
  <2>1. r.page \in Pages /\ r.design \in Design /\ r.try \in 0 .. MaxRetries
    BY DEF TypeOK, Calls
  <2>2. /\ pending'[r.page].design = r.design
        /\ \A k \in Pages : k # r.page => pending'[k] = pending[k]
    BY <1>15, <2>1, SchedulesType DEF Retry
  <2>3. UNCHANGED <<bound, flying, fetching, server, current>> /\ retries' \subseteq retries
    BY <1>15 DEF Retry
  <2> QED
    BY <1>1, <2>2, <2>3 DEF Waits
<1> QED
  BY <1>2, <1>3, <1>4, <1>5, <1>6, <1>7, <1>8, <1>9, <1>10, <1>11, <1>12, <1>13, <1>14, <1>15 DEF Next

(* Opening fills the page from the project of the store, and a page stops  *)
(* loading as its own only when the store holds its own project.           *)
LEMMA ShownKept ==
  ASSUME TypeOK, OwnInv, ShownInv, Next
  PROVE  ShownInv'
<1> USE DEF ShownInv, Foreign
<1>1. \A p : Foreign(p) => Foreign(p)'
  BY ForeignStays
<1>2. ASSUME UNCHANGED <<url, pages, bound, slice, loading>>,
             current'.id # None => current'.id = current.id
      PROVE  ShownInv'
  BY <1>1, <1>2
<1>3. ASSUME NEW p \in Projects, Open(p) PROVE ShownInv'
  <2>1. pages' \in Pages /\ bound'[pages'] = p /\ url' = p /\ loading'
    <3>1. pages \in 0 .. MaxPages /\ pages < MaxPages /\ pages' = pages + 1
      BY <1>3 DEF Open, TypeOK
    <3>2. pages + 1 \in Pages
      BY <3>1, SaveAssumption DEF Pages
    <3>3. bound \in [Pages -> Projects \cup {None}]
      BY DEF TypeOK
    <3>4. bound' = [bound EXCEPT ![pages + 1] = p] /\ url' = p /\ loading' = TRUE
      BY <1>3 DEF Open
    <3>5. bound'[pages + 1] = p
      BY <3>2, <3>3, <3>4
    <3> QED
      BY <3>1, <3>2, <3>4, <3>5
  <2>2. UNCHANGED current /\ (current.id # None => slice' = current.design)
    BY <1>3 DEF Open
  <2>3. ASSUME url' # None, current'.id # None, ~Foreign(current.id)'
        PROVE  slice'.of = current'.id
    <3>1. ~Foreign(current.id) /\ current.id # None
      BY <1>1, <2>2, <2>3
    <3>2. current.design.of = current.id
      BY <3>1 DEF OwnInv
    <3> QED
      BY <2>2, <3>1, <3>2
  <2> QED
    BY <2>1, <2>2, <2>3
<1>4. ASSUME NEW p \in Projects, Switch(p) PROVE ShownInv'
  <2>1. Foreign(bound[pages])' /\ url # None
    BY <1>4 DEF Switch, Slip
  <2> QED
    BY <1>1, <1>4, <2>1 DEF Switch
<1>5. CASE Leave
  BY <1>5 DEF Leave
<1>6. CASE Settle
  <2>1. UNCHANGED <<url, pages, bound, slice, current>> /\ url \in Projects
    BY <1>6 DEF Settle, TypeOK
  <2>2. current.id # url => Foreign(bound[pages])'
    BY <1>6 DEF Settle, Slip
  <2>3. url # None
    BY <1>6 DEF Settle, TypeOK
  <2> QED
    BY <1>1, <2>1, <2>2, <2>3
<1>7. CASE Change
  <2>1. slice \in Design
    BY <1>7, DesignType DEF Change, TypeOK
  <2>2. slice'.of = slice.of
    BY <1>7, <2>1 DEF Change, Design
  <2> QED
    BY <1>1, <1>7, <2>2 DEF Change
<1>8. ASSUME NEW f \in fetching, Fetched(f) PROVE ShownInv'
  <2>1. /\ f.got # Nothing /\ f.id \in Projects /\ current'.id = f.id
        /\ UNCHANGED <<url, pages, bound, loading>>
    BY <1>8 DEF Fetched, TypeOK
  <2>2. ~Foreign(f.id) => f.got.of = f.id
    BY <2>1 DEF OwnInv
  <2>3. url # None /\ url # f.id => Foreign(bound[pages])'
    BY <1>8, <2>1 DEF Fetched
  <2>4. CASE url # None /\ current.id # f.id
    <3>1. slice' = f.got
      BY <1>8, <2>4 DEF Fetched
    <3> QED
      BY <1>1, <2>1, <2>2, <2>3, <2>4, <3>1
  <2>5. CASE ~(url # None /\ current.id # f.id)
    <3>1. UNCHANGED slice
      BY <1>8, <2>5 DEF Fetched
    <3> QED
      BY <1>1, <2>1, <2>3, <2>5, <3>1 DEF TypeOK
  <2> QED
    BY <2>4, <2>5
<1>9. ASSUME NEW f \in fetching, FetchRead(f) \/ FetchFails(f) PROVE ShownInv'
  BY <1>2, <1>9 DEF FetchRead, FetchFails
<1>10. ASSUME NEW g \in Pages, Fire(g) PROVE ShownInv'
  BY <1>2, <1>10 DEF Fire
<1>11. ASSUME NEW r \in flying, Store(r) \/ Fail(r) \/ Hangs(r) PROVE ShownInv'
  BY <1>2, <1>11 DEF Store, Fail, Hangs
<1>12. ASSUME NEW r \in flying, Saved(r) PROVE ShownInv'
  <2>1. current'.id = current.id
    BY <1>12 DEF Saved, TypeOK
  <2> QED
    BY <1>2, <1>12, <2>1 DEF Saved
<1>13. ASSUME NEW r \in retries, Retry(r) PROVE ShownInv'
  BY <1>2, <1>13 DEF Retry
<1> QED
  BY <1>3, <1>4, <1>5, <1>6, <1>7, <1>8, <1>9, <1>10, <1>11, <1>12, <1>13 DEF Next

(* The store of a project holds a design of another one only if a page of  *)
(* it stopped loading while it showed another one, was given the late      *)
(* answer for another one, or changed its project (DesignPage).            *)
THEOREM OwnDesigns == Spec => []OwnUnlessForeign
<1>1. Init => OwnInv /\ ShownInv
  <2> SUFFICES ASSUME Init PROVE OwnInv /\ ShownInv
    OBVIOUS
  <2>1. \A p \in Projects : server[p].of = p
    BY DEF Init, Fresh
  <2>2. /\ url = None /\ retries = {} /\ flying = {} /\ fetching = {} /\ current.id = None
        /\ \A g \in Pages : ~Waits(g)
    BY DEF Init, Waits
  <2> QED
    BY <2>1, <2>2 DEF OwnInv, ShownInv
<1>2. TypeOK /\ OwnInv /\ ShownInv /\ [Next]_vars => (OwnInv /\ ShownInv)'
  <2> SUFFICES ASSUME TypeOK, OwnInv, ShownInv, [Next]_vars PROVE (OwnInv /\ ShownInv)'
    OBVIOUS
  <2>1. CASE Next
    BY <2>1, OwnKept, ShownKept
  <2>2. CASE UNCHANGED vars
    BY <2>2 DEF vars, OwnInv, ShownInv, Foreign, Waits
  <2> QED
    BY <2>1, <2>2
<1>3. OwnInv => OwnUnlessForeign
  BY DEF OwnInv, OwnUnlessForeign, Slipped, Foreign
<1> QED
  BY <1>1, <1>2, <1>3, TypeCorrect, PTL DEF Spec
--------------------------------------------------------------------------------
(* The saves of one project follow each other, as long as none overlapped  *)
(* another and no page was filled with an older state or another project.  *)

Soiled(p) == Slipped(p, {"stale", "overlap", "foreign"})
Sent(p) == {r \in retries \cup flying : bound[r.page] = p}
Held(p) == {g \in Pages : bound[g] = p /\ Waits(g)}

\* Each save has what the one before it had.
Line(p) ==
  /\ \A r, s \in Sent(p) : r = s
  /\ \A r \in Sent(p) : server[p].has \subseteq r.design.has
  /\ \A r \in Sent(p) : r \in flying /\ r.stored => r.design.has = server[p].has
  /\ \A g \in Held(p) : server[p].has \subseteq pending[g].design.has
  /\ \A g \in Held(p), r \in Sent(p) : r.design.has \subseteq pending[g].design.has
  /\ current.id = p /\ Sent(p) = {} /\ Held(p) = {} => current.design.has = server[p].has

\* The page has what they have, and made them; unless a change was not saved,
\* the last of them has all that the page has.
Ahead(p) ==
  /\ server[p].has \subseteq slice.has
  /\ \A r \in Sent(p) : r.design.has \subseteq slice.has /\ r.page = pages
  /\ \A g \in Held(p) : pending[g].design.has \subseteq slice.has /\ g = pages
Caught(p) ==
  /\ \A g \in Held(p) : slice.has \subseteq pending[g].design.has
  /\ Held(p) = {} => \A r \in Sent(p) : slice.has \subseteq r.design.has
  /\ Held(p) = {} /\ Sent(p) = {} => slice.has \subseteq server[p].has
Faces(p) == url # None /\ bound[pages] = p
\* A page that loads has no cleanup that cancels a call: the one before it took
\* the last with it.
View(p) ==
  /\ url = p /\ (IF loading THEN ~cancels ELSE current.id = p)
  /\ current.id = p => Ahead(p) /\ (<<p, "lapse">> \in slips \/ Caught(p))

SaveInv == \A p \in Projects : ~Soiled(p) => Line(p) /\ (Faces(p) => View(p))

LEMMA SlipsStay ==
  ASSUME Next
  PROVE  slips \subseteq slips' /\ \A p : Soiled(p) => Soiled(p)'
BY DEF Next, Open, Leave, Switch, Settle, Change, FetchRead, Fetched, FetchFails, Fire, Store,
       Saved, Fail, Hangs, Retry, Slip, Soiled, Slipped

LEMMA SendsOut == \A p \in Projects : Outstanding(p) <=> ~(Sent(p) = {} /\ Held(p) = {})
BY DEF Outstanding, Sent, Held

\* What does not touch the saves of a project keeps the invariant of it.
LEMMA LineFrame ==
  ASSUME NEW p, Line(p), Sent(p)' = Sent(p), Held(p)' = Held(p),
         \A g \in Held(p) : pending'[g] = pending[g],
         \A r \in Sent(p) : r \in flying' => r \in flying,
         server'[p] = server[p],
         current'.id = p => current' = current \/ current'.design.has = server[p].has
  PROVE  Line(p)'
BY DEF Line

LEMMA ViewFrame ==
  ASSUME NEW p, View(p), Sent(p)' = Sent(p), Held(p)' = Held(p),
         \A g \in Held(p) : pending'[g] = pending[g],
         server'[p] = server[p], slips \subseteq slips',
         current'.id = p <=> current.id = p,
         UNCHANGED <<url, loading, pages, slice>>, cancels' => cancels
  PROVE  View(p)'
<1>1. Ahead(p) => Ahead(p)'
  BY DEF Ahead
<1>2. Caught(p) => Caught(p)'
  BY DEF Caught
<1> QED
  BY <1>1, <1>2 DEF View

\* What is sent and waits stays the same when these variables do.
LEMMA SavesFrame ==
  ASSUME UNCHANGED <<bound, pending, retries, flying>>, NEW p \in Projects
  PROVE  Sent(p)' = Sent(p) /\ Held(p)' = Held(p)
BY DEF Sent, Held, Waits

(* The page is opened, left or changes its project; the user changes it.   *)
LEMMA PageSaves ==
  ASSUME TypeOK, SaveInv, NEW p \in Projects, ~Soiled(p), ~Soiled(p)', slips \subseteq slips',
         Leave \/ Settle \/ \E q \in Projects : Open(q) \/ Switch(q)
  PROVE  Line(p)' /\ (Faces(p)' => View(p)')
<1>1. Line(p) /\ (Faces(p) => View(p))
  BY DEF SaveInv
<1>2. ASSUME NEW q \in Projects, Open(q) PROVE Line(p)' /\ (Faces(p)' => View(p)')
  <2>1. /\ UNCHANGED <<pending, retries, flying, server, current>>
        /\ pages \in 0 .. MaxPages /\ pages < MaxPages /\ pages' = pages + 1
        /\ bound' = [bound EXCEPT ![pages + 1] = q] /\ url' = q /\ loading' /\ ~cancels'
    BY <1>2 DEF Open, TypeOK
  <2>2. \A g \in Pages : g <= pages => bound'[g] = bound[g]
    BY <2>1 DEF TypeOK, Pages
  <2>3. Sent(p)' = Sent(p)
    <3>1. \A r \in retries \cup flying : bound'[r.page] = bound[r.page]
      BY <2>2 DEF TypeOK, Calls
    <3> QED
      BY <2>1, <3>1 DEF Sent
  <2>4. Held(p)' = Held(p)
    <3>1. \A g \in Pages : Waits(g) => bound'[g] = bound[g]
      BY <2>2 DEF TypeOK
    <3> QED
      BY <2>1, <3>1 DEF Held, Waits
  <2>5. Line(p)'
    BY <1>1, <2>1, <2>3, <2>4, LineFrame
  <2>6. ASSUME Faces(p)' PROVE View(p)'
    <3>1. p = q
      <4>1. pages' \in Pages /\ bound'[pages'] = q
        BY <2>1, SaveAssumption DEF TypeOK, Pages
      <4> QED
        BY <2>6, <4>1 DEF Faces
    <3>2. ASSUME current.id = p PROVE Ahead(p)' /\ Caught(p)'
      <4>1. ~Outstanding(p)
        BY <1>2, <3>1, <3>2 DEF Open, Slip, Soiled, Slipped
      <4>2. Sent(p) = {} /\ Held(p) = {}
        BY <4>1, SendsOut
      <4>3. slice' = current.design
        BY <1>2, <3>2, SaveAssumption DEF Open
      <4>4. slice'.has = server'[p].has
        BY <1>1, <2>1, <3>2, <4>2, <4>3 DEF Line
      <4> QED
        BY <2>3, <2>4, <4>2, <4>4 DEF Ahead, Caught
    <3> QED
      BY <2>1, <3>1, <3>2 DEF View
  <2> QED
    BY <2>5, <2>6
<1>3. ASSUME NEW q \in Projects, Switch(q) PROVE Line(p)' /\ (Faces(p)' => View(p)')
  <2>1. UNCHANGED <<bound, pages, pending, retries, flying, server, current>>
    BY <1>3 DEF Switch
  <2>2. bound[pages] # p
    BY <1>3 DEF Switch, Slip, Soiled, Slipped
  <2> QED
    BY <1>1, <2>1, <2>2, SavesFrame, LineFrame DEF Faces
<1>4. CASE Leave
  <2>1. /\ UNCHANGED <<bound, retries, flying, server, current>> /\ url' = None
        /\ pending' = IF cancels THEN [pending EXCEPT ![pages] = NoCall] ELSE pending
    BY <1>4 DEF Leave
  <2>2. Sent(p)' = Sent(p)
    BY <2>1 DEF Sent
  <2>3. cancels => ~(bound[pages] = p /\ Waits(pages))
    BY <1>4 DEF Leave, Slip, Soiled, Slipped
  <2>4. \A g \in Pages : bound[g] = p => pending'[g] = pending[g]
    BY <2>1, <2>3 DEF TypeOK, Waits
  <2>5. Held(p)' = Held(p) /\ \A g \in Held(p) : pending'[g] = pending[g]
    BY <2>1, <2>4 DEF Held, Waits
  <2> QED
    BY <1>1, <2>1, <2>2, <2>5, LineFrame DEF Faces
<1>5. CASE Settle
  <2>1. ~loading' /\ UNCHANGED <<url, pages, bound, pending, retries, flying, server, current, slice>>
    BY <1>5 DEF Settle
  <2>2. bound[pages] = p => current.id = url
    BY <1>5 DEF Settle, Slip, Soiled, Slipped
  <2>3. Sent(p)' = Sent(p) /\ Held(p)' = Held(p)
    BY <2>1, SavesFrame
  <2>4. Line(p)'
    BY <1>1, <2>1, <2>3, LineFrame
  <2>5. ASSUME Faces(p) PROVE View(p)'
    <3>1. Ahead(p) /\ (<<p, "lapse">> \in slips \/ Caught(p)) /\ url = p /\ current.id = p
      BY <1>1, <2>2, <2>5 DEF Faces, View
    <3> QED
      BY <2>1, <2>3, <3>1 DEF View, Ahead, Caught
  <2> QED
    BY <2>1, <2>4, <2>5 DEF Faces
<1> QED
  BY <1>2, <1>3, <1>4, <1>5

LEMMA ChangeSaves ==
  ASSUME TypeOK, SaveInv, NEW p \in Projects, ~Soiled(p), ~Soiled(p)', slips \subseteq slips',
         Change
  PROVE  Line(p)' /\ (Faces(p)' => View(p)')
<1>1. Line(p) /\ (Faces(p) => View(p))
  BY DEF SaveInv
<1>2. /\ UNCHANGED <<url, pages, bound, retries, flying, server, current, loading>>
      /\ url # None /\ pages \in Pages /\ slice \in Design
  BY DesignType DEF Change, TypeOK
<1>3. slice' \in Design /\ slice.has \subseteq slice'.has
  <2>1. changes + 1 \in Changes
    BY SaveAssumption DEF Change, Changes, TypeOK
  <2> QED
    BY <1>2, <2>1 DEF Change, Design
<1>4. Sent(p)' = Sent(p)
  BY <1>2 DEF Sent
<1>5. CASE loading
  <2>0. PICK long \in BOOLEAN : Slip(bound[pages], "lapse") /\ Counted(long)
    BY <1>5 DEF Change
  <2>1. /\ <<bound[pages], "lapse">> \in slips' /\ (cancels' => cancels)
        /\ \A g \in Pages : bound[g] = p => pending'[g] = pending[g]
    <3>1. bound[pages] = p => ~cancels
      BY <1>1, <1>2, <1>5 DEF Faces, View
    <3> QED
      BY <2>0, <3>1, CountedType DEF Slip
  <2>2. Held(p)' = Held(p) /\ \A g \in Held(p) : pending'[g] = pending[g]
    BY <1>2, <2>1 DEF Held, Waits
  <2>3. Line(p)'
    BY <1>1, <1>2, <1>4, <2>2, LineFrame
  <2>4. ASSUME Faces(p) PROVE View(p)'
    <3>1. Ahead(p) => Ahead(p)'
      BY <1>2, <1>3, <1>4, <2>2 DEF Ahead
    <3> QED
      BY <1>1, <1>2, <1>5, <2>1, <2>4, <3>1 DEF View, Faces
  <2> QED
    BY <1>2, <2>3, <2>4 DEF Faces
<1>6. CASE ~loading
  <2>1. /\ pending'[pages].design = slice'
        /\ \A k \in Pages : k # pages => pending'[k] = pending[k]
    BY <1>2, <1>3, <1>6, SchedulesType, SaveAssumption DEF Change
  <2>2. CASE bound[pages] # p
    <3>1. \A g \in Pages : bound[g] = p => pending'[g] = pending[g]
      BY <2>1, <2>2
    <3>2. Held(p)' = Held(p) /\ \A g \in Held(p) : pending'[g] = pending[g]
      BY <1>2, <3>1 DEF Held, Waits
    <3> QED
      BY <1>1, <1>2, <1>4, <2>2, <3>2, LineFrame DEF Faces
  <2>3. CASE bound[pages] = p
    <3>1. View(p) /\ url = p /\ current.id = p /\ Ahead(p)
      BY <1>1, <1>2, <1>6, <2>3 DEF Faces, View
    <3>2. Held(p)' = {pages}
      <4>1. pending'[pages].design.of # None
        BY <1>3, <2>1, DesignType
      <4>2. pending'[pages] # NoCall
        BY <4>1 DEF NoCall, Nothing
      <4>3. \A g \in Pages : g # pages /\ bound[g] = p => pending'[g] = NoCall
        BY <2>1, <3>1 DEF Ahead, Held, Waits
      <4> QED
        BY <1>2, <2>3, <4>2, <4>3 DEF Held, Waits
    <3>3. pending'[pages].design.has = slice'.has
      BY <2>1
    <3>4. \A r \in Sent(p) : r.design.has \subseteq slice'.has /\ r.page = pages
      BY <1>3, <3>1 DEF Ahead
    <3>5. server[p].has \subseteq slice'.has
      BY <1>3, <3>1 DEF Ahead
    <3>6. Line(p)'
      BY <1>1, <1>2, <1>4, <3>2, <3>3, <3>4, <3>5 DEF Line
    <3>7. Ahead(p)' /\ Caught(p)'
      BY <1>2, <1>4, <3>2, <3>3, <3>4, <3>5 DEF Ahead, Caught
    <3> QED
      BY <1>2, <1>6, <3>1, <3>6, <3>7 DEF View
  <2> QED
    BY <2>2, <2>3
<1> QED
  BY <1>5, <1>6

(* The answer to a fetch fills the page only while nothing is saved, or it *)
(* counts as stale.                                                        *)
LEMMA FetchSaves ==
  ASSUME TypeOK, SaveInv, NEW p \in Projects, ~Soiled(p), ~Soiled(p)', slips \subseteq slips',
         NEW f \in fetching, FetchRead(f) \/ Fetched(f) \/ FetchFails(f)
  PROVE  Line(p)' /\ (Faces(p)' => View(p)')
<1>1. Line(p) /\ (Faces(p) => View(p))
  BY DEF SaveInv
<1>2. CASE FetchRead(f) \/ FetchFails(f)
  <2>1. UNCHANGED <<url, pages, bound, pending, retries, flying, server, current, slice, loading, cancels>>
    BY <1>2 DEF FetchRead, FetchFails
  <2> QED
    BY <1>1, <2>1, SavesFrame, LineFrame, ViewFrame DEF Faces
<1>3. CASE Fetched(f)
  <2>1. /\ UNCHANGED <<url, pages, bound, retries, flying, server, loading>>
        /\ f.got # Nothing /\ f.id \in Projects /\ f.got \in Design
        /\ current' = [id |-> f.id, design |-> f.got]
    BY <1>3, DesignType DEF Fetched, TypeOK
  <2>2. f.id = p => f.got = server[p] /\ Sent(p) = {} /\ Held(p) = {}
    <3>1. f.id = p => f.got = server[p] /\ ~Outstanding(p)
      BY <1>3 DEF Fetched, Soiled, Slipped
    <3> QED
      BY <3>1, SendsOut
  <2>3. Faces(p) => url = f.id
    BY <1>3 DEF Fetched, Soiled, Slipped, Faces
  <2>4. \A g \in Pages : bound[g] = p => pending'[g] = pending[g]
    <3>1. CASE UNCHANGED pending
      BY <3>1
    <3>2. CASE ~loading /\ url # None /\ current.id # f.id /\ Schedules(pages, f.got, 0)
      <4>1. bound[pages] # p
        BY <1>1, <2>3, <3>2 DEF Faces, View
      <4>2. pages \in Pages
        BY <3>2 DEF TypeOK
      <4>3. \A k \in Pages : k # pages => pending'[k] = pending[k]
        BY <2>1, <3>2, <4>2, SchedulesType, SaveAssumption
      <4> QED
        BY <4>1, <4>3
    <3>3. ASSUME NEW long \in BOOLEAN, loading, url # None, Counted(long)
          PROVE  \A g \in Pages : bound[g] = p => pending'[g] = pending[g]
      <4>1. bound[pages] = p => ~cancels
        BY <1>1, <3>3 DEF Faces, View
      <4> QED
        BY <3>3, <4>1, CountedType
    <3> QED
      BY <1>3, <3>1, <3>2, <3>3 DEF Fetched
  <2>5. Sent(p)' = Sent(p)
    BY <2>1 DEF Sent
  <2>6. Held(p)' = Held(p) /\ \A g \in Held(p) : pending'[g] = pending[g]
    BY <2>1, <2>4 DEF Held, Waits
  <2>7. current'.id = f.id /\ current'.design = f.got
    BY <2>1
  <2>8. Line(p)'
    BY <1>1, <2>1, <2>2, <2>5, <2>6, <2>7, LineFrame
  <2>9. ASSUME Faces(p) PROVE View(p)'
    <3>1. url = p /\ f.id = p
      BY <1>1, <2>3, <2>9 DEF View
    <3>2. CASE current.id = p
      <4>1. UNCHANGED <<slice, cancels>>
        BY <1>3, <3>1, <3>2 DEF Fetched
      <4> QED
        BY <1>1, <2>1, <2>5, <2>6, <2>7, <2>9, <3>1, <3>2, <4>1, ViewFrame
    <3>3. CASE current.id # p
      <4>1. slice' = f.got
        BY <1>3, <2>9, <3>1, <3>3 DEF Fetched, Faces
      <4>2. slice'.has = server'[p].has
        BY <2>1, <2>2, <3>1, <4>1
      <4>3. Ahead(p)' /\ Caught(p)'
        BY <2>2, <2>5, <2>6, <3>1, <4>2 DEF Ahead, Caught
      <4>4. loading /\ ~cancels
        BY <1>1, <2>9, <3>3 DEF View
      <4>5. PICK long \in BOOLEAN : Counted(long)
        BY <1>3, <2>9, <3>1, <3>3, <4>4 DEF Fetched, Faces
      <4>6. ~cancels'
        BY <4>4, <4>5 DEF Counted
      <4> QED
        BY <2>1, <2>7, <3>1, <4>3, <4>4, <4>6 DEF View
    <3> QED
      BY <3>2, <3>3
  <2> QED
    BY <2>1, <2>8, <2>9 DEF Faces
<1> QED
  BY <1>2, <1>3

(* A save waits, is sent, answered, given up or made again.                *)
LEMMA FireSaves ==
  ASSUME TypeOK, SaveInv, NEW p \in Projects, ~Soiled(p), ~Soiled(p)', slips \subseteq slips',
         NEW g \in Pages, Fire(g)
  PROVE  Line(p)' /\ (Faces(p)' => View(p)')
<1>1. Line(p) /\ (Faces(p) => View(p))
  BY DEF SaveInv
<1>2. /\ UNCHANGED <<url, pages, bound, retries, server, current, slice, loading, cancels>>
      /\ Waits(g) /\ pending' = [pending EXCEPT ![g] = NoCall]
  BY DEF Fire
<1>3. PICK r : /\ r = [page |-> g, design |-> pending[g].design, try |-> pending[g].try,
                       stored |-> FALSE]
               /\ flying' = flying \cup {r}
  BY DEF Fire
<1>4. r.page = g /\ r.design = pending[g].design /\ ~r.stored
  BY <1>3
<1>5. pending'[g] = NoCall /\ \A k \in Pages : k # g => pending'[k] = pending[k]
  BY <1>2 DEF TypeOK
<1>6. CASE bound[g] # p
  <2>1. Sent(p)' = Sent(p) /\ \A q \in Sent(p) : q \in flying' => q \in flying
    BY <1>2, <1>3, <1>4, <1>6 DEF Sent
  <2>2. Held(p)' = Held(p) /\ \A k \in Held(p) : pending'[k] = pending[k]
    BY <1>2, <1>5, <1>6 DEF Held, Waits
  <2> QED
    BY <1>1, <1>2, <2>1, <2>2, LineFrame, ViewFrame DEF Faces
<1>7. CASE bound[g] = p
  <2>1. ~\E q \in retries \cup flying : bound[q.page] = bound[g]
    BY <1>7 DEF Fire, Slip, Soiled, Slipped
  <2>2. ~\E k \in Pages \ {g} : bound[k] = bound[g] /\ Waits(k)
    BY <1>7 DEF Fire, Slip, Soiled, Slipped
  <2>3. Sent(p) = {} /\ Sent(p)' = {r}
    BY <1>2, <1>3, <1>4, <1>7, <2>1 DEF Sent
  <2>4. Held(p) = {g} /\ Held(p)' = {}
    BY <1>2, <1>5, <1>7, <2>2 DEF Held, Waits
  <2>5. server[p].has \subseteq r.design.has
    BY <1>1, <1>4, <2>4 DEF Line
  <2>6. Line(p)'
    BY <1>2, <1>4, <2>3, <2>4, <2>5 DEF Line
  <2>7. Ahead(p) => Ahead(p)'
    BY <1>2, <1>4, <2>3, <2>4 DEF Ahead
  <2>8. Caught(p) => Caught(p)'
    BY <1>2, <1>4, <2>3, <2>4 DEF Caught
  <2> QED
    BY <1>1, <1>2, <2>6, <2>7, <2>8 DEF View, Faces
<1> QED
  BY <1>6, <1>7

LEMMA AnswerSaves ==
  ASSUME TypeOK, SaveInv, NEW p \in Projects, ~Soiled(p), ~Soiled(p)', slips \subseteq slips',
         NEW r \in flying, Store(r) \/ Saved(r) \/ Fail(r) \/ Hangs(r)
  PROVE  Line(p)' /\ (Faces(p)' => View(p)')
<1>1. Line(p) /\ (Faces(p) => View(p))
  BY DEF SaveInv
<1>2. r.page \in Pages /\ bound[r.page] \in Projects
  <2>1. r.page \in Pages /\ r.page <= pages
    BY DEF TypeOK
  <2> QED
    BY <2>1 DEF TypeOK
<1>3. UNCHANGED <<url, pages, bound, pending, slice, loading, cancels>>
  BY DEF Store, Saved, Fail, Hangs
<1>4. Held(p)' = Held(p)
  BY <1>3 DEF Held, Waits
<1>5. bound[r.page] = p => r \in Sent(p) /\ Sent(p) = {r}
  <2>1. bound[r.page] = p => r \in Sent(p)
    BY DEF Sent
  <2> QED
    BY <1>1, <2>1 DEF Line
<1>6. r \notin retries
  <2>1. r \in retries => r \in [page : Pages, design : Design, try : 0 .. MaxRetries]
    BY DEF TypeOK, Calls
  <2>2. r \in [page : Pages, design : Design, try : 0 .. MaxRetries, stored : BOOLEAN]
    BY DEF TypeOK
  <2> QED
    BY <2>1, <2>2
<1>7. CASE Store(r)
  <2>1. /\ UNCHANGED <<retries, current, slips>>
        /\ server' = [server EXCEPT ![bound[r.page]] = r.design]
    BY <1>7 DEF Store
  <2>2. PICK a : a = [r EXCEPT !.stored = TRUE] /\ flying' = (flying \ {r}) \cup {a}
    BY <1>7 DEF Store
  <2>3. a.page = r.page /\ a.design = r.design
    BY <2>2 DEF TypeOK
  <2>4. CASE bound[r.page] # p
    <3>1. server'[p] = server[p]
      BY <1>2, <2>1, <2>4 DEF TypeOK
    <3>2. Sent(p)' = Sent(p) /\ \A q \in Sent(p) : q \in flying' => q \in flying
      BY <1>3, <2>1, <2>2, <2>3, <2>4 DEF Sent
    <3> QED
      BY <1>1, <1>3, <1>4, <2>1, <3>1, <3>2, LineFrame, ViewFrame DEF Faces
  <2>5. CASE bound[r.page] = p
    <3>1. server'[p] = r.design
      BY <1>2, <2>1, <2>5 DEF TypeOK
    <3>2. Sent(p)' = {a}
      <4>1. \A q \in retries \cup flying : bound[q.page] = p => q = r
        BY <1>5, <2>5 DEF Sent
      <4>2. \A q \in retries \cup flying' : bound[q.page] = p <=> q = a
        BY <1>6, <2>2, <2>3, <2>5, <4>1
      <4>3. a \in flying'
        BY <2>2
      <4> QED
        BY <1>3, <2>1, <4>2, <4>3 DEF Sent
    <3>3. Line(p)'
      BY <1>1, <1>3, <1>4, <1>5, <2>3, <2>5, <3>1, <3>2 DEF Line
    <3>4. Ahead(p) => Ahead(p)'
      BY <1>3, <1>4, <1>5, <2>3, <2>5, <3>1, <3>2 DEF Ahead
    <3>5. Caught(p) => Caught(p)'
      BY <1>3, <1>4, <1>5, <2>3, <2>5, <3>1, <3>2 DEF Caught
    <3> QED
      BY <1>1, <1>3, <2>1, <3>3, <3>4, <3>5 DEF View, Faces
  <2> QED
    BY <2>4, <2>5
<1>8. CASE Saved(r)
  <2>1. UNCHANGED <<retries, server, slips>> /\ flying' = flying \ {r} /\ r.stored
    BY <1>8 DEF Saved
  <2>2. /\ current'.id = current.id
        /\ current.id = bound[r.page] => current'.design = r.design
        /\ current.id # bound[r.page] => current' = current
    BY <1>8 DEF Saved, TypeOK
  <2>3. CASE bound[r.page] # p
    <3>1. Sent(p)' = Sent(p)
      BY <1>3, <2>1, <2>3 DEF Sent
    <3> QED
      BY <1>1, <1>3, <1>4, <2>1, <2>2, <2>3, <3>1, LineFrame, ViewFrame DEF Faces
  <2>4. CASE bound[r.page] = p
    <3>1. r.design.has = server[p].has
      BY <1>1, <1>5, <2>1, <2>4 DEF Line
    <3>2. Sent(p)' = {}
      BY <1>3, <1>5, <1>6, <2>1, <2>4 DEF Sent
    <3>3. Line(p)'
      BY <1>1, <1>3, <1>4, <2>1, <2>2, <2>4, <3>1, <3>2 DEF Line
    <3>4. Ahead(p) => Ahead(p)'
      BY <1>3, <1>4, <2>1, <3>2 DEF Ahead
    <3>5. Caught(p) => Caught(p)'
      BY <1>3, <1>4, <1>5, <2>1, <2>4, <3>1, <3>2 DEF Caught
    <3> QED
      BY <1>1, <1>3, <2>1, <2>2, <3>3, <3>4, <3>5 DEF View, Faces
  <2> QED
    BY <2>3, <2>4
<1>9. CASE Fail(r)
  <2>1. UNCHANGED <<server, current>> /\ flying' = flying \ {r}
    BY <1>9 DEF Fail
  <2>2. CASE bound[r.page] # p
    <3>1. Sent(p)' = Sent(p)
      BY <1>3, <1>9, <2>1, <2>2 DEF Sent, Fail
    <3> QED
      BY <1>1, <1>3, <1>4, <2>1, <2>2, <3>1, LineFrame, ViewFrame DEF Faces
  <2>3. CASE bound[r.page] = p
    <3>1. r.try < MaxRetries /\ UNCHANGED slips
      BY <1>9, <2>3 DEF Fail, Slip, Soiled, Slipped
    <3>2. PICK a : /\ a = [page |-> r.page, design |-> r.design, try |-> r.try + 1]
                   /\ retries' = retries \cup {a}
      BY <1>9, <3>1 DEF Fail
    <3>3. a.page = r.page /\ a.design = r.design
      BY <3>2
    <3>4. \A q \in retries : bound[q.page] # p
      <4>1. ASSUME NEW q \in retries, bound[q.page] = p PROVE FALSE
        <5>1. q = r
          BY <1>5, <2>3, <4>1 DEF Sent
        <5>2. q \in [page : Pages, design : Design, try : 0 .. MaxRetries]
          BY <4>1 DEF TypeOK, Calls
        <5>3. r \in [page : Pages, design : Design, try : 0 .. MaxRetries, stored : BOOLEAN]
          BY DEF TypeOK
        <5> QED
          BY <5>1, <5>2, <5>3
      <4> QED
        BY <4>1
    <3>5. Sent(p)' = {a} /\ a \notin flying'
      <4>1. a \notin flying
        BY <3>2 DEF TypeOK
      <4> QED
        BY <1>3, <1>5, <2>1, <2>3, <3>2, <3>3, <3>4, <4>1 DEF Sent
    <3>6. Line(p)'
      BY <1>1, <1>3, <1>4, <1>5, <2>1, <2>3, <3>3, <3>5 DEF Line
    <3>7. Ahead(p) => Ahead(p)'
      BY <1>3, <1>4, <1>5, <2>1, <2>3, <3>3, <3>5 DEF Ahead
    <3>8. Caught(p) => Caught(p)'
      BY <1>3, <1>4, <1>5, <2>1, <2>3, <3>3, <3>5 DEF Caught
    <3> QED
      BY <1>1, <1>3, <2>1, <3>1, <3>6, <3>7, <3>8 DEF View, Faces
  <2> QED
    BY <2>2, <2>3
<1>10. CASE Hangs(r)
  <2>1. UNCHANGED <<retries, server, current>> /\ flying' = flying \ {r} /\ bound[r.page] # p
    BY <1>10 DEF Hangs, Slip, Soiled, Slipped
  <2>2. Sent(p)' = Sent(p)
    BY <1>3, <2>1 DEF Sent
  <2> QED
    BY <1>1, <1>3, <1>4, <2>1, <2>2, LineFrame, ViewFrame DEF Faces
<1> QED
  BY <1>7, <1>8, <1>9, <1>10

LEMMA RetrySaves ==
  ASSUME TypeOK, SaveInv, NEW p \in Projects, ~Soiled(p), ~Soiled(p)', slips \subseteq slips',
         NEW r \in retries, Retry(r)
  PROVE  Line(p)' /\ (Faces(p)' => View(p)')
<1>1. Line(p) /\ (Faces(p) => View(p))
  BY DEF SaveInv
<1>2. r.page \in Pages /\ r.design \in Design /\ r.try \in 0 .. MaxRetries
  BY DEF TypeOK, Calls
<1>3. /\ pending'[r.page].design = r.design
      /\ \A k \in Pages : k # r.page => pending'[k] = pending[k]
  BY <1>2, SchedulesType DEF Retry
<1>4. /\ UNCHANGED <<url, pages, bound, flying, server, current, slice, loading, cancels>>
      /\ retries' = retries \ {r}
  BY DEF Retry
<1>5. CASE bound[r.page] # p
  <2>1. Sent(p)' = Sent(p)
    BY <1>4, <1>5 DEF Sent
  <2>2. Held(p)' = Held(p) /\ \A g \in Held(p) : pending'[g] = pending[g]
    BY <1>3, <1>4, <1>5 DEF Held, Waits
  <2> QED
    BY <1>1, <1>4, <2>1, <2>2, LineFrame, ViewFrame DEF Faces
<1>6. CASE bound[r.page] = p
  <2>1. Sent(p) = {r} /\ r \in Sent(p)
    <3>1. r \in Sent(p)
      BY <1>6 DEF Sent
    <3> QED
      BY <1>1, <3>1 DEF Line
  <2>2. Sent(p)' = {}
    <3>1. r \in flying => r \in [page : Pages, design : Design, try : 0 .. MaxRetries, stored : BOOLEAN]
      BY DEF TypeOK
    <3>2. r \in [page : Pages, design : Design, try : 0 .. MaxRetries]
      BY DEF TypeOK, Calls
    <3>3. r \notin flying
      BY <3>1, <3>2
    <3> QED
      BY <1>4, <2>1, <3>3 DEF Sent
  <2>3. Held(p)' = Held(p) \cup {r.page}
    <3>1. r.design.of # None
      BY <1>2, DesignType
    <3>2. pending'[r.page] # NoCall
      BY <1>3, <3>1 DEF NoCall, Nothing
    <3> QED
      BY <1>2, <1>3, <1>4, <1>6, <3>2 DEF Held, Waits
  <2>4. /\ server[p].has \subseteq r.design.has
        /\ \A g \in Held(p) : server[p].has \subseteq pending[g].design.has /\ g \in Pages
    BY <1>1, <2>1 DEF Line, Held
  <2>5. \A g \in Held(p)' : server[p].has \subseteq pending'[g].design.has
    BY <1>3, <2>3, <2>4
  <2>6. Line(p)'
    BY <1>4, <2>2, <2>3, <2>5 DEF Line
  <2>7. Ahead(p) => Ahead(p)'
    <3>1. ASSUME Ahead(p)
          PROVE  \A g \in Held(p)' : pending'[g].design.has \subseteq slice.has /\ g = pages
      BY <1>3, <2>1, <2>3, <2>4, <3>1 DEF Ahead
    <3> QED
      BY <1>4, <2>2, <3>1 DEF Ahead
  <2>8. ASSUME Ahead(p), Caught(p), <<p, "lapse">> \notin slips' PROVE Caught(p)'
    <3>1. ~Waits(r.page)
      BY <1>6, <2>8 DEF Retry, Slip
    <3>2. Held(p) = {}
      <4>1. \A g \in Held(p) : g = r.page
        BY <2>1, <2>8 DEF Ahead
      <4> QED
        BY <3>1, <4>1 DEF Held
    <3>3. slice.has \subseteq r.design.has
      BY <2>1, <2>8, <3>2 DEF Caught
    <3> QED
      BY <1>3, <1>4, <2>3, <3>2, <3>3 DEF Caught
  <2> QED
    BY <1>1, <1>4, <2>6, <2>7, <2>8 DEF View, Faces
<1> QED
  BY <1>5, <1>6

LEMMA SavesKept ==
  ASSUME TypeOK, SaveInv, [Next]_vars
  PROVE  SaveInv'
<1>1. CASE Next
  <2>1. slips \subseteq slips' /\ \A p : Soiled(p) => Soiled(p)'
    BY <1>1, SlipsStay
  <2>2. ASSUME NEW p \in Projects, ~Soiled(p)' PROVE Line(p)' /\ (Faces(p)' => View(p)')
    BY <1>1, <2>1, <2>2, PageSaves, ChangeSaves, FetchSaves, FireSaves, AnswerSaves, RetrySaves
       DEF Next
  <2> QED
    BY <2>2 DEF SaveInv
<1>2. CASE UNCHANGED vars
  <2>1. ASSUME NEW p \in Projects
        PROVE  (Soiled(p)' <=> Soiled(p)) /\ (Line(p)' <=> Line(p)) /\ (Faces(p)' <=> Faces(p))
    BY <1>2 DEF vars, Soiled, Slipped, Line, Sent, Held, Waits, Faces
  <2>2. ASSUME NEW p \in Projects, View(p) PROVE View(p)'
    BY <1>2, <2>2 DEF vars, View, Ahead, Caught, Sent, Held, Waits
  <2> QED
    BY <2>1, <2>2 DEF SaveInv
<1> QED
  BY <1>1, <1>2

LEMMA SavesHold == Spec => []SaveInv
<1>1. Init => SaveInv
  <2> SUFFICES ASSUME Init, NEW p \in Projects PROVE Line(p) /\ ~Faces(p)
    BY DEF SaveInv
  <2>1. Sent(p) = {} /\ Held(p) = {}
    BY DEF Init, Sent, Held, Waits
  <2>2. current.id # p /\ url = None
    BY SaveAssumption DEF Init
  <2> QED
    BY <2>1, <2>2 DEF Line, Faces
<1>2. TypeOK /\ SaveInv /\ [Next]_vars => SaveInv'
  BY SavesKept
<1> QED
  BY <1>1, <1>2, TypeCorrect, PTL DEF Spec

(* What a page that is left alone shows has reached the server, unless it  *)
(* was changed while it was loading, a retry replaced the save of a change,*)
(* two saves overlapped, one was given up or left without an answer, or    *)
(* the page was filled with an older state or with another project         *)
(* (saveProjectDebounced, the effects of DesignPage, client.ts).           *)
THEOREM NoChangeForgotten == Spec => []NothingForgotten
<1>1. TypeOK /\ SaveInv => NothingForgotten
  <2> SUFFICES ASSUME TypeOK, SaveInv, url # None, ~loading, ~Outstanding(bound[pages]),
                      ~Slipped(bound[pages], Reasons)
               PROVE  slice.has \subseteq server[url].has
    BY DEF NothingForgotten
  <2> DEFINE p == bound[pages]
  <2>1. p \in Projects
    BY DEF TypeOK
  <2>2. ~Soiled(p) /\ <<p, "lapse">> \notin slips
    BY DEF Soiled, Slipped, Reasons
  <2>3. View(p)
    BY <2>1, <2>2 DEF SaveInv, Faces
  <2>4. url = p /\ Caught(p)
    BY <2>2, <2>3 DEF View
  <2>5. Sent(p) = {} /\ Held(p) = {}
    BY <2>1, SendsOut
  <2> QED
    BY <2>4, <2>5 DEF Caught
<1> QED
  BY <1>1, SavesHold, TypeCorrect, PTL

(* A change that has reached the server stays there, unless two saves      *)
(* overlapped, as they do when a page is left with its call waiting and the*)
(* next one of the project is changed, one was given up or left without an *)
(* answer, or the page was filled with an older state or with another      *)
(* project (updateProject, the effects of DesignPage).                     *)
THEOREM ChangesKept == Spec => KeptChanges
<1> DEFINE Step == \A p \in Projects : ~(server[p].has \subseteq server'[p].has)
                     => \E why \in {"stale", "overlap", "foreign"} : <<p, why>> \in slips'
<1>1. TypeOK /\ SaveInv /\ [Next]_vars => Step
  <2> SUFFICES ASSUME TypeOK, SaveInv, [Next]_vars, NEW p \in Projects, ~Soiled(p)'
               PROVE  server[p].has \subseteq server'[p].has
    BY DEF Soiled, Slipped
  <2>1. CASE UNCHANGED server
    BY <2>1
  <2>2. ASSUME NEW r \in flying, Store(r) PROVE server[p].has \subseteq server'[p].has
    <3>1. Line(p)
      BY <2>2 DEF SaveInv, Store, Soiled, Slipped
    <3>2. server'[p] = IF bound[r.page] = p THEN r.design ELSE server[p]
      BY <2>2 DEF Store, TypeOK
    <3>3. bound[r.page] = p => r \in Sent(p)
      BY DEF Sent
    <3> QED
      BY <3>1, <3>2, <3>3 DEF Line
  <2>3. CASE Next
    BY <2>1, <2>2, <2>3 DEF Next, Open, Leave, Switch, Settle, Change, FetchRead, Fetched, FetchFails,
       Fire, Saved, Fail, Hangs, Retry
  <2> QED
    BY <2>1, <2>3 DEF vars
<1>2. TypeOK /\ SaveInv /\ [Next]_vars => [Step]_vars
  BY <1>1
<1> QED
  BY <1>2, SavesHold, TypeCorrect, PTL DEF Spec, KeptChanges

-----------------------------------------------------------------------------
(* "projectLoadingRef ... to skip auto-saves during load" (DesignPage.tsx): *)
(* what is saved under a project is its own design as long as every page    *)
(* stays with its project, stops loading when that is there, and gets no    *)
(* late answer for another one.                                             *)
THEOREM OwnDesignCorrect == Spec /\ LoadsInTime => []OwnDesign
<1> DEFINE A == /\ Settle => current.id = url
                /\ \A f \in fetching : Fetched(f) => url \in {None, f.id}
                /\ \A p \in Projects : ~Switch(p)
           Own == \A p \in Projects : <<p, "foreign">> \notin slips
           Apart == UNCHANGED slips \/ \E q, why : why # "foreign" /\ slips' = slips \cup {<<q, why>>}
<1>1. Init => Own
  BY DEF Init
<1>2. Own /\ [Next]_vars /\ [A]_vars => Own'
  <2> SUFFICES ASSUME Own, [Next]_vars, [A]_vars PROVE Own'
    OBVIOUS
  <2>0. ASSUME Apart PROVE Own'
    <3>1. ASSUME NEW q, NEW why, why # "foreign", slips' = slips \cup {<<q, why>>} PROVE Own'
      <4>1. \A p \in Projects : <<p, "foreign">> # <<q, why>>
        BY <3>1
      <4> QED
        BY <3>1, <4>1
    <3> QED
      BY <2>0, <3>1
  <2>1. CASE UNCHANGED vars
    BY <2>1 DEF vars
  <2>2. ASSUME NEW p \in Projects, Open(p) PROVE Apart
    BY <2>2 DEF Open, Slip
  <2>3. CASE Leave \/ Change
    <3>1. Apart
      BY <2>3 DEF Leave, Change, Slip
    <3> QED
      BY <2>0, <3>1
  <2>4. ASSUME Settle, A PROVE UNCHANGED slips
    BY <2>4 DEF Settle
  <2>5. ASSUME NEW f \in fetching, Fetched(f), A PROVE Apart
    BY <2>5 DEF Fetched
  <2>6. ASSUME NEW f \in fetching, FetchRead(f) \/ FetchFails(f) PROVE UNCHANGED slips
    BY <2>6 DEF FetchRead, FetchFails
  <2>7. ASSUME NEW g \in Pages, Fire(g) PROVE Apart
    BY <2>7 DEF Fire, Slip
  <2>8. ASSUME NEW r \in flying, Store(r) \/ Saved(r) \/ Fail(r) \/ Hangs(r) PROVE Apart
    BY <2>8 DEF Store, Saved, Fail, Hangs, Slip
  <2>9. ASSUME NEW r \in retries, Retry(r) PROVE Apart
    BY <2>9 DEF Retry, Slip
  <2>10. CASE Next /\ A
    BY <2>0, <2>2, <2>3, <2>4, <2>5, <2>6, <2>7, <2>8, <2>9, <2>10 DEF Next
  <2> QED
    BY <2>1, <2>10
<1>3. Own /\ OwnUnlessForeign => OwnDesign
  BY DEF OwnUnlessForeign, OwnDesign, Slipped
<1> QED
  BY <1>1, <1>2, <1>3, OwnDesigns, PTL DEF Spec, LoadsInTime
=============================================================================

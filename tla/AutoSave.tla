------------------------------- MODULE AutoSave -------------------------------
(***************************************************************************)
(* The design page saves a project by itself: 1.5 s after the last change, *)
(* and again 1, 2 and 4 s after a failure.  The page shows one slice of    *)
(* the store, whichever project it is open for; what it shows first comes  *)
(* from the project the store still holds, and the answer of the server    *)
(* replaces it only when the id differs.  The saving function is made once *)
(* for a page, with the project of its first rendering, and its timers and *)
(* requests outlive the page.  So does the call that waits, unless the     *)
(* number of elements has changed since the page was loaded.               *)
(***************************************************************************)
EXTENDS Naturals, FiniteSets

CONSTANTS
  Projects, None,
  MaxRetries,              \* MAX_RETRIES, 3 in the code
  MaxPages, MaxChanges,    \* bounds
  MaxRequests              \* requests that are on their way at once, a bound

ASSUME SaveAssumption ==
  MaxRequests \in Nat /\ MaxRetries \in Nat /\ MaxPages \in Nat \ {0} /\ MaxChanges \in Nat /\ None \notin Projects

Pages == 1 .. MaxPages
Changes == 1 .. MaxChanges
\* A design is of a project and has the changes made to it.
Design == [of : Projects, has : SUBSET Changes]
Fresh(p) == [of |-> p, has |-> {}]

VARIABLES
  url,       \* the project whose design page is open, or None
  pages,     \* pages opened so far; the last one is open
  bound,     \* the project that the saving function of a page saves
  pending,   \* the call of it that waits for 1.5 s without another one, if any
  retries,   \* calls that wait to be made again
  flying,    \* updates on their way to the server or back
  fetching,  \* fetches on their way; got holds what was read, if it was
  server,
  current,   \* currentProject of the store: its id and its design
  slice,     \* the design in the store, which the page shows and changes
  loading,   \* projectLoadingRef of the page: changes are not saved
  settling,  \* the timer that will reset loading
  cancels,   \* a cleanup is left that cancels the call that waits
  changes,   \* changes so far
  slips      \* history: what went wrong for a project.  A lapse: a change while
             \* loading, or one that a retry replaced; overlap: two saves at once,
             \* or one given up, by the page or by the client; stale: a page filled
             \* with what may be older than the server's; foreign: one that saves
             \* showed another project

vars == <<url, pages, bound, pending, retries, flying, fetching, server, current, slice,
          loading, settling, cancels, changes, slips>>

Nothing == [of |-> None, has |-> {}]
NoCall == [design |-> Nothing, try |-> 0]

Init ==
  /\ url = None /\ pages = 0 /\ bound = [g \in Pages |-> None]
  /\ pending = [g \in Pages |-> NoCall] /\ retries = {} /\ flying = {} /\ fetching = {}
  /\ server = [p \in Projects |-> Fresh(p)]
  /\ current = [id |-> None, design |-> Nothing] /\ slice = Nothing
  /\ loading = TRUE /\ settling = FALSE /\ cancels = FALSE /\ changes = 0 /\ slips = {}

Waits(g) == pending[g] # NoCall
\* Saves of p that a page has begun and that are not over.
Outstanding(p) ==
  \/ \E g \in Pages : bound[g] = p /\ Waits(g)
  \/ \E r \in retries \cup flying : bound[r.page] = p

Room == Cardinality(flying) + Cardinality(fetching) < MaxRequests
Slip(p, why) == slips' = slips \cup {<<p, why>>}
\* mutant: the first call wins
SchedulesFirst(g, design, try) ==
  pending' = [pending EXCEPT ![g] = IF Waits(g) THEN @ ELSE [design |-> design, try |-> try]]

\* saveProjectDebounced: the last call wins.
Schedules(g, design, try) == pending' = [pending EXCEPT ![g] = [design |-> design, try |-> try]]
--------------------------------------------------------------------------------
(* The page is opened, left, or changes its project.                       *)

\* mutant: the page does not wait until its project is there
OpenLoaded(p) ==
  /\ url = None /\ pages < MaxPages /\ Room
  /\ url' = p /\ pages' = pages + 1 /\ bound' = [bound EXCEPT ![pages + 1] = p]
  /\ fetching' = fetching \cup {[id |-> p, got |-> Nothing]}
  /\ loading' = FALSE /\ settling' = (current.id # None) /\ cancels' = FALSE
  /\ slice' = IF current.id = None THEN slice ELSE current.design
  /\ IF current.id = p /\ Outstanding(p) THEN Slip(p, "stale") ELSE UNCHANGED slips
  /\ UNCHANGED <<pending, retries, flying, server, current, changes>>

\* The effects of the first rendering: the project is fetched and the slice
\* filled from the project the store holds, whichever it is.
Open(p) ==
  /\ url = None /\ pages < MaxPages /\ Room
  /\ url' = p /\ pages' = pages + 1 /\ bound' = [bound EXCEPT ![pages + 1] = p]
  /\ fetching' = fetching \cup {[id |-> p, got |-> Nothing]}
  /\ loading' = TRUE /\ settling' = (current.id # None) /\ cancels' = FALSE
  /\ slice' = IF current.id = None THEN slice ELSE current.design
  /\ IF current.id = p /\ Outstanding(p) THEN Slip(p, "stale") ELSE UNCHANGED slips
  /\ UNCHANGED <<pending, retries, flying, server, current, changes>>

\* Unmounting cancels the waiting call if there is a cleanup for it; retries and
\* requests go on, and so does a call that nothing cancels.
Leave ==
  /\ url # None
  /\ url' = None /\ loading' = TRUE /\ settling' = FALSE /\ cancels' = FALSE
  /\ pending' = IF cancels THEN [pending EXCEPT ![pages] = NoCall] ELSE pending
  /\ IF cancels /\ Waits(pages) THEN Slip(bound[pages], "stale") ELSE UNCHANGED slips
  /\ UNCHANGED <<pages, bound, retries, flying, fetching, server, current, slice, changes>>

\* Going back in the history of the browser from one project to another keeps
\* the page, and its saving function.
Switch(p) ==
  /\ url \notin {None, p} /\ Room
  /\ url' = p /\ loading' = TRUE
  /\ fetching' = fetching \cup {[id |-> p, got |-> Nothing]}
  /\ Slip(bound[pages], "foreign")
  /\ UNCHANGED <<pages, bound, pending, retries, flying, server, current, slice, settling, cancels, changes>>

\* The timer that the restoring effect has set, after 500 ms.
Settle ==
  /\ settling
  /\ loading' = FALSE /\ settling' = FALSE
  /\ IF current.id # url THEN Slip(bound[pages], "foreign") ELSE UNCHANGED slips
  /\ UNCHANGED <<url, pages, bound, pending, retries, flying, fetching, server, current, slice, cancels,
                 changes>>

\* The effect on the number of elements: before it runs again its cleanup cancels
\* the waiting call, and it leaves a new cleanup only if the page is not loading.
Counted(long) ==
  /\ pending' = IF long /\ cancels THEN [pending EXCEPT ![pages] = NoCall] ELSE pending
  /\ cancels' = (cancels /\ ~long)

\* The user, or a solver that has finished, changes the design, and with it
\* perhaps the number of elements.
Change ==
  /\ url # None /\ slice.of # None /\ changes < MaxChanges
  /\ changes' = changes + 1
  /\ slice' = [slice EXCEPT !.has = @ \cup {changes + 1}]
  /\ \E long \in BOOLEAN :
       IF loading THEN Slip(bound[pages], "lapse") /\ Counted(long)
       ELSE Schedules(pages, slice', 0) /\ cancels' = (cancels \/ long) /\ UNCHANGED slips
  /\ UNCHANGED <<url, pages, bound, retries, flying, fetching, server, current, loading, settling>>
--------------------------------------------------------------------------------
(* fetchProject.                                                           *)

FetchRead(f) ==
  /\ f \in fetching /\ f.got = Nothing
  /\ fetching' = (fetching \ {f}) \cup {[f EXCEPT !.got = server[f.id]]}
  /\ UNCHANGED <<url, pages, bound, pending, retries, flying, server, current, slice, loading,
                 settling, cancels, changes, slips>>

\* The answer replaces the project of the store, and the slice when the id
\* differs and the page is still there; a page that is not loading any more
\* saves what it restores.
Fetched(f) ==
  /\ f \in fetching /\ f.got # Nothing
  /\ fetching' = fetching \ {f}
  /\ current' = [id |-> f.id, design |-> f.got]
  /\ IF url # None /\ current.id # f.id
     THEN /\ slice' = f.got /\ settling' = TRUE
          /\ \E long \in BOOLEAN :
               IF loading THEN Counted(long)
               ELSE Schedules(pages, f.got, 0) /\ cancels' = (cancels \/ long)
     ELSE UNCHANGED <<slice, settling, pending, cancels>>
  /\ slips' = slips
       \cup (IF f.got # server[f.id] \/ Outstanding(f.id) THEN {<<f.id, "stale">>} ELSE {})
       \cup (IF url \notin {None, f.id} THEN {<<bound[pages], "foreign">>} ELSE {})
  /\ UNCHANGED <<url, pages, bound, retries, flying, server, loading, changes>>

\* Also when the client leaves the fetch without an answer.
FetchFails(f) ==
  /\ f \in fetching /\ fetching' = fetching \ {f}
  /\ UNCHANGED <<url, pages, bound, pending, retries, flying, server, current, slice, loading,
                 settling, cancels, changes, slips>>
--------------------------------------------------------------------------------
(* updateProject, by the saving function of page g.                        *)

\* No call for 1.5 s: the waiting one is made.
Fire(g) ==
  /\ Waits(g) /\ Room
  /\ pending' = [pending EXCEPT ![g] = NoCall]
  /\ flying' = flying \cup {[page |-> g, design |-> pending[g].design, try |-> pending[g].try,
                             stored |-> FALSE]}
  /\ IF \/ \E r \in retries \cup flying : bound[r.page] = bound[g]
        \/ \E k \in Pages \ {g} : bound[k] = bound[g] /\ Waits(k)
     THEN Slip(bound[g], "overlap") ELSE UNCHANGED slips
  /\ UNCHANGED <<url, pages, bound, retries, fetching, server, current, slice, loading, settling, cancels, changes>>

Store(r) ==
  /\ r \in flying /\ ~r.stored
  /\ server' = [server EXCEPT ![bound[r.page]] = r.design]
  /\ flying' = (flying \ {r}) \cup {[r EXCEPT !.stored = TRUE]}
  /\ UNCHANGED <<url, pages, bound, pending, retries, fetching, current, slice, loading, settling,
                 cancels, changes, slips>>

\* mutant: the store keeps the project as it was fetched
SavedElsewhere(r) ==
  /\ r \in flying /\ r.stored
  /\ flying' = flying \ {r}
  /\ UNCHANGED <<url, pages, bound, pending, retries, fetching, server, current, slice, loading,
                 settling, cancels, changes, slips>>

\* updateProject.fulfilled: the answer replaces the project of the store when
\* it is the same project.
Saved(r) ==
  /\ r \in flying /\ r.stored
  /\ flying' = flying \ {r}
  /\ current' = IF current.id = bound[r.page] THEN [current EXCEPT !.design = r.design] ELSE current
  /\ UNCHANGED <<url, pages, bound, pending, retries, fetching, server, slice, loading, settling,
                 cancels, changes, slips>>

\* mutant: one retry too many
FailOnceMore(r) ==
  /\ r \in flying /\ flying' = flying \ {r}
  /\ IF r.try <= MaxRetries
     THEN /\ retries' = retries \cup {[page |-> r.page, design |-> r.design, try |-> r.try + 1]}
          /\ UNCHANGED slips
     ELSE Slip(bound[r.page], "overlap") /\ UNCHANGED retries
  /\ UNCHANGED <<url, pages, bound, pending, fetching, server, current, slice, loading, settling, cancels, changes>>

\* A failure, also one on the way back, is retried with the same arguments; the
\* error of a thunk has no status, so that none counts as final.
Fail(r) ==
  /\ r \in flying /\ flying' = flying \ {r}
  /\ IF r.try < MaxRetries
     THEN /\ retries' = retries \cup {[page |-> r.page, design |-> r.design, try |-> r.try + 1]}
          /\ UNCHANGED slips
     ELSE Slip(bound[r.page], "overlap") /\ UNCHANGED retries
  /\ UNCHANGED <<url, pages, bound, pending, fetching, server, current, slice, loading, settling, cancels, changes>>

\* A request that is not let in when there is no refresh token any more: the
\* client leaves it without an answer, on a page that stays.
Hangs(r) ==
  /\ r \in flying /\ ~r.stored /\ flying' = flying \ {r}
  /\ Slip(bound[r.page], "overlap")
  /\ UNCHANGED <<url, pages, bound, pending, retries, fetching, server, current, slice, loading,
                 settling, cancels, changes>>

\* mutant: the retries are not counted
RetryUncounted(r) ==
  /\ r \in retries /\ retries' = retries \ {r}
  /\ Schedules(r.page, r.design, 0)
  /\ IF Waits(r.page) THEN Slip(bound[r.page], "lapse") ELSE UNCHANGED slips
  /\ UNCHANGED <<url, pages, bound, flying, fetching, server, current, slice, loading, settling, cancels, changes>>

\* The retry goes through the same debounced function as the changes.
Retry(r) ==
  /\ r \in retries /\ retries' = retries \ {r}
  /\ Schedules(r.page, r.design, r.try)
  /\ IF Waits(r.page) THEN Slip(bound[r.page], "lapse") ELSE UNCHANGED slips
  /\ UNCHANGED <<url, pages, bound, flying, fetching, server, current, slice, loading, settling, cancels, changes>>

Next ==
  \/ \E p \in Projects : Open(p) \/ Switch(p)
  \/ Leave \/ Settle \/ Change
  \/ \E f \in fetching : FetchRead(f) \/ Fetched(f) \/ FetchFails(f)
  \/ \E g \in Pages : Fire(g)
  \/ \E r \in flying : Store(r) \/ Saved(r) \/ Fail(r) \/ Hangs(r)
  \/ \E r \in retries : Retry(r)

Spec == Init /\ [][Next]_vars

\* Timers run out and a request comes to an end, if only by the client: it gives
\* up after five minutes, or leaves the caller of a refused one without an answer.
Fairness ==
  /\ \A g \in Pages : WF_vars(Fire(g))
  /\ WF_vars(\E f \in fetching : Fetched(f) \/ FetchFails(f))
  /\ WF_vars(\E r \in flying : Saved(r) \/ Fail(r) \/ Hangs(r))
  /\ WF_vars(\E r \in retries : Retry(r))

FairSpec == Spec /\ Fairness
--------------------------------------------------------------------------------
Reasons == {"stale", "foreign", "lapse", "overlap"}
Designs == Design \cup {Nothing}
Calls == [page : Pages, design : Design, try : 0 .. MaxRetries]

TypeOK ==
  /\ url \in Projects \cup {None} /\ pages \in 0 .. MaxPages /\ changes \in 0 .. MaxChanges
  /\ bound \in [Pages -> Projects \cup {None}]
  /\ \A g \in Pages : bound[g] # None <=> g <= pages
  /\ (url # None => pages \in Pages) /\ (settling => url # None)
  /\ pending \in [Pages -> [design : Designs, try : 0 .. MaxRetries]]
  /\ \A g \in Pages : Waits(g) => g <= pages /\ pending[g].design \in Design
  /\ retries \subseteq Calls /\ \A r \in retries \cup flying : r.page <= pages
  /\ flying \subseteq [page : Pages, design : Design, try : 0 .. MaxRetries, stored : BOOLEAN]
  /\ fetching \subseteq [id : Projects, got : Designs]
  /\ server \in [Projects -> Design] /\ slice \in Designs
  /\ current \in [id : Projects, design : Design] \cup {[id |-> None, design |-> Nothing]}
  /\ loading \in BOOLEAN /\ settling \in BOOLEAN /\ cancels \in BOOLEAN
  /\ slips \subseteq Projects \X Reasons

Slipped(p, whys) == \E why \in whys : <<p, why>> \in slips

\* The store of a project holds a design of another one only if a page of it
\* stopped loading while it showed another one, was given the late answer for
\* another one, or changed its project.
OwnUnlessForeign == \A p \in Projects : server[p].of # p => Slipped(p, {"foreign"})

\* What a page that is left alone shows has reached the server, unless it was
\* changed while it was loading, a retry replaced the save of a change, two saves
\* overlapped, one was given up or left without an answer, or the page was filled
\* with an older state or with another project.
NothingForgotten ==
  url # None /\ ~loading /\ ~Outstanding(bound[pages])
    => \/ slice.has \subseteq server[url].has
       \/ Slipped(bound[pages], Reasons)

\* A change that has reached the server stays there, unless two saves overlapped,
\* one was given up or left without an answer, or the page was filled with an
\* older state or with another project.
KeptChanges ==
  [][\A p \in Projects : ~(server[p].has \subseteq server'[p].has)
       => \E why \in {"stale", "overlap", "foreign"} : <<p, why>> \in slips']_vars

\* Every save ends, with the retries of it, once the user stays on a page: none
\* is retried for ever and no call waits for ever. One that the client leaves
\* without an answer (Hangs) is over by that, although the page is never told.
SavesEnd ==
  <>[][url' = url]_url => <>[](flying = {} /\ retries = {} /\ \A g \in Pages : ~Waits(g))

\* "projectLoadingRef ... to skip auto-saves during load": no design of another
\* project is saved under this one.
OwnDesign == \A p \in Projects : server[p].of = p

\* ... unless a page stops loading while the store holds another project, gets
\* the late answer of another one, or changes its project.
LoadsInTime ==
  [][/\ Settle => current.id = url
     /\ \A f \in fetching : Fetched(f) => url \in {None, f.id}
     /\ \A p \in Projects : ~Switch(p)]_vars
================================================================================

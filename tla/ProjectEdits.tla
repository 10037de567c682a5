---------------------------- MODULE ProjectEdits ----------------------------
(***************************************************************************)
(* Names and strategies of the projects of one organisation: creation,     *)
(* copies and the slug of an update (api/app/services/project_service.py), *)
(* and the search strategy of a project, which is written by its form and  *)
(* by the generator (api/app/services/search_strategy_service.py).  Each   *)
(* request is a transaction that reads first and writes at its end.        *)
(*                                                                         *)
(* A name is a number of copies: 0 the title, 1 "(copia)", 2 "(copia 2)".  *)
(***************************************************************************)
EXTENDS Naturals, FiniteSets

CONSTANTS
  EditRequests,
  Existing,   \* projects at the start, with different names
  FirstName,  \* function from Existing
  MaxCopies,  \* bound on names
  Suffixes,   \* what _random_suffix draws
  NoProject, Nobody

Projects == Existing \cup EditRequests
Fields   == {"keywords", "scrape_urls"}
Slugs    == [base : 0..MaxCopies, suffix : Suffixes \cup {"none"}]
NoSlug   == [base |-> MaxCopies, suffix |-> "no project"]

ASSUME EditsAssumption ==
  /\ Existing \cap EditRequests = {} /\ NoProject \notin Projects
  /\ FirstName \in [Existing -> 0..MaxCopies] /\ MaxCopies \in Nat
  /\ \A p, q \in Existing : FirstName[p] = FirstName[q] => p = q
  /\ Nobody \notin EditRequests
  /\ {"none", "no project"} \cap Suffixes = {}

VARIABLES
  slug, name,  \* committed rows of projects; a new one is named by its request
  strategy,    \* committed strategies: for each field, who wrote it
  edit,        \* where each request is
  wants,       \* what it has read and is about to write
  before,      \* history: the requests that were over when this one read
  giver        \* history: who gave a project its slug

editVars == <<slug, name, strategy, edit, wants, before, giver>>

NoStrategy == [f \in Fields |-> Nobody]
Ended      == {"done", "refused", "conflict"}
Nothing    == [project |-> NoProject, name |-> 0, slug |-> NoSlug,
               had |-> NoSlug, fields |-> {}, found |-> FALSE]

EditTypeOK ==
  /\ slug \in [Projects -> Slugs \cup {NoSlug}]
  /\ name \in [Projects -> 0..MaxCopies]
  /\ strategy \in [Existing -> [Fields -> EditRequests \cup {Nobody}]]
  /\ edit \in [EditRequests ->
                 {"idle", "creating", "renaming", "writing"} \cup Ended]
  /\ wants \in [EditRequests ->
       [project : Projects \cup {NoProject}, name : 0..MaxCopies,
        slug : Slugs \cup {NoSlug}, had : Slugs \cup {NoSlug},
        fields : SUBSET Fields, found : BOOLEAN]]
  /\ before \in [EditRequests -> SUBSET EditRequests]
  /\ giver \in [Projects -> EditRequests \cup {Nobody}]

Plain(n) == [base |-> n, suffix |-> "none"]

EditInit ==
  /\ slug = [p \in Projects |->
               IF p \in Existing THEN Plain(FirstName[p]) ELSE NoSlug]
  /\ name = [p \in Projects |-> IF p \in Existing THEN FirstName[p] ELSE 0]
  /\ strategy = [p \in Existing |-> NoStrategy]
  /\ edit = [r \in EditRequests |-> "idle"]
  /\ wants = [r \in EditRequests |-> Nothing]
  /\ before = [r \in EditRequests |-> {}]
  /\ giver = [p \in Projects |-> Nobody]

-----------------------------------------------------------------------------

Looks(r, to, what) ==
  /\ edit[r] = "idle" /\ edit' = [edit EXCEPT ![r] = to]
  /\ wants' = [wants EXCEPT ![r] = what]
  /\ before' = [before EXCEPT ![r] = {x \in EditRequests : edit[x] \in Ended}]
  /\ UNCHANGED <<slug, name, strategy, giver>>

Leaves(r, from, to) ==
  /\ edit[r] = from /\ edit' = [edit EXCEPT ![r] = to]
  /\ UNCHANGED <<wants, before>>

Together(r, x) == r # x /\ r \notin before[x] /\ x \notin before[r]

Committed == {p \in Projects : slug[p] # NoSlug}

-----------------------------------------------------------------------------
(* Slugs                                                                   *)

Bearers(s) == {p \in Committed : slug[p] = s}

\* Mutant: any existing project lets the slug pass on an update.
AvailableToUpdates(s, exclude) == Bearers(s) = {} \/ exclude # NoProject

\* get_by_slug finds none, or the project itself.
Available(s, exclude) == Bearers(s) \subseteq {exclude}

\* _resolve_slug: the slug itself or with a random suffix that is free (of
\* 20 draws one is).
Resolved(n, exclude) ==
  IF Available(Plain(n), exclude) THEN {Plain(n)}
  ELSE {s \in Slugs : s.base = n /\ s.suffix # "none" /\ Available(s, exclude)}

\* scalar_one_or_none raises when two projects bear the slug, a 500.
Raising(n) == Cardinality(Bearers(Plain(n))) > 1

Resolving(r, n, to, what) ==
  IF Raising(n) THEN Looks(r, "conflict", Nothing)
  ELSE \E s \in Resolved(n, what.project) :
         Looks(r, to, [what EXCEPT !.slug = s, !.name = n])

\* create_project
Create(r, n) == Resolving(r, n, "creating", Nothing)

\* duplicate_project, named by _append_copy_suffix
Duplicate(r, p) ==
  /\ p \in Committed /\ name[p] < MaxCopies
  /\ Resolving(r, name[p] + 1, "creating", Nothing)

\* update_project with a slug
PatchSlug(r, p, n) ==
  /\ p \in Committed
  /\ Resolving(r, n, "renaming",
               [Nothing EXCEPT !.project = p, !.had = slug[p]])

\* There is an index on the slug, and it is not unique: both commits below
\* succeed whatever was committed meanwhile.
CommitCreate(r) ==
  /\ Leaves(r, "creating", "done")
  /\ slug' = [slug EXCEPT ![r] = wants[r].slug]
  /\ name' = [name EXCEPT ![r] = wants[r].name]
  /\ giver' = [giver EXCEPT ![r] = r]
  /\ UNCHANGED strategy

\* A slug that the project had when it was read is not written again.
CommitRename(r) ==
  LET p       == wants[r].project
      changed == wants[r].slug # wants[r].had
  IN  /\ Leaves(r, "renaming", "done")
      /\ slug' = IF changed THEN [slug EXCEPT ![p] = wants[r].slug] ELSE slug
      /\ giver' = IF changed THEN [giver EXCEPT ![p] = r] ELSE giver
      /\ UNCHANGED <<name, strategy>>

-----------------------------------------------------------------------------
(* The search strategy                                                     *)

\* upsert: the row is looked for, and the fields that were set are written.
Upsert(r, p, fields) ==
  Looks(r, "writing", [Nothing EXCEPT !.project = p, !.fields = fields,
                         !.found = strategy[p] # NoStrategy])

\* The form sends what was changed; the generator everything but the URLs.
PutStrategy(r, p) ==
  \E fields \in SUBSET Fields \ {{}} : Upsert(r, p, fields)
GenerateStrategy(r, p) == Upsert(r, p, {"keywords"})

\* Mutant: the fields that were not set are written too, as NULL.
CommitStrategyUnset(r) ==
  LET p == wants[r].project
  IN  /\ Leaves(r, "writing", "done")
      /\ strategy' = [strategy EXCEPT ![p] =
           [f \in Fields |-> IF f \in wants[r].fields THEN r ELSE Nobody]]
      /\ UNCHANGED <<slug, name, giver>>

\* An UPDATE of these columns, or the INSERT, which the unique index on
\* project_id refuses when there is a row by now: a 500.
CommitStrategy(r) ==
  LET p  == wants[r].project
      ok == wants[r].found \/ strategy[p] = NoStrategy
  IN  /\ Leaves(r, "writing", IF ok THEN "done" ELSE "conflict")
      /\ strategy' = IF ok
           THEN [strategy EXCEPT ![p] =
                   [f \in Fields |-> IF f \in wants[r].fields THEN r
                                     ELSE strategy[p][f]]]
           ELSE strategy
      /\ UNCHANGED <<slug, name, giver>>

\* The transaction is rolled back.
EditAborted(r) ==
  /\ \E from \in {"creating", "renaming", "writing"} : Leaves(r, from, "refused")
  /\ UNCHANGED <<slug, name, strategy, giver>>

EditNext == \E r \in EditRequests :
  \/ \E n \in 0..MaxCopies : Create(r, n)
  \/ \E p \in Projects : Duplicate(r, p)
  \/ \E p \in Projects, n \in 0..MaxCopies : PatchSlug(r, p, n)
  \/ \E p \in Existing : PutStrategy(r, p) \/ GenerateStrategy(r, p)
  \/ CommitCreate(r) \/ CommitRename(r) \/ CommitStrategy(r)
  \/ EditAborted(r)

EditSpec == EditInit /\ [][EditNext]_editVars

-----------------------------------------------------------------------------
(* Properties                                                              *)

SlugClash(x, y) ==
  edit[x] = "done" /\ edit[y] = "done" /\ wants[x].slug = wants[y].slug
StrategyClash(x, y) ==
  edit[x] = "done" /\ edit[y] = "conflict"
    /\ wants[x].project = wants[y].project

\* Two projects of an organisation bear one slug only if the requests that
\* gave it to them overlapped: it is looked up before it is taken, and no
\* constraint backs the 409 of update_project (project_service.py:140-145,
\* 310-315; models/project.py:67 names one that is not there).  A request is
\* answered with a 500 only because of two that overlapped: such a slug, which
\* get_by_slug trips over ever after, or two first strategies of a project
\* (project_repository.py:29, search_strategy_repository.py:33-46).
ClashesComeFromOverlap ==
  /\ \A p, q \in Committed :
       p # q /\ slug[p] = slug[q] =>
         giver[p] # Nobody /\ giver[q] # Nobody /\ Together(giver[p], giver[q])
  /\ \A r \in EditRequests : edit[r] = "conflict" =>
       \/ \E x, y \in EditRequests : SlugClash(x, y) /\ Together(x, y)
       \/ \E x \in EditRequests : StrategyClash(x, r) /\ Together(x, r)

\* What a field of a strategy holds was written by the form or the generator
\* and by nothing that began later: no request restores a field that another
\* had written in the meantime (search_strategy_repository.py:38-43).
LaterFieldsStay ==
  \A p \in Existing, f \in Fields, x \in EditRequests :
    /\ edit[x] = "done" /\ wants[x].project = p /\ f \in wants[x].fields
    => strategy[p][f] # Nobody /\ strategy[p][f] \notin before[x]

=============================================================================

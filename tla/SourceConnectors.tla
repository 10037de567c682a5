-------------------------- MODULE SourceConnectors --------------------------
(***************************************************************************)
(* The preview of an external source (api/app/api/v1/search.py) and the    *)
(* paging of the connector that it reads (api/app/connectors), one preview *)
(* after the other; from each the client may import works.                 *)
(*                                                                         *)
(* What matches a query is ranked 1 to matches.  A page may be short of    *)
(* its size without being the last: sources drop records they cannot show. *)
(* Cursors are represented by the number of works they have passed.        *)
(***************************************************************************)
EXTENDS Integers, Sequences, FiniteSets

CONSTANTS
  MaxMatches, MaxLimit, MaxImports,  \* bounds on the instance
  PerPage,                           \* PER_PAGE, PAGE_SIZE, ...
  Attempts,                          \* RETRY_ATTEMPTS
  WithDoi                            \* the works that carry a DOI

ASSUME PagingAssumption ==
  /\ MaxMatches \in Nat /\ MaxLimit \in Nat /\ MaxImports \in Nat
  /\ PerPage \in Nat \ {0} /\ Attempts \in Nat \ {0}

VARIABLES
  lensToken,  \* LENS_API_TOKEN is configured
  source, matches, limit,  \* of the preview that is served
  stage,      \* of its fetch: asking, page, ended, failed; idle, over
  position,   \* offset, start or cursor
  tries,      \* failed attempts at the page
  page,       \* the answer being read
  at,         \* records of it already yielded
  results,    \* what the handler has collected
  reply,      \* status of the answer
  cut,        \* history: the source ended before its last match
  library     \* works imported into the project

connVars == <<lensToken, source, matches, limit, stage, position, tries,
              page, at, results, reply, cut, library>>

SearchSources ==
  {"openalex", "semantic_scholar", "lens", "crossref", "arxiv", "europe_pmc"}

Dois  == [form : {"url", "bare"}, case : {"lower", "mixed"}]
NoDoi == [form |-> "none", case |-> "lower"]

NoCursor == -1
NoPage == [size |-> 0, next |-> 0, total |-> 0, doi |-> NoDoi]

Documents ==
  [work : 1..MaxMatches, source : SearchSources, doi : Dois \cup {NoDoi}]

ConnTypeOK ==
  /\ lensToken \in BOOLEAN /\ cut \in BOOLEAN
  /\ source \in SearchSources \cup {"other"}
  /\ matches \in 0..MaxMatches /\ limit \in 0..MaxLimit
  /\ stage \in {"idle", "asking", "page", "ended", "failed", "over"}
  /\ position \in NoCursor..MaxMatches /\ tries \in 0..(Attempts - 1)
  /\ page.size \in 0..PerPage /\ page.next \in NoCursor..MaxMatches
  /\ page.total \in 0..MaxMatches /\ page.doi \in Dois \cup {NoDoi}
  /\ at \in 0..page.size
  /\ results \in Seq(Documents) /\ Len(results) <= limit
  /\ reply \in {0, 200, 400, 500, 502, 503}
  /\ library \in SUBSET Documents

ConnInit ==
  /\ lensToken \in BOOLEAN
  /\ source = "other" /\ matches = 0 /\ limit = 0
  /\ stage = "idle" /\ position = 0 /\ tries = 0
  /\ page = NoPage /\ at = 0 /\ results = <<>>
  /\ reply = 0 /\ cut = FALSE /\ library = {}

-----------------------------------------------------------------------------
(* What the connectors make of a record: the DOI is all that tells two     *)
(* records of one work to be the same.                                     *)

Lower(doi) == [doi EXCEPT !.case = "lower"]
AsUrl(doi) == IF doi = NoDoi THEN doi ELSE [doi EXCEPT !.form = "url"]

\* Mutant: the DOI is taken over as it is.
OpenAlexWorkAsIs(w, doi) == [work |-> w, source |-> "openalex", doi |-> doi]

OpenAlexWork(w, doi) ==
  [work |-> w, source |-> "openalex", doi |-> Lower(doi)]

SemanticScholarPaper(w, doi) ==
  [work |-> w, source |-> "semantic_scholar", doi |-> Lower(AsUrl(doi))]

LensRecord(w, doi) ==
  [work |-> w, source |-> "lens", doi |-> Lower(AsUrl(doi))]

CrossrefWork(w, doi) ==
  [work |-> w, source |-> "crossref", doi |-> Lower(doi)]

ArxivEntry(w, doi) ==
  [work |-> w, source |-> "arxiv", doi |-> Lower(doi)]

EuropePmcResult(w, doi) ==
  [work |-> w, source |-> "europe_pmc", doi |-> Lower(doi)]

\* The n-th record of the page.
Record(n) ==
  LET w   == position + n
      doi == IF w \in WithDoi THEN page.doi ELSE NoDoi
  IN  CASE source = "openalex" -> OpenAlexWork(w, doi)
        [] source = "semantic_scholar" -> SemanticScholarPaper(w, doi)
        [] source = "lens" -> LensRecord(w, doi)
        [] source = "crossref" -> CrossrefWork(w, doi)
        [] source = "arxiv" -> ArxivEntry(w, doi)
        [] source = "europe_pmc" -> EuropePmcResult(w, doi)

-----------------------------------------------------------------------------
(* What the sources answer to _fetch_page, as far as fetch looks at it.    *)
(* OpenAlex spells DOIs as URLs; Semantic Scholar and Lens either way; the *)
(* other three give the identifier alone (arXiv in a link, from which the  *)
(* connector cuts it out).                                                 *)

Spelled(forms) == {d \in Dois : d.form \in forms}

Sizes == {n \in 1..PerPage : position + n <= matches}

\* next_cursor is absent at the end, or leads to an empty page.
OpenAlexPages ==
  {[size |-> n, next |-> c, total |-> 0, doi |-> d] :
     n \in Sizes, c \in {position + k : k \in Sizes} \cup {NoCursor},
     d \in Spelled({"url"})}

SemanticScholarPages ==
  [size : Sizes, next : {0}, total : {0}, doi : Spelled({"url", "bare"})]

LensPages ==
  [size : Sizes, next : {0}, total : {0, matches},
   doi : Spelled({"url", "bare"})]

CrossrefPages ==
  [size : Sizes, next : {0}, total : {0}, doi : Spelled({"bare"})]

\* The feed tells its totalResults in the namespace of OpenSearch, and the
\* connector looks for it in that of Atom: it finds none.
ArxivPages ==
  [size : Sizes, next : {0}, total : {0}, doi : Spelled({"bare"})]

\* nextCursorMark repeats the cursor when nothing is left.
EuropePmcPages ==
  [size : Sizes, next : {position + k : k \in 0..PerPage} \cup {NoCursor},
   total : {0}, doi : Spelled({"bare"})]

\* A cursor passes the records of its page.
Consistent(p) == p.next = NoCursor \/ p.next = position + p.size
Repeated(p)   == p.next = position /\ position + p.size = matches

Pages ==
  CASE source = "openalex" -> {p \in OpenAlexPages : Consistent(p)}
    [] source = "semantic_scholar" -> SemanticScholarPages
    [] source = "lens" -> LensPages
    [] source = "crossref" -> CrossrefPages
    [] source = "arxiv" -> ArxivPages
    [] source = "europe_pmc" ->
         {p \in EuropePmcPages : Consistent(p) \/ Repeated(p)}

\* The page claims to be the last and is not.
CutsShort(p) ==
  /\ position + p.size < matches
  /\ \/ source \in {"openalex", "europe_pmc"} /\ p.next = NoCursor
     \/ source = "lens" /\ p.total = 0

-----------------------------------------------------------------------------

request == <<lensToken, source, matches, limit, library>>

\* Nothing is previewed after the last import of the instance.
\* A preview: an unknown source is a 400, Lens without a token a 503.  The
\* loop of fetch is entered with a limit above 0 only.
Preview(s, m, l) ==
  LET refused == IF s \notin SearchSources THEN 400
                 ELSE IF s = "lens" /\ ~lensToken THEN 503 ELSE 0
  IN  /\ stage \in {"idle", "over"} /\ Cardinality(library) < MaxImports
      /\ stage' = IF refused # 0 THEN "over"
                  ELSE IF l > 0 THEN "asking" ELSE "ended"
      /\ source' = s /\ matches' = m /\ limit' = l /\ reply' = refused
      /\ position' = 0 /\ tries' = 0 /\ page' = NoPage /\ at' = 0
      /\ results' = <<>> /\ cut' = FALSE
      /\ UNCHANGED <<lensToken, library>>

\* Mutant: an empty page is asked for again.
AnswerEmptyAskingAgain ==
  /\ stage = "asking"
  /\ tries' = 0 /\ cut' = (position < matches)
  /\ UNCHANGED <<stage, request, position, page, at, results, reply>>

\* A page without records ends the loop.
AnswerEmpty ==
  /\ stage = "asking"
  /\ stage' = "ended" /\ tries' = 0 /\ cut' = (position < matches)
  /\ UNCHANGED <<request, position, page, at, results, reply>>

AnswerPage ==
  /\ stage = "asking"
  /\ stage' = "page" /\ tries' = 0 /\ at' = 0
  /\ page' \in Pages
  /\ cut' = CutsShort(page')
  /\ UNCHANGED <<request, position, results, reply>>

\* HTTPStatusError, TimeoutException and ConnectError are tried again.
TryAgain ==
  /\ stage = "asking" /\ tries + 1 < Attempts
  /\ tries' = tries + 1
  /\ UNCHANGED <<stage, request, position, page, at, results, reply, cut>>

\* Mutant: after the last attempt the page counts as empty.
GiveUpQuietly ==
  /\ stage = "asking" /\ tries + 1 = Attempts
  /\ stage' = "ended" /\ tries' = 0
  /\ UNCHANGED <<request, position, page, at, results, reply, cut>>

\* ... and raised by the last attempt: a 502.
GiveUp ==
  /\ stage = "asking" /\ tries + 1 = Attempts
  /\ stage' = "failed" /\ reply' = 502
  /\ UNCHANGED <<request, position, tries, page, at, results, cut>>

\* Anything else is not tried again, a 500: a connection lost while reading,
\* an answer that is no JSON or XML, a record that cannot be normalised.
Raises ==
  /\ stage = "asking" \/ (stage = "page" /\ at < page.size)
  /\ stage' = "failed" /\ reply' = 500
  /\ UNCHANGED <<request, position, tries, page, at, results, cut>>

\* Mutant: the limit is looked at between the pages only.
YieldWholePage ==
  /\ stage = "page" /\ at < page.size
  /\ results' = Append(results, Record(at + 1))
  /\ at' = at + 1
  /\ UNCHANGED <<stage, request, position, tries, page, reply, cut>>

Yield ==
  /\ stage = "page" /\ at < page.size /\ Len(results) < limit
  /\ results' = Append(results, Record(at + 1))
  /\ at' = at + 1
  /\ UNCHANGED <<stage, request, position, tries, page, reply, cut>>

-----------------------------------------------------------------------------
(* The end of a page, connector by connector                               *)

\* All its records are yielded, or enough of them.  The loop ends on its
\* break or its condition.
AfterPage(s, next, break) ==
  /\ stage = "page" /\ source = s
  /\ at = page.size \/ Len(results) = limit
  /\ position' = next
  /\ stage' = IF break \/ Len(results) = limit THEN "ended" ELSE "asking"
  /\ UNCHANGED <<request, tries, page, at, results, reply, cut>>

OpenAlexAfterPage == AfterPage("openalex", page.next, page.next = NoCursor)

SemanticScholarAfterPage ==
  AfterPage("semantic_scholar", position + page.size, FALSE)

LensAfterPage ==
  AfterPage("lens", position + page.size, position + page.size >= page.total)

\* Mutant: the offset moves on by the size asked for.
CrossrefAfterPageBySize ==
  /\ position + PerPage <= MaxMatches
  /\ AfterPage("crossref", position + PerPage, FALSE)

CrossrefAfterPage == AfterPage("crossref", position + page.size, FALSE)

ArxivAfterPage ==
  AfterPage("arxiv", position + page.size, position + page.size >= page.total)

\* Mutant: only a missing cursor ends the loop.
EuropePmcAfterPageRepeating ==
  AfterPage("europe_pmc", IF page.next = NoCursor THEN position ELSE page.next,
            page.next = NoCursor)

EuropePmcAfterPage ==
  LET break == page.next \in {NoCursor, position}
  IN  AfterPage("europe_pmc", IF break THEN position ELSE page.next, break)

\* The connector is closed, the state of its fetch is gone, and the client
\* answered with the results or an error.
Answer ==
  /\ stage \in {"ended", "failed"}
  /\ stage' = "over"
  /\ reply' = IF stage = "ended" THEN 200 ELSE reply
  /\ position' = 0 /\ tries' = 0 /\ page' = NoPage /\ at' = 0
  /\ UNCHANGED <<request, results, cut>>

-----------------------------------------------------------------------------

\* collect_from_search with one of the results: a DOI that a document has,
\* letter by letter, is skipped; a work without DOI never is.
Import(d) ==
  /\ stage = "over" /\ reply = 200
  /\ Cardinality(library) < MaxImports
  /\ library' = IF d.doi # NoDoi /\ \E x \in library : x.doi = d.doi
                                                    /\ x.work = d.work
                THEN library ELSE library \cup {d}
  /\ UNCHANGED <<lensToken, source, matches, limit, stage, position, tries,
                 page, at, results, reply, cut>>

Fetching ==
  \/ AnswerEmpty \/ AnswerPage \/ TryAgain \/ GiveUp \/ Raises \/ Yield
  \/ OpenAlexAfterPage \/ SemanticScholarAfterPage \/ LensAfterPage
  \/ CrossrefAfterPage \/ ArxivAfterPage \/ EuropePmcAfterPage \/ Answer

ConnNext ==
  \/ \E s \in SearchSources \cup {"other"}, m \in 0..MaxMatches,
        l \in 0..MaxLimit : Preview(s, m, l)
  \/ Fetching
  \/ \E i \in DOMAIN results : Import(results[i])

\* Every wait of the connectors has a timeout: the client's, the pause
\* between requests, the backoff.  Clients need not preview or import.
ConnSpec == ConnInit /\ [][ConnNext]_connVars /\ WF_connVars(Fetching)

-----------------------------------------------------------------------------
(* Properties                                                              *)

Wanted == IF limit < matches THEN limit ELSE matches

\* Whatever pages a source answers with, a fetch yields its matches in their
\* order, none twice and none left out, at most max_results of them
\* (openalex.py:114-142, lens.py:150-176 and their siblings).
Stream == INSTANCE SourceStream WITH
  produced <- [i \in DOMAIN results |-> results[i].work],
  bound    <- Wanted,
  open     <- stage \in {"asking", "page"}

ImplementsStream == Stream!Spec

\* A preview that is answered with 200 holds all that was asked for, unless
\* the source cut its list short or it is arXiv's, which is always left after
\* one page: a page that failed is never taken for the end of the list, and
\* part of a list is never sent (search.py:119-130, 196-216).
PreviewComplete ==
  stage = "over" /\ reply = 200 /\ ~cut /\ source # "arxiv"
    => Len(results) = Wanted

\* Every preview is answered, however short the pages of its source and
\* whichever of them are empty or fail (openalex.py:114-123).
EveryPreviewAnswered == [](stage = "asking" => <>(stage = "over"))

\* Works that no page has passed, and what is left to do with the page or the
\* attempts at hand.
WorksLeft == IF stage \in {"asking", "page"} THEN matches - position + 1 ELSE 0
StepsLeft ==
  CASE stage = "asking" -> PerPage + Attempts - tries + 1
    [] stage = "page" -> page.size - at
    [] stage \in {"ended", "failed"} -> 1
    [] OTHER -> 0

\* No step of a fetch leaves it as far from its answer as it was, whatever its
\* source sends: attempts run out, pages pass their works, and a cursor that
\* leads nowhere ends the loop (openalex.py:43-50, 114-142, europe_pmc.py:95-98).
FetchAdvances ==
  [][stage \notin {"idle", "over"} =>
       /\ WorksLeft' \in Nat /\ StepsLeft' \in Nat
       /\ \/ WorksLeft' < WorksLeft
          \/ WorksLeft' = WorksLeft /\ StepsLeft' < StepsLeft]_connVars

\* The connectors spell a DOI in one of two ways.
UrlSources == {"openalex", "semantic_scholar", "lens"}

\* A work with a DOI is imported a second time only from a source that
\* spells its DOI otherwise: as a URL, which the contract of connectors asks
\* for (base.py:53), or bare (crossref.py:139, arxiv.py:184).
ImportedOncePerSpelling ==
  \A d, e \in library :
    d # e /\ d.work = e.work /\ d.work \in WithDoi
      => (d.source \in UrlSources) # (e.source \in UrlSources)

=============================================================================

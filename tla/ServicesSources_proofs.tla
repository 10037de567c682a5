----------------------- MODULE ServicesSources_proofs -----------------------
(***************************************************************************)
(* Proofs about sources, the rate limiter and the search for paths in      *)
(* Services, whatever the sizes of pages and windows, and the types of all *)
(* parts.                                                                  *)
(***************************************************************************)
EXTENDS Services_proofs, SequenceTheorems

-----------------------------------------------------------------------------
(* Sources: pages and records                                              *)

\* What a page says of itself, whichever source it is from.
GoodPage(p) ==
  /\ p.size \in 1..PerPage /\ position + p.size <= matches
  /\ p.next \in NoCursor..MaxMatches /\ p.total \in 0..MaxMatches
  /\ p.doi \in Dois
  /\ source = "openalex" => p.doi.form = "url"
  /\ source \in {"crossref", "arxiv", "europe_pmc"} => p.doi.form = "bare"
  /\ source = "openalex" => p.next \in {NoCursor, position + p.size}
  /\ source = "europe_pmc" =>
       \/ p.next \in {NoCursor, position + p.size}
       \/ p.next = position /\ position + p.size = matches
  /\ source = "lens" => p.total \in {0, matches}

\* The DOI of a work is spelled as its source spells it.
SpelledBySource(d) ==
  d.doi = IF d.work \in WithDoi
          THEN [form |-> IF d.source \in UrlSources THEN "url" ELSE "bare",
                case |-> "lower"]
          ELSE NoDoi

\* Every answer that has records is a good page.
LEMMA PagesAreGood ==
  ASSUME source \in SearchSources, position \in 0..MaxMatches,
         matches \in 0..MaxMatches, NEW p \in Pages
  PROVE  GoodPage(p)
<1> USE PagingAssumption DEF Sizes, Spelled, NoCursor
<1>0. \A n \in Sizes : n \in 1..PerPage /\ position + n <= matches
  OBVIOUS
<1>1. CASE source = "openalex"
  <2>1. p \in OpenAlexPages /\ Consistent(p)
    BY <1>1 DEF Pages
  <2>. QED
    BY <1>1, <2>1 DEF OpenAlexPages, Consistent, GoodPage
<1>2. CASE source = "semantic_scholar"
  BY <1>2 DEF Pages, SemanticScholarPages, GoodPage
<1>3. CASE source = "lens"
  BY <1>3 DEF Pages, LensPages, GoodPage
<1>4. CASE source = "crossref"
  BY <1>4 DEF Pages, CrossrefPages, GoodPage
<1>5. CASE source = "arxiv"
  BY <1>5 DEF Pages, ArxivPages, GoodPage
<1>6. CASE source = "europe_pmc"
  <2>1. p \in EuropePmcPages /\ (Consistent(p) \/ Repeated(p))
    BY <1>6 DEF Pages
  <2>. QED
    BY <1>6, <2>1 DEF EuropePmcPages, Consistent, Repeated, GoodPage
<1>. QED
  BY <1>1, <1>2, <1>3, <1>4, <1>5, <1>6 DEF SearchSources

\* The connectors give the n-th record of a page its rank and the spelling of
\* its source.
LEMMA RecordFacts ==
  ASSUME source \in SearchSources, position \in 0..MaxMatches,
         matches \in 0..MaxMatches, GoodPage(page), NEW n \in 1..page.size
  PROVE  /\ Record(n) \in Documents
         /\ Record(n).work = position + n
         /\ SpelledBySource(Record(n))
<1> DEFINE w == position + n
           doi == IF w \in WithDoi THEN page.doi ELSE NoDoi
<1>1. w \in 1..MaxMatches /\ doi \in Dois \cup {NoDoi}
  BY PagingAssumption DEF GoodPage
<1>2. /\ page.doi.form \in {"url", "bare"}
      /\ Lower(page.doi) = [form |-> page.doi.form, case |-> "lower"]
      /\ Lower(AsUrl(page.doi)) = [form |-> "url", case |-> "lower"]
      /\ Lower(NoDoi) = NoDoi /\ Lower(AsUrl(NoDoi)) = NoDoi
  BY DEF GoodPage, Dois, NoDoi, Lower, AsUrl
<1>3. CASE source = "openalex"
  <2>1. Record(n) = OpenAlexWork(w, doi)
    BY <1>3 DEF Record
  <2>. QED
    BY <1>1, <1>2, <1>3, <2>1
       DEF OpenAlexWork, Documents, SpelledBySource, UrlSources, GoodPage, Dois, SearchSources
<1>4. CASE source = "semantic_scholar"
  <2>1. Record(n) = SemanticScholarPaper(w, doi)
    BY <1>4 DEF Record
  <2>. QED
    BY <1>1, <1>2, <1>4, <2>1
       DEF SemanticScholarPaper, Documents, SpelledBySource, UrlSources, GoodPage, Dois, SearchSources
<1>5. CASE source = "lens"
  <2>1. Record(n) = LensRecord(w, doi)
    BY <1>5 DEF Record
  <2>. QED
    BY <1>1, <1>2, <1>5, <2>1
       DEF LensRecord, Documents, SpelledBySource, UrlSources, GoodPage, Dois, SearchSources
<1>6. CASE source = "crossref"
  <2>1. Record(n) = CrossrefWork(w, doi)
    BY <1>6 DEF Record
  <2>. QED
    BY <1>1, <1>2, <1>6, <2>1
       DEF CrossrefWork, Documents, SpelledBySource, UrlSources, GoodPage, Dois, SearchSources
<1>7. CASE source = "arxiv"
  <2>1. Record(n) = ArxivEntry(w, doi)
    BY <1>7 DEF Record
  <2>. QED
    BY <1>1, <1>2, <1>7, <2>1
       DEF ArxivEntry, Documents, SpelledBySource, UrlSources, GoodPage, Dois, SearchSources
<1>8. CASE source = "europe_pmc"
  <2>1. Record(n) = EuropePmcResult(w, doi)
    BY <1>8 DEF Record
  <2>. QED
    BY <1>1, <1>2, <1>8, <2>1
       DEF EuropePmcResult, Documents, SpelledBySource, UrlSources, GoodPage, Dois, SearchSources
<1>. QED
  BY <1>3, <1>4, <1>5, <1>6, <1>7, <1>8 DEF SearchSources

-----------------------------------------------------------------------------
(* Sources: the fetch                                                      *)

\* Where a fetch is, its results are the first works of the list.
FetchInv ==
  /\ stage \in {"asking", "page"} =>
       source \in SearchSources /\ position \in 0..matches
  /\ stage = "asking" => Len(results) = position /\ Len(results) < limit
  /\ stage = "page" => /\ GoodPage(page) /\ cut = CutsShort(page)
                       /\ Len(results) = position + at
  /\ stage = "ended" /\ ~cut /\ source # "arxiv" => Len(results) = Wanted
  /\ stage = "failed" => reply \in {500, 502}
  /\ stage = "idle" => results = <<>>

\* The results are the works in their order, spelled as their source does.
ResultsInv ==
  /\ Len(results) <= matches
  /\ \A i \in 1..Len(results) :
       results[i].work = i /\ SpelledBySource(results[i])

LibraryInv == \A d \in library : SpelledBySource(d)

ConnInv ==
  /\ ConnTypeOK /\ FetchInv /\ ResultsInv /\ LibraryInv
  /\ PreviewComplete /\ ImportedOncePerSpelling

\* The types of a fetch at its beginning.
LEMMA NoPageFits ==
  /\ NoPage.size = 0 /\ NoPage.size \in 0..PerPage
  /\ NoPage.next \in NoCursor..MaxMatches
  /\ NoPage.total \in 0..MaxMatches /\ NoPage.doi \in Dois \cup {NoDoi}
  /\ 0 \in NoCursor..MaxMatches /\ 0 \in 0..(Attempts - 1)
  /\ 0 \in 0..MaxMatches /\ 0 \in 0..MaxLimit /\ 0 \in 0..0
BY PagingAssumption DEF NoPage, NoCursor

\* Before the first preview there are no results.
LEMMA InitConn == ConnInit => ConnInv
<1> SUFFICES ASSUME ConnInit PROVE ConnInv
  OBVIOUS
<1> USE PagingAssumption DEF ConnInit
<1>1. ConnTypeOK
  <2>1. results \in Seq(Documents) /\ Len(results) = 0
    OBVIOUS
  <2>. QED
    <3>1. lensToken \in BOOLEAN /\ cut \in BOOLEAN /\ library \in SUBSET Documents
      OBVIOUS
    <3>2. /\ page.size \in 0..PerPage /\ page.next \in NoCursor..MaxMatches
          /\ page.total \in 0..MaxMatches /\ page.doi \in Dois \cup {NoDoi}
          /\ at \in 0..page.size
      BY NoPageFits
    <3>3. /\ position \in NoCursor..MaxMatches /\ tries \in 0..(Attempts - 1)
          /\ matches \in 0..MaxMatches /\ limit \in 0..MaxLimit
          /\ Len(results) <= limit
      BY <2>1, NoPageFits
    <3>. QED
      BY <2>1, <3>1, <3>2, <3>3 DEF ConnTypeOK
<1>2. FetchInv /\ ResultsInv
  BY DEF FetchInv, ResultsInv
<1>3. LibraryInv /\ PreviewComplete /\ ImportedOncePerSpelling
  BY DEF LibraryInv, PreviewComplete, ImportedOncePerSpelling
<1>. QED
  BY <1>1, <1>2, <1>3 DEF ConnInv

\* A preview starts without results, and is complete at once if nothing is
\* wanted.
LEMMA StepPreview ==
  ASSUME ConnInv,
         NEW s \in SearchSources \cup {"other"}, NEW m \in 0..MaxMatches,
         NEW l \in 0..MaxLimit, Preview(s, m, l)
  PROVE  ConnInv'
<1> USE PagingAssumption DEF Preview
<1>1. results' \in Seq(Documents) /\ Len(results') = 0
  OBVIOUS
<1>2. ConnTypeOK'
  <2>1. /\ page'.size \in 0..PerPage /\ page'.next \in NoCursor..MaxMatches
        /\ page'.total \in 0..MaxMatches /\ page'.doi \in Dois \cup {NoDoi}
        /\ at' \in 0..page'.size
    BY NoPageFits
  <2>2. /\ position' \in NoCursor..MaxMatches /\ tries' \in 0..(Attempts - 1)
        /\ Len(results') <= limit'
    BY <1>1, NoPageFits
  <2>3. /\ lensToken' \in BOOLEAN /\ cut' \in BOOLEAN
        /\ library' \in SUBSET Documents
    <3>1. lensToken \in BOOLEAN /\ library \in SUBSET Documents
      BY ONLY ConnInv DEF ConnInv, ConnTypeOK
    <3>2. lensToken' = lensToken /\ library' = library /\ cut' = FALSE
      BY Zenon
    <3>. QED
      BY ONLY <3>1, <3>2
  <2>4. reply' \in {0, 200, 400, 500, 502, 503}
    BY SMT
  <2>. QED
    BY <1>1, <2>1, <2>2, <2>3, <2>4 DEF ConnTypeOK
<1>3. FetchInv' /\ ResultsInv'
  BY <1>1, <1>2 DEF FetchInv, ResultsInv, Wanted, ConnTypeOK, SearchSources
<1>4. LibraryInv' /\ ImportedOncePerSpelling'
  BY DEF ConnInv, LibraryInv, ImportedOncePerSpelling, SpelledBySource
<1>5. PreviewComplete'
  BY DEF PreviewComplete
<1>. QED
  BY <1>2, <1>3, <1>4, <1>5 DEF ConnInv

\* What a step keeps that neither imports nor changes the results.
LEMMA ResultsStay ==
  ASSUME ConnInv, UNCHANGED <<source, matches, results, library>>
  PROVE  ResultsInv' /\ LibraryInv' /\ ImportedOncePerSpelling'
BY DEF ConnInv, ResultsInv, LibraryInv, ImportedOncePerSpelling,
       SpelledBySource

\* An answer without records: the list is at its end, or cut short.
LEMMA StepEmpty ==
  ASSUME ConnInv, AnswerEmpty
  PROVE  ConnInv'
<1> USE PagingAssumption DEF AnswerEmpty, request
<1>1. ConnTypeOK'
  BY DEF ConnInv, ConnTypeOK
<1>2. FetchInv'
  <2>1. /\ position \in 0..matches /\ matches \in Nat /\ limit \in Nat
        /\ Len(results) = position /\ Len(results) < limit
        /\ stage' = "ended"
    BY DEF ConnInv, ConnTypeOK, FetchInv
  <2>2. ~cut' => ~(position < matches)
    BY Zenon
  <2>. QED
    BY <2>1, <2>2 DEF FetchInv, Wanted
<1>3. PreviewComplete'
  BY DEF PreviewComplete
<1>. QED
  BY <1>1, <1>2, <1>3, ResultsStay DEF ConnInv

\* A page to be read.
LEMMA StepPage ==
  ASSUME ConnInv, AnswerPage
  PROVE  ConnInv'
<1> USE PagingAssumption DEF AnswerPage, request
<1>1. GoodPage(page') /\ cut' = CutsShort(page')
  BY PagesAreGood DEF ConnInv, ConnTypeOK, FetchInv
<1>2. CutsShort(page') \in BOOLEAN
  BY DEF CutsShort
<1>3. ConnTypeOK'
  <2>1. /\ page'.size \in 0..PerPage /\ page'.next \in NoCursor..MaxMatches
        /\ page'.total \in 0..MaxMatches /\ page'.doi \in Dois \cup {NoDoi}
        /\ at' \in 0..page'.size
    BY <1>1 DEF GoodPage
  <2>2. stage' = "page" /\ tries' = 0 /\ cut' \in BOOLEAN
    BY <1>1, <1>2
  <2>3. UNCHANGED <<request, position, results, reply>>
    OBVIOUS
  <2>4. 0 \in 0..(Attempts - 1)
    OBVIOUS
  <2>5. ConnTypeOK
    BY DEF ConnInv
  <2>. QED
    BY ONLY <2>1, <2>2, <2>3, <2>4, <2>5 DEF ConnTypeOK, request
<1>4. GoodPage(page)' /\ (cut = CutsShort(page))'
  BY <1>1 DEF GoodPage, CutsShort
<1>5. FetchInv'
  BY <1>4 DEF ConnInv, ConnTypeOK, FetchInv
<1>6. PreviewComplete'
  BY DEF PreviewComplete
<1>. QED
  BY <1>3, <1>5, <1>6, ResultsStay DEF ConnInv

\* A failed attempt: another, or the end of the fetch.
LEMMA StepFailure ==
  ASSUME ConnInv, TryAgain \/ GiveUp \/ Raises
  PROVE  ConnInv'
<1> USE PagingAssumption DEF TryAgain, GiveUp, Raises, request
<1>1. ConnTypeOK'
  <2>1. tries' \in 0..(Attempts - 1)
    <3>1. tries \in 0..(Attempts - 1)
      BY DEF ConnInv, ConnTypeOK
    <3>2. tries' = tries \/ (tries' = tries + 1 /\ tries + 1 < Attempts)
      BY Zenon
    <3>. QED
      BY ONLY <3>1, <3>2, PagingAssumption
  <2>2. stage' \in {"asking", "failed"} /\ reply' \in {reply, 500, 502}
    BY DEF ConnInv, ConnTypeOK
  <2>3. UNCHANGED <<request, position, page, at, results, cut>>
    OBVIOUS
  <2> HIDE DEF TryAgain, GiveUp, Raises
  <2>. QED
    BY <2>1, <2>2, <2>3 DEF ConnInv, ConnTypeOK
<1>2. FetchInv'
  <2>1. CASE TryAgain
    BY <2>1 DEF ConnInv, FetchInv
  <2>2. CASE GiveUp \/ Raises
    BY <2>2 DEF FetchInv
  <2>. QED
    BY <2>1, <2>2
<1>3. PreviewComplete'
  BY DEF PreviewComplete
<1>. QED
  BY <1>1, <1>2, <1>3, ResultsStay DEF ConnInv

\* The next record is the next work of the list.
LEMMA StepYield ==
  ASSUME ConnInv, Yield
  PROVE  ConnInv'
<1> USE PagingAssumption DEF Yield, request
<1> DEFINE r == Record(at + 1)
<1>1. /\ source \in SearchSources /\ position \in 0..MaxMatches
      /\ matches \in 0..MaxMatches /\ GoodPage(page)
      /\ at \in Nat /\ at + 1 \in 1..page.size
      /\ Len(results) = position + at /\ cut = CutsShort(page)
      /\ position \in Nat /\ page.size \in Nat
      /\ position + page.size <= matches
  BY DEF ConnInv, ConnTypeOK, FetchInv, GoodPage
<1>2. r \in Documents /\ r.work = position + (at + 1) /\ SpelledBySource(r)
  BY <1>1, RecordFacts
<1>3. results \in Seq(Documents)
  BY DEF ConnInv, ConnTypeOK
<1> HIDE DEF r
<1>4. results' = Append(results, r)
  BY DEF r
<1>5. /\ results' \in Seq(Documents) /\ Len(results') = Len(results) + 1
      /\ \A i \in 1..Len(results) : results'[i] = results[i]
      /\ results'[Len(results) + 1] = r
  BY <1>2, <1>3, <1>4, AppendProperties
<1>6. ConnTypeOK'
  <2>1. /\ at' \in 0..page.size /\ results' \in Seq(Documents)
        /\ Len(results') <= limit
    BY <1>1, <1>5 DEF ConnInv, ConnTypeOK
  <2>2. UNCHANGED <<stage, request, position, tries, page, reply, cut>>
    OBVIOUS
  <2>3. ConnTypeOK
    BY DEF ConnInv
  <2>. QED
    BY ONLY <2>1, <2>2, <2>3 DEF ConnTypeOK, request
<1>7. FetchInv'
  <2>1. GoodPage(page)' /\ (cut = CutsShort(page))'
    BY <1>1 DEF GoodPage, CutsShort
  <2>. QED
    BY <1>1, <1>5, <2>1 DEF ConnInv, ConnTypeOK, FetchInv
<1>8. ResultsInv'
  <2>1. Len(results') <= matches'
    BY <1>1, <1>5 DEF ConnInv, ConnTypeOK
  <2>2. ASSUME NEW i \in 1..Len(results')
        PROVE  results'[i].work = i /\ SpelledBySource(results'[i])
    <3>1. Len(results) \in Nat
      BY <1>3
    <3>2. CASE i \in 1..Len(results)
      BY <1>5, <3>2 DEF ConnInv, ResultsInv
    <3>3. CASE i = Len(results) + 1
      BY <1>1, <1>2, <1>5, <3>3
    <3>. QED
      BY <1>5, <2>2, <3>1, <3>2, <3>3
  <2>. QED
    BY <2>1, <2>2 DEF ResultsInv, SpelledBySource
<1>9. LibraryInv' /\ ImportedOncePerSpelling' /\ PreviewComplete'
  BY DEF ConnInv, LibraryInv, ImportedOncePerSpelling, PreviewComplete,
         SpelledBySource
<1>. QED
  BY <1>6, <1>7, <1>8, <1>9 DEF ConnInv

\* The end of a page, for any connector: where it goes on, the results are
\* what came before, and where it ends they are all, or arXiv's.
LEMMA StepAfterPage ==
  ASSUME ConnInv, NEW s, NEW next \in NoCursor..MaxMatches,
         NEW break \in BOOLEAN, AfterPage(s, next, break),
         ~break => next = position + page.size,
         break /\ ~CutsShort(page) /\ source # "arxiv"
           => position + page.size = matches
  PROVE  ConnInv'
<1> USE PagingAssumption DEF AfterPage, request
<1>1. /\ source \in SearchSources /\ position \in 0..matches
      /\ matches \in 0..MaxMatches /\ GoodPage(page)
      /\ at \in 0..page.size /\ page.size \in Nat
      /\ Len(results) = position + at /\ cut = CutsShort(page)
      /\ Len(results) <= limit /\ Len(results) <= matches
      /\ limit \in Nat /\ position + page.size <= matches
  BY DEF ConnInv, ConnTypeOK, FetchInv, GoodPage, ResultsInv
<1>2. ConnTypeOK'
  BY DEF ConnInv, ConnTypeOK
<1>3. FetchInv'
  <2>1. CASE stage' = "asking"
    BY <1>1, <2>1 DEF FetchInv
  <2>2. CASE stage' = "ended"
    BY <1>1, <2>2 DEF FetchInv, Wanted
  <2>. QED
    BY <2>1, <2>2
<1>4. PreviewComplete'
  BY DEF PreviewComplete
<1>. QED
  BY <1>2, <1>3, <1>4, ResultsStay DEF ConnInv

\* Each connector ends its pages so.
LEMMA EndsOfPages ==
  ASSUME ConnInv,
         \/ OpenAlexAfterPage \/ SemanticScholarAfterPage \/ LensAfterPage
         \/ CrossrefAfterPage \/ ArxivAfterPage \/ EuropePmcAfterPage
  PROVE  \E s \in SearchSources, next \in NoCursor..MaxMatches,
            break \in BOOLEAN :
           /\ AfterPage(s, next, break)
           /\ ~break => next = position + page.size
           /\ break /\ ~CutsShort(page) /\ source # "arxiv"
                => position + page.size = matches
<1> USE DEF SearchSources
<1>1. /\ GoodPage(page) /\ position \in 0..matches
      /\ matches \in 0..MaxMatches /\ page.size \in 1..PerPage
      /\ position + page.size \in NoCursor..MaxMatches
      /\ position \in NoCursor..MaxMatches
      /\ page.next \in NoCursor..MaxMatches /\ page.total \in Nat
  <2>1. stage = "page"
    BY Zenon
       DEF AfterPage, OpenAlexAfterPage, SemanticScholarAfterPage,
           LensAfterPage, CrossrefAfterPage, ArxivAfterPage,
           EuropePmcAfterPage
  <2>2. /\ GoodPage(page) /\ position \in 0..matches
        /\ matches \in 0..MaxMatches
    BY <2>1 DEF ConnInv, ConnTypeOK, FetchInv
  <2>3. /\ page.size \in 1..PerPage /\ position + page.size <= matches
        /\ page.next \in NoCursor..MaxMatches
        /\ page.total \in 0..MaxMatches
    BY <2>2 DEF GoodPage
  <2>. QED
    BY ONLY <2>2, <2>3, PagingAssumption DEF NoCursor
<1>2. CASE OpenAlexAfterPage
  <2>1. AfterPage("openalex", page.next, page.next = NoCursor)
    BY <1>2 DEF OpenAlexAfterPage
  <2>2. source = "openalex"
    BY <2>1 DEF AfterPage
  <2>3. /\ page.next # NoCursor => page.next = position + page.size
        /\ page.next = NoCursor /\ ~CutsShort(page)
             => position + page.size = matches
    BY <1>1, <2>2 DEF GoodPage, CutsShort
  <2>. QED
    BY <1>1, <2>1, <2>3
<1>3. CASE SemanticScholarAfterPage
  <2>1. AfterPage("semantic_scholar", position + page.size, FALSE)
    BY <1>3 DEF SemanticScholarAfterPage
  <2>. QED
    BY <1>1, <2>1
<1>4. CASE LensAfterPage
  <2>1. AfterPage("lens", position + page.size,
                  position + page.size >= page.total)
    BY <1>4 DEF LensAfterPage
  <2>2. source = "lens"
    BY <2>1 DEF AfterPage
  <2>3. position + page.size >= page.total /\ ~CutsShort(page)
          => position + page.size = matches
    BY <1>1, <2>2 DEF GoodPage, CutsShort
  <2> DEFINE break == position + page.size >= page.total
  <2>4. break \in BOOLEAN
    OBVIOUS
  <2>5. AfterPage("lens", position + page.size, break)
    BY <2>1
  <2>6. break /\ ~CutsShort(page) => position + page.size = matches
    BY <2>3
  <2> HIDE DEF break
  <2>. QED
    BY <1>1, <2>2, <2>4, <2>5, <2>6
<1>5. CASE CrossrefAfterPage
  <2>1. AfterPage("crossref", position + page.size, FALSE)
    BY <1>5 DEF CrossrefAfterPage
  <2>. QED
    BY <1>1, <2>1
<1>6. CASE ArxivAfterPage
  <2>1. AfterPage("arxiv", position + page.size,
                  position + page.size >= page.total)
    BY <1>6 DEF ArxivAfterPage
  <2>2. source = "arxiv"
    BY <2>1 DEF AfterPage
  <2> DEFINE break == position + page.size >= page.total
  <2>3. AfterPage("arxiv", position + page.size, break) /\ break \in BOOLEAN
    BY <2>1
  <2> HIDE DEF break
  <2>. QED
    BY <1>1, <2>2, <2>3
<1>7. CASE EuropePmcAfterPage
  <2> DEFINE break == page.next \in {NoCursor, position}
             next == IF break THEN position ELSE page.next
  <2>1. AfterPage("europe_pmc", next, break)
    BY <1>7 DEF EuropePmcAfterPage
  <2>2. source = "europe_pmc"
    BY <2>1 DEF AfterPage
  <2>3. /\ ~break => next = position + page.size
        /\ break /\ ~CutsShort(page) => position + page.size = matches
        /\ next \in NoCursor..MaxMatches /\ break \in BOOLEAN
    BY <1>1, <2>2 DEF GoodPage, CutsShort
  <2> HIDE DEF break, next
  <2>. QED
    BY <2>1, <2>3
<1>. QED
  BY <1>2, <1>3, <1>4, <1>5, <1>6, <1>7

\* What they keep.
LEMMA StepAfterPages ==
  ASSUME ConnInv,
         \/ OpenAlexAfterPage \/ SemanticScholarAfterPage \/ LensAfterPage
         \/ CrossrefAfterPage \/ ArxivAfterPage \/ EuropePmcAfterPage
  PROVE  ConnInv'
BY EndsOfPages, StepAfterPage

\* The client is answered.
LEMMA StepAnswer ==
  ASSUME ConnInv, Answer
  PROVE  ConnInv'
<1> USE PagingAssumption DEF Answer, request
<1>1. ConnTypeOK'
  BY DEF ConnInv, ConnTypeOK, NoPage, NoCursor
<1>2. FetchInv' /\ PreviewComplete'
  BY DEF ConnInv, FetchInv, PreviewComplete, Wanted
<1>. QED
  BY <1>1, <1>2, ResultsStay DEF ConnInv

\* What is imported has the spelling of its source, and no document of the
\* library has the same DOI for the same work.
LEMMA StepImport ==
  ASSUME ConnInv, NEW i \in DOMAIN results, Import(results[i])
  PROVE  ConnInv'
<1> DEFINE d == results[i]
<1>1. d \in Documents /\ SpelledBySource(d)
  BY DEF ConnInv, ConnTypeOK, ResultsInv
<1>2. CASE library' = library
  <2>1. ConnTypeOK' /\ LibraryInv' /\ ImportedOncePerSpelling'
    BY <1>2 DEF Import, ConnInv, ConnTypeOK, LibraryInv,
                ImportedOncePerSpelling, SpelledBySource
  <2>2. FetchInv' /\ ResultsInv' /\ PreviewComplete'
    BY DEF Import, ConnInv, FetchInv, ResultsInv, PreviewComplete,
           SpelledBySource, Wanted
  <2>. QED
    BY <2>1, <2>2 DEF ConnInv
<1>3. CASE /\ library' = library \cup {d}
           /\ d.doi = NoDoi \/ \A x \in library :
                                  x.doi = d.doi => x.work # d.work
  <2> HIDE DEF d
  <2>1. ConnTypeOK' /\ LibraryInv'
    BY <1>1, <1>3 DEF Import, ConnInv, ConnTypeOK, LibraryInv, SpelledBySource
  <2>2. FetchInv' /\ ResultsInv' /\ PreviewComplete'
    BY DEF Import, ConnInv, FetchInv, ResultsInv, PreviewComplete,
           SpelledBySource, Wanted
  <2>3. ASSUME NEW x \in library, x.work = d.work, d.work \in WithDoi
        PROVE  (x.source \in UrlSources) # (d.source \in UrlSources)
    <3>1. SpelledBySource(x)
      BY DEF ConnInv, LibraryInv
    <3>2. d.doi # NoDoi
      BY <1>1, <2>3 DEF SpelledBySource, NoDoi
    <3>3. x.doi # d.doi
      BY <1>3, <2>3, <3>2
    <3>. QED
      BY <1>1, <2>3, <3>1, <3>3 DEF SpelledBySource
  <2>4. ImportedOncePerSpelling'
    BY <1>3, <2>3 DEF ConnInv, ImportedOncePerSpelling
  <2>. QED
    BY <2>1, <2>2, <2>4 DEF ConnInv
<1>. QED
  BY <1>2, <1>3 DEF Import

\* Every step of sources keeps the invariant.
LEMMA StepConn == ConnInv /\ [ConnNext]_connVars => ConnInv'
<1> SUFFICES ASSUME ConnInv, [ConnNext]_connVars PROVE ConnInv'
  OBVIOUS
<1>1. CASE UNCHANGED connVars
  <2> USE <1>1 DEF connVars
  <2>1. ConnTypeOK'
    BY DEF ConnInv, ConnTypeOK
  <2>2. FetchInv'
    <3>1. (GoodPage(page) <=> GoodPage(page)') /\ CutsShort(page)' = CutsShort(page)
      BY DEF GoodPage, CutsShort
    <3>2. Wanted' = Wanted
      BY DEF Wanted
    <3>. QED
      BY <3>1, <3>2 DEF ConnInv, FetchInv
  <2>3. PreviewComplete'
    BY DEF ConnInv, PreviewComplete, Wanted
  <2>. QED
    BY <2>1, <2>2, <2>3, ResultsStay DEF ConnInv
<1>2. CASE \E s \in SearchSources \cup {"other"}, m \in 0..MaxMatches,
              l \in 0..MaxLimit : Preview(s, m, l)
  BY <1>2, StepPreview
<1>3. CASE Fetching
  BY <1>3, StepEmpty, StepPage, StepFailure, StepYield, StepAfterPages,
     StepAnswer DEF Fetching
<1>4. CASE \E i \in DOMAIN results : Import(results[i])
  BY <1>4, StepImport
<1>. QED
  BY <1>1, <1>2, <1>3, <1>4 DEF ConnNext

\* What is known of a fetch and of the library, always.
LEMMA ConnInvariance == Spec => []ConnInv
<1>1. Init => ConnInv
  BY InitConn DEF Init
<1>2. ConnInv /\ [Next]_vars => ConnInv'
  BY StepOfParts, StepConn
<1>. QED
  BY <1>1, <1>2, PTL DEF Spec

\* A preview answered with 200 has all that was wanted, unless its source cut
\* the list short or is arXiv (search.py:119-130, 196-216): where a fetch
\* stands, it has yielded as many works as it has passed.
THEOREM PreviewsComplete == Spec => []PreviewComplete
BY ConnInvariance, PTL DEF ConnInv

\* A work with a DOI comes twice into a project only from sources that spell
\* DOIs differently (base.py:53, crossref.py:139): each spells all of its
\* own in one way.
THEOREM OncePerSpelling == Spec => []ImportedOncePerSpelling
BY ConnInvariance, PTL DEF ConnInv

-----------------------------------------------------------------------------
(* Sources: the end of a fetch                                             *)

\* What is left of a fetch only grows less.
Closer ==
  /\ WorksLeft' \in Nat /\ StepsLeft' \in Nat
  /\ \/ WorksLeft' < WorksLeft
     \/ WorksLeft' = WorksLeft /\ StepsLeft' < StepsLeft

\* What is left of a request, of a page and of an answer.
AtHand ==
  /\ stage \in {"asking", "page"} =>
       /\ WorksLeft = matches - position + 1
       /\ position \in 0..matches /\ matches \in Nat
  /\ stage \notin {"asking", "page"} => WorksLeft = 0
  /\ stage = "asking" => /\ StepsLeft = PerPage + Attempts - tries + 1
                         /\ tries \in 0..(Attempts - 1)
  /\ stage = "page" => /\ StepsLeft = page.size - at
                       /\ page.size \in 1..PerPage /\ at \in 0..page.size
  /\ stage \in {"ended", "failed"} => StepsLeft = 1
  /\ stage = "over" => StepsLeft = 0

\* The variant of a fetch, place by place, from the type and the invariant.
LEMMA LeftAtHand == ConnInv => AtHand
<1> SUFFICES ASSUME ConnInv PROVE AtHand
  OBVIOUS
<1>1. tries \in 0..(Attempts - 1) /\ matches \in Nat
  BY PagingAssumption DEF ConnInv, ConnTypeOK
<1>2. stage \in {"asking", "page"} => position \in 0..matches
  BY DEF ConnInv, FetchInv
<1>3. stage = "page" => page.size \in 1..PerPage /\ at \in 0..page.size
  BY DEF ConnInv, ConnTypeOK, FetchInv, GoodPage
<1>. QED
  BY ONLY <1>1, <1>2, <1>3 DEF AtHand, WorksLeft, StepsLeft

\* Each step of a fetch, and the answer, leaves less to do.
LEMMA StepCloser ==
  ASSUME ConnInv, stage \notin {"idle", "over"}, ConnNext
  PROVE  Closer
<1>1. Fetching
  BY Zenon DEF ConnNext, Preview, Import
<1>2. ConnInv'
  BY StepConn
<1>3. AtHand /\ AtHand'
  BY <1>2, LeftAtHand, PTL
<1>4. PerPage \in Nat \ {0} /\ Attempts \in Nat \ {0}
  BY PagingAssumption
<1>5. CASE AnswerEmpty \/ GiveUp \/ Raises
  <2>1. stage \in {"asking", "page"} /\ stage' \in {"ended", "failed"}
    BY <1>5 DEF AnswerEmpty, GiveUp, Raises
  <2>. QED
    BY ONLY <1>3, <2>1 DEF AtHand, Closer
<1>6. CASE AnswerPage
  <2>1. /\ stage = "asking" /\ stage' = "page" /\ at' = 0
        /\ UNCHANGED <<matches, position>>
    BY <1>6 DEF AnswerPage, request
  <2>. QED
    BY ONLY <1>3, <1>4, <2>1 DEF AtHand, Closer
<1>7. CASE TryAgain
  <2>1. /\ stage = "asking" /\ stage' = "asking" /\ tries' = tries + 1
        /\ UNCHANGED <<matches, position>>
    BY <1>7 DEF TryAgain, request
  <2>. QED
    BY ONLY <1>3, <1>4, <2>1 DEF AtHand, Closer
<1>8. CASE Yield
  <2>1. /\ stage = "page" /\ stage' = "page" /\ at' = at + 1
        /\ UNCHANGED <<matches, position, page>>
    BY <1>8 DEF Yield, request
  <2>. QED
    BY ONLY <1>3, <2>1 DEF AtHand, Closer
<1>9. CASE \/ OpenAlexAfterPage \/ SemanticScholarAfterPage \/ LensAfterPage
           \/ CrossrefAfterPage \/ ArxivAfterPage \/ EuropePmcAfterPage
  <2>1. PICK s \in SearchSources, next \in NoCursor..MaxMatches,
             break \in BOOLEAN :
          AfterPage(s, next, break) /\ (~break => next = position + page.size)
    BY <1>9, EndsOfPages
  <2>2. /\ stage = "page" /\ stage' \in {"asking", "ended"}
        /\ stage' = "asking" => position' = position + page.size
        /\ UNCHANGED matches
    BY <2>1 DEF AfterPage, request
  <2>. QED
    BY ONLY <1>3, <1>4, <2>2 DEF AtHand, Closer
<1>10. CASE Answer
  <2>1. stage \in {"ended", "failed"} /\ stage' = "over"
    BY <1>10 DEF Answer
  <2>. QED
    BY ONLY <1>3, <2>1 DEF AtHand, Closer
<1>. QED
  BY <1>1, <1>5, <1>6, <1>7, <1>8, <1>9, <1>10 DEF Fetching

\* Nothing is less than what has no work left and no step: no fetch goes on
\* for ever.
LEMMA NothingIsLessForever ==
  IsWellFoundedOn(LexPairOrdering(OpToRel(<, Nat), OpToRel(<, Nat), Nat, Nat),
                  Nat \X Nat)
BY NatLessThanWellFounded, WFLexPairOrdering

\* A fetch ends whatever its source answers (openalex.py:43-50, 114-142 and
\* the siblings): each step leaves fewer works to page, or fewer steps to take
\* with the page or the attempts at hand.
THEOREM FetchesAdvance == Spec => FetchAdvances
<1>1. ConnInv /\ [Next]_vars
        => [stage \notin {"idle", "over"} => Closer]_connVars
  <2> SUFFICES ASSUME ConnInv, [Next]_vars, connVars' # connVars,
                      stage \notin {"idle", "over"}
               PROVE  Closer
    BY Zenon
  <2>1. ConnNext
    BY Zenon DEF Next, vars, Sources, Limiter, People, Edits, Search
  <2>. QED
    BY <2>1, StepCloser
<1>2. [stage \notin {"idle", "over"} => Closer]_connVars
        => [stage \notin {"idle", "over"} =>
              /\ WorksLeft' \in Nat /\ StepsLeft' \in Nat
              /\ \/ WorksLeft' < WorksLeft
                 \/ WorksLeft' = WorksLeft /\ StepsLeft' < StepsLeft]_connVars
  BY DEF Closer
<1>. QED
  BY <1>1, <1>2, ConnInvariance, PTL DEF Spec, FetchAdvances

-----------------------------------------------------------------------------
(* Sources: the stream                                                     *)

Works  == [i \in DOMAIN results |-> results[i].work]
IsOpen == stage \in {"asking", "page"}

\* What a fetch has yielded is the list up to some work.
LEMMA WorksAreRanks ==
  ASSUME results \in Seq(Documents), ResultsInv
  PROVE  Works = [i \in 1..Len(results) |-> i]
BY DEF Works, ResultsInv

\* Numbers in their order, and one more.
LEMMA NextRank ==
  ASSUME NEW n \in Nat
  PROVE  /\ [i \in 1..n |-> i] \in Seq(Nat) /\ Len([i \in 1..n |-> i]) = n
         /\ Append([i \in 1..n |-> i], n + 1) = [i \in 1..(n + 1) |-> i]
<1> DEFINE s == [i \in 1..n |-> i]
           t == [i \in 1..(n + 1) |-> i]
<1>1. s \in Seq(Nat) /\ Len(s) = n /\ t \in Seq(Nat) /\ Len(t) = n + 1
  OBVIOUS
<1>2. /\ Append(s, n + 1) \in Seq(Nat) /\ Len(Append(s, n + 1)) = n + 1
      /\ \A i \in 1..n : Append(s, n + 1)[i] = s[i]
      /\ Append(s, n + 1)[n + 1] = n + 1
  BY <1>1, AppendProperties
<1>3. \A i \in 1..(n + 1) : Append(s, n + 1)[i] = t[i]
  BY <1>1, <1>2
<1>4. Append(s, n + 1) = t
  BY <1>1, <1>2, <1>3, SeqEqual
<1>. QED
  BY <1>1, <1>4

\* The stream, in terms of the fetch.
LEMMA StreamNext ==
  /\ Works' = <<>> /\ Wanted' \in Nat /\ IsOpen' \in BOOLEAN /\ ~IsOpen
       => Stream!Next
  /\ (IsOpen /\ Len(Works) < Wanted
        /\ Works' = Append(Works, Len(Works) + 1)
        /\ UNCHANGED <<Wanted, IsOpen>>)
       => Stream!Next
  /\ IsOpen /\ IsOpen' = FALSE /\ UNCHANGED <<Works, Wanted>> => Stream!Next
<1>1. ASSUME Works' = <<>>, Wanted' \in Nat, IsOpen' \in BOOLEAN, ~IsOpen
      PROVE  Stream!Open
  BY <1>1, Zenon DEF Works, IsOpen, Stream!Open
<1>2. ASSUME IsOpen, Len(Works) < Wanted,
             Works' = Append(Works, Len(Works) + 1),
             UNCHANGED <<Wanted, IsOpen>>
      PROVE  Stream!Yield
  BY <1>2, Zenon DEF Works, IsOpen, Stream!Yield
<1>3. ASSUME IsOpen, IsOpen' = FALSE, UNCHANGED <<Works, Wanted>>
      PROVE  Stream!Close
  BY <1>3, Zenon DEF Works, IsOpen, Stream!Close
<1>. QED
  BY <1>1, <1>2, <1>3, Zenon DEF Stream!Next

\* A fetch that has not begun is an empty stream.
LEMMA InitStream == ConnInit => Stream!Init
<1> SUFFICES ASSUME ConnInit PROVE Stream!Init
  OBVIOUS
<1>1. results = <<>> /\ limit = 0 /\ matches = 0 /\ stage = "idle"
  BY DEF ConnInit
<1>2. [i \in DOMAIN results |-> results[i].work] = <<>>
  BY <1>1
<1>. QED
  BY <1>1, <1>2 DEF Stream!Init, Wanted

\* Every step of a preview opens a stream, yields its next work, closes it or
\* leaves it alone.
LEMMA StepStream ==
  ConnInv /\ ConnInv' /\ [ConnNext]_connVars => [Stream!Next]_Stream!streamVars
<1> SUFFICES ASSUME ConnInv, ConnInv', [ConnNext]_connVars
             PROVE  \/ Stream!Next \/ UNCHANGED <<Works, Wanted, IsOpen>>
  BY DEF Works, IsOpen, Stream!streamVars
<1>1. results \in Seq(Documents) /\ results' \in Seq(Documents)
  BY DEF ConnInv, ConnTypeOK
<1>2. UNCHANGED results => UNCHANGED Works
  BY DEF Works
<1>3. UNCHANGED <<limit, matches>> => UNCHANGED Wanted
  BY DEF Wanted
<1>4. UNCHANGED stage => UNCHANGED IsOpen
  BY DEF IsOpen
<1>5. CASE UNCHANGED connVars
  BY <1>2, <1>3, <1>4, <1>5 DEF connVars
<1>6. ASSUME NEW s \in SearchSources \cup {"other"},
             NEW m \in 0..MaxMatches, NEW l \in 0..MaxLimit, Preview(s, m, l)
      PROVE  Stream!Next
  <2>1. results' = <<>> /\ limit' \in Nat /\ matches' \in Nat
    BY <1>6, PagingAssumption DEF Preview
  <2>2. Works' = <<>>
    BY <2>1 DEF Works
  <2>3. Wanted' \in Nat
    BY <2>1 DEF Wanted
  <2>4. ~IsOpen
    BY <1>6 DEF Preview, IsOpen
  <2>5. IsOpen' \in BOOLEAN
    BY DEF IsOpen
  <2>. QED
    BY <2>2, <2>3, <2>4, <2>5, StreamNext
<1>7. CASE AnswerPage \/ TryAgain \/ Answer
           \/ \E i \in DOMAIN results : Import(results[i])
  <2>1. UNCHANGED <<results, limit, matches>>
    BY <1>7 DEF AnswerPage, TryAgain, Answer, Import, request
  <2>2. UNCHANGED IsOpen
    BY <1>7 DEF AnswerPage, TryAgain, Answer, Import, IsOpen
  <2>. QED
    BY <1>2, <1>3, <2>1, <2>2
<1>8. CASE AnswerEmpty \/ GiveUp \/ Raises
  <2>1. UNCHANGED <<results, limit, matches>>
    BY <1>8 DEF AnswerEmpty, GiveUp, Raises, request
  <2>2. IsOpen /\ ~IsOpen'
    BY <1>8 DEF AnswerEmpty, GiveUp, Raises, IsOpen
  <2>3. IsOpen' = FALSE
    BY <2>2 DEF IsOpen
  <2>. QED
    BY <1>2, <1>3, <2>1, <2>2, <2>3, StreamNext
<1>9. ASSUME NEW s, NEW next, NEW break, AfterPage(s, next, break)
      PROVE  Stream!Next \/ UNCHANGED <<Works, Wanted, IsOpen>>
  <2>1. UNCHANGED <<results, limit, matches>> /\ stage = "page"
    BY <1>9 DEF AfterPage, request
  <2>2. stage' = "ended" \/ stage' = "asking"
    BY <1>9 DEF AfterPage
  <2>3. CASE stage' = "ended"
    <3>1. IsOpen /\ IsOpen' = FALSE
      BY <2>1, <2>3 DEF IsOpen
    <3>. QED
      BY <1>2, <1>3, <2>1, <3>1, StreamNext
  <2>4. CASE stage' = "asking"
    <3>1. UNCHANGED IsOpen
      BY <2>1, <2>4 DEF IsOpen
    <3>. QED
      BY <1>2, <1>3, <2>1, <3>1
  <2>. QED
    BY <2>2, <2>3, <2>4
<1>10. CASE Yield
  <2> DEFINE n == Len(results)
  <2>1. n \in Nat /\ Len(results') = n + 1
    BY <1>1, <1>10, LenProperties, AppendProperties DEF Yield
  <2>2. Works = [i \in 1..n |-> i]
    BY <1>1, WorksAreRanks DEF ConnInv
  <2>3. Works' = [i \in 1..(n + 1) |-> i]
    <3>1. results' \in Seq(Documents) /\ ResultsInv'
      BY DEF ConnInv, ConnTypeOK
    <3>. QED
      BY <2>1, <3>1 DEF Works, ResultsInv
  <2>4. Len(Works) = n /\ Works' = Append(Works, Len(Works) + 1)
    BY <2>1, <2>2, <2>3, NextRank
  <2>5. n < Wanted
    <3>1. stage = "page" /\ at < page.size /\ n < limit
      BY <1>10 DEF Yield
    <3>2. /\ GoodPage(page) /\ n = position + at
          /\ position \in 0..matches /\ matches \in Nat /\ limit \in Nat
          /\ at \in 0..page.size
      BY <3>1 DEF ConnInv, ConnTypeOK, FetchInv
    <3>3. page.size \in Nat /\ position + page.size <= matches
      BY <3>2, PagingAssumption DEF GoodPage
    <3>. QED
      BY <3>1, <3>2, <3>3 DEF Wanted
  <2>6. UNCHANGED <<Wanted, IsOpen>> /\ IsOpen
    BY <1>3, <1>4, <1>10 DEF Yield, request, IsOpen
  <2>. QED
    BY <2>4, <2>5, <2>6, StreamNext
<1>. QED
  BY <1>5, <1>6, <1>7, <1>8, <1>9, <1>10
     DEF ConnNext, Fetching, OpenAlexAfterPage, SemanticScholarAfterPage,
         LensAfterPage, CrossrefAfterPage, ArxivAfterPage, EuropePmcAfterPage

\* Whatever its pages, a connector yields the matches of its query in their
\* order, none twice and none left out, at most max_results of them
\* (base.py:67-82, openalex.py:114-142): a preview implements SourceStream.
THEOREM FetchIsAStream == Spec => ImplementsStream
<1>1. Init => Stream!Init
  BY InitStream DEF Init
<1>2. ConnInv /\ ConnInv' /\ [Next]_vars => [Stream!Next]_Stream!streamVars
  BY StepOfParts, StepStream
<1>. QED
  BY <1>1, <1>2, ConnInvariance, PTL DEF Spec, ImplementsStream, Stream!Spec

-----------------------------------------------------------------------------
(* The rate limiter                                                        *)

\* No clock is further ahead than MaxSkew.
LEMMA SkewIsBounded ==
  MaxSkew \in Nat /\ \A p \in Servers : Skew[p] \in Nat /\ Skew[p] <= MaxSkew
<1>1. PICK p \in Servers : \A q \in Servers : Skew[q] <= Skew[p]
  BY LimiterAssumption
<1>2. /\ MaxSkew \in {Skew[q] : q \in Servers}
      /\ \A q \in Servers : Skew[q] <= MaxSkew
  <2>1. /\ Skew[p] \in {Skew[q] : q \in Servers}
        /\ \A q \in Servers : Skew[q] <= Skew[p]
    BY <1>1
  <2>. QED
    BY <2>1 DEF MaxSkew
<1>. QED
  BY <1>2, LimiterAssumption

\* Calls are numbered as they come, and none is from later.
CallsInv ==
  /\ IsFiniteSet(calls) /\ Cardinality(calls) <= MaxCalls
  /\ \A c \in calls : c.id \in 1..Cardinality(calls) /\ c.time <= now
  /\ \A c, d \in calls : c.id = d.id => c = d

\* An entry has the score of the clock that a call was served by.
EntriesInv ==
  /\ IsFiniteSet(entries)
  /\ \A e \in entries : \E d \in calls :
       d.id = e[2] /\ d.time <= e[1] /\ e[1] <= d.time + MaxSkew
  /\ \A e, f \in entries : e[2] = f[2] => e = f

\* What counts is kept as long as any clock has it in its window.
KeptInv ==
  \A d \in calls : d.answer \in {"counted", "limited"} =>
    /\ expires >= d.time + Window
    /\ now - d.time < Window - MaxSkew => \E e \in entries : e[2] = d.id

RateInv == RateTypeOK /\ CallsInv /\ EntriesInv /\ KeptInv /\ SlidingWindow

\* Nothing has come yet.
LEMMA InitRate == RateInit => RateInv
<1> SUFFICES ASSUME RateInit PROVE RateInv
  OBVIOUS
<1>1. IsFiniteSet({}) /\ Cardinality({}) = 0
  BY FS_EmptySet
<1>2. RateTypeOK
  BY LimiterAssumption DEF RateInit, RateTypeOK
<1>. QED
  BY <1>1, <1>2, LimiterAssumption
     DEF RateInit, RateInv, CallsInv, EntriesInv, KeptInv, SlidingWindow

\* A call that comes next, whatever the answer: the calls before keep their
\* numbers, and with them what they say of the window.
LEMMA NextCall ==
  ASSUME RateInv, Cardinality(calls) < MaxCalls, UNCHANGED now,
         NEW how \in {"counted", "limited", "uncounted"}, Answered(how),
         NEW c, c = [id |-> Cardinality(calls) + 1, time |-> now,
                     answer |-> how]
  PROVE  /\ calls' = calls \cup {c} /\ c \notin calls
         /\ c.id \in Calls /\ c.id = Cardinality(calls) + 1
         /\ c \in [id : Calls, time : 0..MaxNow,
                   answer : {"counted", "limited", "uncounted"}]
         /\ Cardinality(calls) \in Nat /\ CallsInv'
         /\ \A b \in calls : /\ b.id < c.id
                             /\ CountedUpTo(b)' = CountedUpTo(b)
                             /\ Reasons(b)' = Reasons(b)
<1>1. calls' = calls \cup {c}
  BY DEF Answered
<1>2. Cardinality(calls) \in Nat /\ IsFiniteSet(calls)
  BY FS_CardinalityType DEF RateInv, CallsInv
<1>3. \A b \in calls : b.id \in Nat /\ b.id < c.id /\ b.time \in Nat
  BY <1>2 DEF RateInv, CallsInv, RateTypeOK
<1>4. c \notin calls
  BY <1>3
<1>5. IsFiniteSet(calls') /\ Cardinality(calls') = Cardinality(calls) + 1
  BY <1>1, <1>2, <1>4, FS_AddElement
<1>6. c.id \in Calls /\ now \in 0..MaxNow
  BY <1>2, LimiterAssumption DEF RateInv, RateTypeOK, Calls
<1>7. CallsInv'
  <2>1. /\ IsFiniteSet(calls)' /\ (Cardinality(calls) <= MaxCalls)'
    BY <1>2, <1>5, LimiterAssumption
  <2>2. \A b \in calls' : b.id \in 1..Cardinality(calls') /\ b.time <= now'
    BY <1>1, <1>2, <1>5, <1>6 DEF RateInv, CallsInv
  <2>3. \A b, d \in calls' : b.id = d.id => b = d
    BY <1>1, <1>3 DEF RateInv, CallsInv
  <2>. QED
    BY <2>1, <2>2, <2>3 DEF CallsInv
<1>8. ASSUME NEW b \in calls
      PROVE  CountedUpTo(b)' = CountedUpTo(b) /\ Reasons(b)' = Reasons(b)
  <2>1. ~(c.id <= b.id) /\ ~(c.id < b.id)
    BY <1>2, <1>3
  <2>. QED
    BY <1>1, <2>1 DEF CountedUpTo, Reasons
<1>. QED
  BY <1>1, <1>2, <1>3, <1>4, <1>6, <1>7, <1>8

\* One set has no more elements than another, if each of them has a
\* counterpart there of its own.
LEMMA NoMore ==
  ASSUME NEW S, NEW T, IsFiniteSet(T), NEW f \in [S -> T],
         \A x, y \in S : f[x] = f[y] => x = y
  PROVE  /\ IsFiniteSet(S) /\ Cardinality(S) <= Cardinality(T)
         /\ Cardinality(S) \in Nat /\ Cardinality(T) \in Nat
<1>1. f \in Injection(S, T)
  BY DEF Injection, IsInjective
<1>. QED
  BY <1>1, FS_Injection, FS_CardinalityType

\* The script of a call: the entries of its window, its own among them.
LEMMA CountedEntries ==
  ASSUME RateInv, NEW p \in Servers, Counted(p),
         NEW how \in {"counted", "limited", "uncounted"}, Answered(how),
         NEW c, c = [id |-> Cardinality(calls) + 1, time |-> now,
                     answer |-> how],
         NEW new, new = <<now + Skew[p], Cardinality(calls) + 1>>
  PROVE  /\ entries' \subseteq entries \cup {new} /\ new \in entries'
         /\ \A e \in entries : e[1] >= now + MaxSkew - Window + 1
                                 => e \in entries'
         /\ \A e \in entries' : e[1] > (now + Skew[p]) - Window
         /\ entries' \in SUBSET (Nat \X Calls)
         /\ EntriesInv' /\ KeptInv'
<1>1. /\ Cardinality(calls) < MaxCalls /\ UNCHANGED now
      /\ entries' = InWindow(now + Skew[p]) /\ expires' = now + Window
  BY DEF Counted
<1>2. /\ calls' = calls \cup {c} /\ c \notin calls
      /\ c.id \in Calls /\ c.id = Cardinality(calls) + 1
      /\ Cardinality(calls) \in Nat
      /\ \A b \in calls : b.id < c.id
  BY <1>1, NextCall
<1>3. /\ now \in Nat /\ Window \in Nat \ {0}
      /\ MaxSkew \in Nat /\ Skew[p] \in Nat /\ Skew[p] <= MaxSkew
  BY SkewIsBounded, LimiterAssumption DEF RateInv, RateTypeOK
<1>4. entries \in SUBSET (Nat \X Calls) /\ new \in Nat \X Calls
  BY <1>2, <1>3 DEF RateInv, RateTypeOK
<1>5. new[1] = now + Skew[p] /\ new[2] = c.id
  BY <1>2
<1>6. entries' = {e \in entries \cup {new} : e[1] > (now + Skew[p]) - Window}
  <2>1. Added(now + Skew[p]) = entries \cup {new}
    BY DEF Added
  <2>2. InWindow(now + Skew[p]) =
          {e \in Added(now + Skew[p]) : e[1] > (now + Skew[p]) - Window}
    BY DEF InWindow
  <2>. QED
    BY ONLY <1>1, <2>1, <2>2
<1>7. \A e \in entries : e[1] \in Nat /\ e[2] \in Nat
  BY <1>4 DEF Calls
<1>8. new \in entries' /\ entries' \subseteq entries \cup {new}
  BY <1>3, <1>5, <1>6
<1>9. ASSUME NEW e \in entries, e[1] >= now + MaxSkew - Window + 1
      PROVE  e \in entries'
  BY <1>3, <1>6, <1>7, <1>9
<1>10. EntriesInv'
  <2>1. IsFiniteSet(entries')
    <3>1. IsFiniteSet(entries \cup {new})
      BY FS_AddElement DEF RateInv, EntriesInv
    <3>. QED
      BY <1>8, <3>1, FS_Subset
  <2>2. ASSUME NEW e \in entries'
        PROVE  \E d \in calls' : d.id = e[2] /\ d.time <= e[1]
                                 /\ e[1] <= d.time + MaxSkew
    <3>1. CASE e \in entries
      BY <1>2, <3>1 DEF RateInv, EntriesInv
    <3>2. CASE e = new
      BY <1>2, <1>3, <1>5, <3>2
    <3>. QED
      BY <1>8, <3>1, <3>2
  <2>3. \A e \in entries : e[2] # new[2]
    BY <1>2, <1>5 DEF RateInv, EntriesInv, CallsInv
  <2>4. \A e, f \in entries' : e[2] = f[2] => e = f
    BY <1>8, <2>3 DEF RateInv, EntriesInv
  <2>. QED
    BY <2>1, <2>2, <2>4 DEF EntriesInv
<1>11. KeptInv'
  <2>1. ASSUME NEW d \in calls', d.answer \in {"counted", "limited"}
        PROVE  /\ expires' >= d.time + Window
               /\ now' - d.time < Window - MaxSkew
                    => \E e \in entries' : e[2] = d.id
    <3>1. CASE d = c
      BY <1>1, <1>3, <1>5, <1>8, <3>1
    <3>2. CASE d \in calls
      <4>1. d.time \in Nat /\ d.time <= now
        BY <3>2 DEF RateInv, CallsInv, RateTypeOK
      <4>2. ASSUME now - d.time < Window - MaxSkew
            PROVE  \E e \in entries' : e[2] = d.id
        <5>1. PICK e \in entries : e[2] = d.id
          BY <2>1, <3>2, <4>2 DEF RateInv, KeptInv
        <5>2. PICK b \in calls : b.id = e[2] /\ b.time <= e[1]
          BY DEF RateInv, EntriesInv
        <5>3. b = d
          BY <3>2, <5>1, <5>2 DEF RateInv, CallsInv
        <5>. QED
          BY <1>3, <1>7, <1>9, <4>1, <4>2, <5>1, <5>2, <5>3
      <4>. QED
        BY <1>1, <1>3, <4>1, <4>2
    <3>. QED
      BY <1>2, <3>1, <3>2
  <2>. QED
    BY <2>1 DEF KeptInv
<1>. QED
  BY <1>4, <1>6, <1>8, <1>9, <1>10, <1>11

\* An answered request: it passes with no more than the limit in its window,
\* and is limited with as many before it.
LEMMA StepRequest ==
  ASSUME RateInv, NEW p \in Servers, Request(p)
  PROVE  RateInv'
<1> DEFINE how == IF Cardinality(entries') > Limit THEN "limited"
                                                   ELSE "counted"
           c   == [id |-> Cardinality(calls) + 1, time |-> now,
                   answer |-> how]
           new == <<now + Skew[p], Cardinality(calls) + 1>>
<1>1. /\ Counted(p) /\ Answered(how) /\ how \in {"counted", "limited"}
      /\ how = "counted" => ~(Cardinality(entries') > Limit)
      /\ how = "limited" => Cardinality(entries') > Limit
  BY DEF Request
<1>2. Cardinality(calls) < MaxCalls /\ UNCHANGED now /\ expires' = now + Window
  BY <1>1 DEF Counted
<1>3. c.id = Cardinality(calls) + 1 /\ c.time = now /\ c.answer = how
  OBVIOUS
<1>4. new[1] = now + Skew[p] /\ new[2] = c.id
  OBVIOUS
<1>5. PICK x, n : x = c /\ n = new
  OBVIOUS
<1>6. how \in {"counted", "limited", "uncounted"}
  BY <1>1
<1> HIDE DEF how
<1>7. /\ calls' = calls \cup {x} /\ x \notin calls /\ x.id \in Calls
      /\ x \in [id : Calls, time : 0..MaxNow,
                answer : {"counted", "limited", "uncounted"}]
      /\ Cardinality(calls) \in Nat /\ CallsInv'
      /\ \A b \in calls : /\ b.id < x.id
                          /\ CountedUpTo(b)' = CountedUpTo(b)
                          /\ Reasons(b)' = Reasons(b)
  BY <1>1, <1>2, <1>5, <1>6, NextCall
<1>8. /\ entries' \subseteq entries \cup {n} /\ n \in entries'
      /\ \A e \in entries' : e[1] > (now + Skew[p]) - Window
      /\ entries' \in SUBSET (Nat \X Calls) /\ EntriesInv' /\ KeptInv'
  BY <1>1, <1>5, <1>6, CountedEntries
<1>9. /\ x.id = Cardinality(calls) + 1 /\ x.time = now /\ x.answer = how
      /\ n[2] = x.id
  BY <1>3, <1>4, <1>5
<1> HIDE DEF c, new
<1>10. /\ now \in Nat /\ Window \in Nat \ {0} /\ Limit \in Nat
       /\ MaxSkew \in Nat /\ Skew[p] \in Nat /\ Skew[p] <= MaxSkew
       /\ now \in 0..MaxNow /\ MaxNow \in Nat
  BY SkewIsBounded, LimiterAssumption DEF RateInv, RateTypeOK
<1>11. RateTypeOK'
  <2>1. calls' \in SUBSET [id : Calls, time : 0..MaxNow,
                           answer : {"counted", "limited", "uncounted"}]
    BY <1>7 DEF RateInv, RateTypeOK
  <2>2. now' \in 0..MaxNow /\ expires' \in 0..(MaxNow + Window)
    BY <1>2, <1>10
  <2>. QED
    BY <1>8, <2>1, <2>2 DEF RateTypeOK
<1>12. IsFiniteSet(entries') /\ Cardinality(entries') \in Nat
  BY <1>8, FS_CardinalityType DEF EntriesInv
<1>13. ASSUME x.answer = "counted"
       PROVE  Cardinality(CountedUpTo(x)') <= Limit
  <2> DEFINE S == CountedUpTo(x)'
             f == [d \in S |-> CHOOSE e \in entries' : e[2] = d.id]
  <2>1. \A d \in S : d \in calls' /\ \E e \in entries' : e[2] = d.id
    BY <1>2, <1>8, <1>9 DEF CountedUpTo, KeptInv
  <2>2. f \in [S -> entries'] /\ \A d \in S : f[d][2] = d.id
    BY <2>1
  <2>3. \A d, e \in S : f[d] = f[e] => d = e
    BY <1>7, <2>1, <2>2 DEF CallsInv
  <2> HIDE DEF S, f
  <2>4. Cardinality(S) <= Cardinality(entries') /\ Cardinality(S) \in Nat
    BY <1>12, <2>2, <2>3, NoMore
  <2>5. ~(Cardinality(entries') > Limit)
    BY <1>1, <1>9, <1>13
  <2>. QED
    BY <1>10, <1>12, <2>4, <2>5 DEF S
<1>14. ASSUME x.answer = "limited"
       PROVE  Cardinality(Reasons(x)') >= Limit
  <2> DEFINE S == entries' \ {n}
             T == Reasons(x)'
             f == [e \in S |-> CHOOSE d \in calls : d.id = e[2]]
  <2>1. IsFiniteSet(T)
    <3>1. T \in SUBSET calls' /\ IsFiniteSet(calls')
      BY <1>7 DEF Reasons, CallsInv
    <3>. QED
      BY <3>1, FS_Subset
  <2>2. ASSUME NEW e \in S
        PROVE  \E d \in calls : d.id = e[2] /\ d \in T
    <3>1. e \in entries /\ e[1] \in Nat
      BY <1>8
    <3>2. PICK d \in calls : d.id = e[2] /\ e[1] <= d.time + MaxSkew
      BY <3>1 DEF RateInv, EntriesInv
    <3>3. d.time \in Nat
      BY DEF RateInv, RateTypeOK
    <3>4. now - d.time < Window + MaxSkew
      BY <1>8, <1>10, <3>1, <3>2, <3>3
    <3>. QED
      BY <1>7, <1>9, <3>2, <3>4 DEF Reasons
  <2>3. \A d, e \in calls : d.id = e.id => d = e
    BY DEF RateInv, CallsInv
  <2>4. f \in [S -> T] /\ \A e \in S : f[e].id = e[2]
    BY <2>2, <2>3
  <2>5. \A d, e \in S : f[d] = f[e] => d = e
    BY <1>8, <2>4 DEF EntriesInv
  <2>6. Cardinality(S) = Cardinality(entries') - 1
    BY <1>8, <1>12, FS_RemoveElement
  <2> HIDE DEF S, f, T
  <2>7. /\ Cardinality(S) <= Cardinality(T)
        /\ Cardinality(S) \in Nat /\ Cardinality(T) \in Nat
    BY <2>1, <2>4, <2>5, NoMore
  <2>8. Cardinality(entries') > Limit
    BY <1>1, <1>9, <1>14
  <2>. QED
    BY <1>10, <1>12, <2>6, <2>7, <2>8 DEF T
<1>15. SlidingWindow'
  <2>1. \A b \in calls :
          /\ b.answer = "counted" => Cardinality(CountedUpTo(b)') <= Limit
          /\ b.answer = "limited" => Cardinality(Reasons(b)') >= Limit
    BY <1>7 DEF RateInv, SlidingWindow
  <2>. QED
    BY <1>7, <1>13, <1>14, <2>1 DEF SlidingWindow
<1>. QED
  BY <1>7, <1>8, <1>11, <1>15 DEF RateInv

\* A request that passes because Redis did not answer: counted or not.
LEMMA StepUncounted ==
  ASSUME RateInv,
         RequestWithoutRedis \/ \E p \in Servers : RequestUnanswered(p)
  PROVE  RateInv'
<1>1. PICK x : x = [id |-> Cardinality(calls) + 1, time |-> now,
                    answer |-> "uncounted"]
  OBVIOUS
<1>2. /\ Answered("uncounted") /\ UNCHANGED now
      /\ Cardinality(calls) < MaxCalls
  BY DEF RequestWithoutRedis, RequestUnanswered, Counted
<1>3. /\ calls' = calls \cup {x}
      /\ x \in [id : Calls, time : 0..MaxNow,
                answer : {"counted", "limited", "uncounted"}]
      /\ CallsInv'
      /\ \A b \in calls : /\ b.id < x.id
                          /\ CountedUpTo(b)' = CountedUpTo(b)
                          /\ Reasons(b)' = Reasons(b)
  BY <1>1, <1>2, NextCall
<1>4. x.answer = "uncounted"
  BY <1>1
<1>5. SlidingWindow'
  <2>1. \A b \in calls :
          /\ b.answer = "counted" => Cardinality(CountedUpTo(b)') <= Limit
          /\ b.answer = "limited" => Cardinality(Reasons(b)') >= Limit
    BY <1>3 DEF RateInv, SlidingWindow
  <2>. QED
    BY <1>3, <1>4, <2>1 DEF SlidingWindow
<1>6. calls' \in SUBSET [id : Calls, time : 0..MaxNow,
                         answer : {"counted", "limited", "uncounted"}]
  BY <1>3 DEF RateInv, RateTypeOK
<1>7. CASE RequestWithoutRedis
  <2>1. UNCHANGED <<entries, expires>>
    BY <1>7 DEF RequestWithoutRedis
  <2>2. RateTypeOK'
    BY <1>2, <1>6, <2>1 DEF RateInv, RateTypeOK
  <2>3. EntriesInv'
    BY <1>3, <2>1 DEF RateInv, EntriesInv
  <2>4. KeptInv'
    BY <1>2, <1>3, <1>4, <2>1 DEF RateInv, KeptInv
  <2>. QED
    BY <1>3, <1>5, <2>2, <2>3, <2>4 DEF RateInv
<1>8. ASSUME NEW p \in Servers, RequestUnanswered(p)
      PROVE  RateInv'
  <2>1. Counted(p) /\ expires' = now + Window
    BY <1>8 DEF RequestUnanswered, Counted
  <2>2. PICK n : n = <<now + Skew[p], Cardinality(calls) + 1>>
    OBVIOUS
  <2>3. entries' \in SUBSET (Nat \X Calls) /\ EntriesInv' /\ KeptInv'
    BY <1>1, <1>2, <2>1, <2>2, CountedEntries
  <2>4. now' \in 0..MaxNow /\ expires' \in 0..(MaxNow + Window)
    BY <1>2, <2>1, LimiterAssumption DEF RateInv, RateTypeOK
  <2>5. RateTypeOK'
    BY <1>6, <2>3, <2>4 DEF RateTypeOK
  <2>. QED
    BY <1>3, <1>5, <2>3, <2>5 DEF RateInv
<1>. QED
  BY <1>7, <1>8

\* Time passes; the key expires when nothing in it counts any more.
LEMMA StepTick ==
  ASSUME RateInv, Tick
  PROVE  RateInv'
<1>1. /\ now' = now + 1 /\ now < MaxNow /\ UNCHANGED <<expires, calls>>
      /\ now' >= expires => entries' = {}
      /\ ~(now' >= expires) => entries' = entries
  BY DEF Tick
<1>2. now \in Nat /\ MaxNow \in Nat /\ Window \in Nat /\ MaxSkew \in Nat
  BY SkewIsBounded, LimiterAssumption DEF RateInv, RateTypeOK
<1>3. entries' = {} \/ entries' = entries
  BY <1>1
<1>4. RateTypeOK'
  BY <1>1, <1>2, <1>3 DEF RateInv, RateTypeOK
<1>5. CallsInv'
  BY <1>1, <1>2 DEF RateInv, CallsInv, RateTypeOK
<1>6. EntriesInv'
  BY <1>1, <1>3, FS_EmptySet DEF RateInv, EntriesInv
<1>7. KeptInv'
  <2>1. ASSUME NEW d \in calls, d.answer \in {"counted", "limited"}
        PROVE  /\ expires >= d.time + Window
               /\ now' - d.time < Window - MaxSkew
                    => \E e \in entries' : e[2] = d.id
    <3>1. d.time \in Nat /\ expires \in Nat
      BY <1>2 DEF RateInv, RateTypeOK
    <3>2. /\ expires >= d.time + Window
          /\ now - d.time < Window - MaxSkew => \E e \in entries : e[2] = d.id
      BY <2>1 DEF RateInv, KeptInv
    <3>3. ASSUME now' - d.time < Window - MaxSkew
          PROVE  \E e \in entries' : e[2] = d.id
      <4>1. ~(now' >= expires) /\ now - d.time < Window - MaxSkew
        BY <1>1, <1>2, <3>1, <3>2, <3>3
      <4>. QED
        BY <1>1, <3>2, <4>1
    <3>. QED
      BY <3>2, <3>3
  <2>. QED
    BY <1>1, <2>1 DEF KeptInv
<1>8. SlidingWindow'
  BY <1>1 DEF RateInv, SlidingWindow, CountedUpTo, Reasons
<1>. QED
  BY <1>4, <1>5, <1>6, <1>7, <1>8 DEF RateInv

\* What is known of the limiter, always.
LEMMA RateInvariance == Spec => []RateInv
<1>1. Init => RateInv
  BY InitRate DEF Init
<1>2. RateInv /\ [RateNext]_rateVars => RateInv'
  <2>1. RateInv /\ UNCHANGED rateVars => RateInv'
    BY DEF rateVars, RateInv, RateTypeOK, CallsInv, EntriesInv, KeptInv,
           SlidingWindow, CountedUpTo, Reasons
  <2>. QED
    BY <2>1, StepRequest, StepUncounted, StepTick DEF RateNext
<1>3. RateInv /\ [Next]_vars => RateInv'
  BY <1>2, StepOfParts
<1>. QED
  BY <1>1, <1>3, PTL DEF Spec

\* Up to the difference between the clocks, no window passes more than the
\* limit, and no request is limited without as many others
\* (ratelimit.py:72-81): what counts in a window has an entry, and an entry
\* is from a call of the window.
THEOREM WindowSlides == Spec => []SlidingWindow
BY RateInvariance, PTL DEF RateInv

-----------------------------------------------------------------------------
(* The search for paths, and the types of all parts                        *)

\* No path of the queue is longer than max_depth, and one that is being
\* continued is shorter.
PathInv ==
  /\ PathTypeOK
  /\ \A i \in 1..Len(queue) : Len(queue[i]) <= depth + 1
  /\ neighbours # {} /\ queue # <<>> => Len(Head(queue)) <= depth

\* What a path is, and that it may be one node longer.
LEMMA PathLengths ==
  ASSUME NEW d \in 1..MaxDepth, NEW s \in Paths, NEW n \in Nodes,
         Len(s) <= d
  PROVE  Append(s, n) \in Paths /\ Len(Append(s, n)) = Len(s) + 1
<1>1. PICK k \in 1..(MaxDepth + 1) : s \in [1..k -> Nodes]
  BY DEF Paths
<1>2. s \in Seq(Nodes) /\ Len(s) = k
  BY <1>1
<1>3. /\ Append(s, n) \in Seq(Nodes) /\ Len(Append(s, n)) = k + 1
  BY <1>2, AppendProperties
<1>4. Append(s, n) \in [1..(k + 1) -> Nodes]
  BY <1>3, LenProperties
<1>5. k + 1 \in 1..(MaxDepth + 1)
  BY <1>2, PathsAssumption
<1>. QED
  BY <1>2, <1>3, <1>4, <1>5 DEF Paths

\* The first path of a queue that is not empty.
LEMMA FirstPath ==
  ASSUME PathInv, queue # <<>>
  PROVE  /\ Head(queue) \in Paths /\ Head(queue) = queue[1]
         /\ Len(Head(queue)) \in 1..(depth + 1) /\ 1 \in 1..Len(queue)
         /\ Last(Head(queue)) \in Nodes
<1>1. queue \in Seq(Paths) /\ 1 \in 1..Len(queue) /\ depth \in Nat
  BY DEF PathInv, PathTypeOK
<1>2. Head(queue) \in Paths /\ Head(queue) = queue[1]
  BY <1>1
<1>3. PICK k \in 1..(MaxDepth + 1) : Head(queue) \in [1..k -> Nodes]
  BY <1>2 DEF Paths
<1>4. Len(Head(queue)) = k /\ Head(queue)[k] \in Nodes
  BY <1>3, PathsAssumption
<1>. QED
  BY <1>1, <1>2, <1>3, <1>4 DEF PathInv, Last

\* The search starts with the path of one node.
LEMMA InitPath == PathInit => PathInv
<1> SUFFICES ASSUME PathInit PROVE PathInv
  OBVIOUS
<1>1. queue = <<<<from>>>> /\ from \in Nodes /\ depth \in 1..MaxDepth
  BY DEF PathInit
<1>2. <<from>> \in [1..1 -> Nodes] /\ Len(<<from>>) = 1
  BY <1>1
<1>3. <<from>> \in Paths
  BY <1>2, PathsAssumption DEF Paths
<1>4. queue \in Seq(Paths) /\ Len(queue) = 1 /\ queue[1] = <<from>>
  BY <1>1, <1>3
<1>5. Head(queue) = <<from>>
  BY <1>1
<1>6. PathTypeOK
  BY <1>1, <1>4 DEF PathInit, PathTypeOK, Adjacent
<1>. QED
  BY <1>1, <1>2, <1>4, <1>5, <1>6, PathsAssumption DEF PathInv

\* Looking at a neighbour, and going on to the next path, keep the lengths.
LEMMA StepPath == PathInv /\ [PathNext]_pathVars => PathInv'
<1> SUFFICES ASSUME PathInv, [PathNext]_pathVars PROVE PathInv'
  OBVIOUS
<1>0. /\ queue \in Seq(Paths) /\ Len(queue) \in Nat /\ depth \in 1..MaxDepth
      /\ depth \in Nat /\ MaxDepth \in Nat
  BY PathsAssumption DEF PathInv, PathTypeOK
<1>1. CASE UNCHANGED pathVars
  BY <1>1 DEF pathVars, question, PathInv, PathTypeOK
<1>2. ASSUME NEW n \in Nodes, Look(n) PROVE PathInv'
  <2> DEFINE path == Append(Head(queue), n)
  <2>1. /\ queue # <<>> /\ n \in neighbours /\ neighbours' = neighbours \ {n}
        /\ UNCHANGED question
    BY <1>2 DEF Look, Searching
  <2>2. Len(Head(queue)) <= depth
    BY <2>1 DEF PathInv
  <2>3. path \in Paths /\ Len(path) <= depth + 1
    BY <1>0, <2>1, <2>2, FirstPath, PathLengths
  <2> HIDE DEF path
  <2>4. /\ \/ answer' = path /\ UNCHANGED <<queue, visited>>
           \/ /\ visited' = visited \cup {n} /\ UNCHANGED answer
              /\ queue' = queue \/ queue' = Append(queue, path)
    BY <1>2 DEF Look, path
  <2>5. CASE queue' = queue
    BY <1>0, <2>1, <2>2, <2>3, <2>4, <2>5 DEF PathInv, PathTypeOK, question
  <2>6. CASE queue' = Append(queue, path)
    <3>1. /\ queue' \in Seq(Paths) /\ Len(queue') = Len(queue) + 1
          /\ \A i \in 1..Len(queue) : queue'[i] = queue[i]
          /\ queue'[Len(queue) + 1] = path
      BY <1>0, <2>3, <2>6, AppendProperties
    <3>2. queue' # <<>> /\ Head(queue') = Head(queue)
      BY <1>0, <2>1, <3>1, FirstPath
    <3>3. \A i \in 1..Len(queue') : Len(queue'[i]) <= depth + 1
      <4>1. \A i \in 1..Len(queue) : Len(queue[i]) <= depth + 1
        BY DEF PathInv
      <4>2. Len(queue) \in Nat /\ Len(path) <= depth + 1
        BY <1>0, <2>3
      <4>. QED
        BY ONLY <3>1, <4>1, <4>2
    <3>4. PathTypeOK'
      BY <2>1, <2>3, <2>4, <3>1 DEF PathInv, PathTypeOK, question
    <3>. QED
      BY <2>1, <2>2, <3>2, <3>3, <3>4 DEF PathInv, question
  <2>. QED
    BY <2>4, <2>5, <2>6
<1>3. CASE Pop
  <2>1. /\ queue # <<>> /\ queue' = Tail(queue)
        /\ neighbours' = IF queue' # <<>> /\ MayContinue(Head(queue'))
                         THEN Adjacent(Last(Head(queue'))) ELSE {}
        /\ UNCHANGED <<question, visited, answer>>
    BY <1>3 DEF Pop, Searching
  <2>2. /\ queue' \in Seq(Paths) /\ Len(queue') = Len(queue) - 1
        /\ \A i \in 1..Len(queue') : queue'[i] = queue[i + 1]
    BY <1>0, <2>1, HeadTailProperties
  <2>3. ASSUME NEW i \in 1..Len(queue') PROVE Len(queue'[i]) <= depth + 1
    <3>1. i + 1 \in 1..Len(queue)
      BY <1>0, <2>2
    <3>. QED
      BY <2>2, <3>1 DEF PathInv
  <2>4. neighbours' \in SUBSET Nodes
    BY <2>1 DEF Adjacent
  <2>5. PathTypeOK'
    BY <2>1, <2>2, <2>4 DEF PathInv, PathTypeOK, question
  <2>6. ASSUME neighbours' # {}, queue' # <<>>
        PROVE  Len(Head(queue')) <= depth
    <3>1. MayContinue(Head(queue'))
      BY <2>1, <2>6
    <3>2. Head(queue') = queue'[1] /\ 1 \in 1..Len(queue')
      BY <2>2, <2>6
    <3>3. queue'[1] \in Paths
      BY <2>2, <3>2
    <3>4. Len(queue'[1]) \in Nat
      BY <3>3, PathsAssumption DEF Paths
    <3>. QED
      BY <1>0, <2>1, <3>1, <3>2, <3>4 DEF MayContinue, Edges, question
  <2>. QED
    BY <2>1, <2>3, <2>5, <2>6 DEF PathInv, question
<1>. QED
  BY <1>1, <1>2, <1>3 DEF PathNext

\* Every part stays within its types.
THEOREM TypesStay == Spec => []TypeOK
<1>1. Init => PathInv /\ part \in Parts
  BY InitPath DEF Init
<1>2. PathInv /\ [Next]_vars => PathInv'
  BY StepOfParts, StepPath
<1>3. part \in Parts /\ [Next]_vars => (part \in Parts)'
  BY DEF Next, vars, Sources, Limiter, People, Edits, Search
<1>4. /\ ConnInv => ConnTypeOK
      /\ RateInv => RateTypeOK
      /\ AccHistory => AccountTypeOK
      /\ EditInv => EditTypeOK
      /\ PathInv => PathTypeOK
  BY DEF ConnInv, RateInv, AccHistory, AccInv, EditInv, PathInv
<1>5. (/\ part \in Parts /\ ConnTypeOK /\ RateTypeOK /\ AccountTypeOK
       /\ EditTypeOK /\ PathTypeOK)
      => TypeOK
  BY DEF TypeOK
<1>. QED
  BY <1>1, <1>2, <1>3, <1>4, <1>5, ConnInvariance, RateInvariance,
     AccountInvariance, EditInvariance, PTL DEF Spec

=============================================================================

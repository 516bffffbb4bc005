------------------------------ MODULE Scraping ------------------------------
(***************************************************************************)
(* Scraping: the /scrape/jobs route of browser-agent/src/server.ts, the    *)
(* scrapers behind it and the Chromium they share.  A worker whose call    *)
(* ended too early asks again while the first scrape still runs, so        *)
(* several are at work at once, each in pages of its own.                  *)
(***************************************************************************)
EXTENDS Integers, FiniteSets, Sequences, Functions

CONSTANTS
    Scrapes,                   \* requests
    Postings,                  \* external ids
    MAX_PAGES,                 \* result pages read from Indeed
    PAGE_SIZE,                 \* postings on a full page of Greenhouse
    JSONLD_MIN_THRESHOLD,      \* postings a page must embed to be trusted
    MaxBoardPages,             \* bound on the full pages of a board
    MaxLaunches                \* bound on the launches of Chromium

ASSUME ScrapingAssumption == PAGE_SIZE \in Nat /\ MaxLaunches \in Nat \ {0}

VARIABLES scScrape,            \* of each request: how far its scraper is
          scShared,            \* sharedBrowser
          scPromise,           \* browserPromise
          scLaunching,         \* the launches under way
          scLive,              \* the Chromium processes that run
          scLaunched,          \* how many launches there were
          scContexts,          \* the open browser contexts: whose, and where
          scUp                 \* the server runs
scBrowserVars == <<scShared, scPromise, scLaunching, scLive, scLaunched, scContexts>>
scrapingVars == <<scScrape, scBrowserVars, scUp>>

-----------------------------------------------------------------------------
maxAttempts == 3
Boards == {"greenhouse", "lever", "remoteok"}      \* read without a browser
Sources == Boards \union {"indeed", "custom"}
None == 0                                          \* no browser, no promise

\* What a page, a board or a script lists, without the postings nothing can be made of.
Listings == UNION {[1..n -> Postings] : n \in 0..2}

\* The postings at some places of a list, in the order of the list.
postingsAt(jobs, places) ==
    LET rank(i) == Cardinality({j \in places : j <= i})
    IN [k \in 1..Cardinality(places) |-> jobs[CHOOSE i \in places : rank(i) = k]]

\* Every posting where it comes first: seen of Indeed, Lever and RemoteOK, deduplicate.
firsts(jobs) == {i \in DOMAIN jobs : \A j \in 1..i - 1 : jobs[j] # jobs[i]}
deduplicate(jobs) == postingsAt(jobs, firsts(jobs))

NewScrape == [at |-> "idle", source |-> "custom", board |-> "custom", chromium |-> None,
              page |-> 0, tries |-> 0, found |-> <<>>, result |-> "none",
              aborted |-> FALSE, answer |-> "none"]

ScrapingInit ==
    /\ scScrape = [r \in Scrapes |-> NewScrape]
    /\ scShared = 1 /\ scPromise = None /\ scLaunching = {} /\ scLive = {1}
    /\ scLaunched = 1 /\ scContexts = {} /\ scUp = TRUE

-----------------------------------------------------------------------------
\* The scraper of s returns (jobs) or throws (error); the answer is given, unless the
\* time was up before.  Indeed closes its contexts first.
ended(s, result) ==
    LET t == [s EXCEPT !.result = result,
                       !.found = IF result = "jobs" /\ ~s.aborted THEN @ ELSE <<>>]
    IN  IF s.source = "indeed" /\ s.at # "close" THEN [t EXCEPT !.at = "close"]
        ELSE [NewScrape EXCEPT !.at = "done", !.source = s.source, !.board = s.board,
                               !.found = t.found,
                               !.answer = IF s.answer = "none" THEN result ELSE s.answer]
\* What the custom scraper makes of every error: no postings.
endedEmpty(s) == ended([s EXCEPT !.found = <<>>], "jobs")
\* An error in the scraper of s.
thrown(s) ==
    CASE s.board = "custom" /\ s.at \in {"detect", "site", "llm"} -> endedEmpty(s)
      [] s.source = "custom" /\ s.board # "custom" ->
            [s EXCEPT !.at = "site", !.board = "custom", !.tries = 0, !.found = <<>>]
      [] OTHER -> ended(s, "error")

Running(r) == scUp /\ scScrape[r].at \notin {"idle", "done"}
At(r, place) == scUp /\ scScrape[r].at = place
Become(r, s) == scScrape' = [scScrape EXCEPT ![r] = s]
\* The page of r still has its browser.
PageWorks(r) == scScrape[r].chromium \in scLive

-----------------------------------------------------------------------------
\* selectScraperBySourceId, from the configured job sites.
scraperAt(source) ==
    CASE source = "indeed" -> "init" [] source = "custom" -> "open" [] OTHER -> "fetch"

Accept(r) ==
    /\ At(r, "idle")
    /\ \E s \in Sources :
          Become(r, [NewScrape EXCEPT !.at = scraperAt(s), !.source = s, !.board = s])
    /\ UNCHANGED <<scBrowserVars, scUp>>

\* What a request is refused for.
internalSecretAuth == {"401"}
scrapeJobsSchema == {"400"}
validateAllowedUrl == {"400"}
Refusals == internalSecretAuth \union scrapeJobsSchema \union validateAllowedUrl

Refuse(r) ==
    /\ At(r, "idle")
    /\ \E code \in Refusals : Become(r, [NewScrape EXCEPT !.at = "done", !.answer = code])
    /\ UNCHANGED <<scBrowserVars, scUp>>

\* SCRAPE_TIMEOUT_MS: the answer is given, the scraper goes on until it looks at the signal.
TimeOut(r) ==
    /\ Running(r) /\ scScrape[r].answer = "none"
    /\ scScrape' = [scScrape EXCEPT ![r].aborted = TRUE, ![r].answer = "error"]
    /\ UNCHANGED <<scBrowserVars, scUp>>

-----------------------------------------------------------------------------
\* init and newPage of Indeed, createPage of the custom scraper.
afterLaunch(s, b) ==
    IF s.at = "init" THEN [s EXCEPT !.at = "open", !.chromium = None]
    ELSE [s EXCEPT !.at = "context", !.chromium = b]

launchIfNone(r) ==
    IF scPromise # None
    THEN /\ scScrape' = [scScrape EXCEPT ![r].chromium = scPromise]
         /\ UNCHANGED <<scPromise, scLaunching, scLaunched>>
    ELSE /\ scScrape' = [scScrape EXCEPT ![r].chromium = scLaunched + 1]
         /\ scPromise' = scLaunched + 1 /\ scLaunching' = scLaunching \union {scLaunched + 1}
         /\ scLaunched' = scLaunched + 1

\* Every caller that finds no browser launches one.
launchAlways(r) ==
    /\ scScrape' = [scScrape EXCEPT ![r].chromium = scLaunched + 1]
    /\ scPromise' = scLaunched + 1 /\ scLaunching' = scLaunching \union {scLaunched + 1}
    /\ scLaunched' = scLaunched + 1

launchBrowser(r) == launchIfNone(r)

getBrowser(r) ==
    /\ scUp /\ scScrape[r].at \in {"init", "open"} /\ scScrape[r].chromium = None
    /\ IF scShared \in scLive
       THEN /\ Become(r, afterLaunch(scScrape[r], scShared))
            /\ UNCHANGED <<scShared, scPromise, scLaunching, scLaunched>>
       ELSE scShared' = None /\ launchBrowser(r)
    /\ UNCHANGED <<scLive, scContexts, scUp>>

Waits(r, b) == scScrape[r].at \in {"init", "open"} /\ scScrape[r].chromium = b

Launched(b) ==
    /\ scUp /\ b \in scLaunching
    /\ scLaunching' = scLaunching \ {b} /\ scLive' = scLive \union {b}
    /\ scShared' = b /\ scPromise' = None
    /\ scScrape' = [r \in Scrapes |->
                        IF Waits(r, b) THEN afterLaunch(scScrape[r], b) ELSE scScrape[r]]
    /\ UNCHANGED <<scLaunched, scContexts, scUp>>

LaunchFails(b) ==
    /\ scUp /\ b \in scLaunching /\ scLaunched < MaxLaunches
    /\ scLaunching' = scLaunching \ {b} /\ scPromise' = None
    /\ scScrape' = [r \in Scrapes |->
                        IF Waits(r, b) THEN thrown(scScrape[r]) ELSE scScrape[r]]
    /\ UNCHANGED <<scShared, scLive, scLaunched, scContexts, scUp>>

\* Chromium crashes, and its contexts close with it.
BrowserDies(b) ==
    /\ scUp /\ b \in scLive /\ scLaunched < MaxLaunches
    /\ scLive' = scLive \ {b}
    /\ scContexts' = {c \in scContexts : c[2] # b}
    /\ UNCHANGED <<scScrape, scShared, scPromise, scLaunching, scLaunched, scUp>>

\* newPage.  It may fail when the context is there already.
newPage(r) ==
    /\ At(r, "context")
    /\ LET s == scScrape[r]
           opened == IF PageWorks(r) THEN scContexts \union {<<r, s.chromium>>} ELSE scContexts
       IN  \/ /\ PageWorks(r) /\ scContexts' = opened
              /\ Become(r, [s EXCEPT !.at = IF s.source = "indeed" THEN "visit" ELSE "detect"])
           \/ scContexts' \in {scContexts, opened} /\ Become(r, thrown(s))
    /\ UNCHANGED <<scShared, scPromise, scLaunching, scLive, scLaunched, scUp>>

-----------------------------------------------------------------------------
\* IndeedScraper.scrape: a result page is opened, ...
VisitResults(r) ==
    /\ At(r, "visit")
    /\ LET s == scScrape[r]
       IN  \/ Become(r, thrown(s))                               \* aborted, or no page
           \/ ~s.aborted /\ PageWorks(r) /\ Become(r, ended(s, "jobs"))     \* anti-bot, no cards
           \/ ~s.aborted /\ PageWorks(r) /\ Become(r, [s EXCEPT !.at = "cards"])
    /\ UNCHANGED <<scBrowserVars, scUp>>

collected(found, listing) == deduplicate(found \o listing)
\* The postings seen on earlier pages are forgotten.
collectedPerPage(found, listing) == found \o deduplicate(listing)

addCards(found, listing) == collected(found, listing)

\* ... its cards are clicked one by one, and the link to the next page is followed.
ReadCards(r) ==
    /\ At(r, "cards")
    /\ LET s == scScrape[r]
       IN  IF s.aborted THEN Become(r, thrown(s))
           ELSE \E listing \in Listings :
                   LET t == [s EXCEPT !.found = addCards(@, listing), !.page = @ + 1]
                   IN  /\ PageWorks(r) \/ listing = <<>>
                       /\ \/ Become(r, ended(t, "jobs"))
                          \/ /\ PageWorks(r) /\ t.page < MAX_PAGES
                             /\ Become(r, [t EXCEPT !.at = "visit"])
    /\ UNCHANGED <<scBrowserVars, scUp>>

\* BaseScraper.close, in the finally of scrapeIndeed.
closeContexts(r) == {c \in scContexts : c[1] # r}

CloseScraper(r) ==
    /\ At(r, "close")
    /\ scContexts' = closeContexts(r)
    /\ Become(r, ended(scScrape[r], scScrape[r].result))
    /\ UNCHANGED <<scShared, scPromise, scLaunching, scLive, scLaunched, scUp>>

-----------------------------------------------------------------------------
\* The boards, each with its own pages and errors.  The custom scraper hands them no signal.
signalled(s) == s.aborted /\ s.source # "custom"

\* retry: another attempt is made, or the error of the last one is left.
retry(s, last) == IF s.tries + 1 < maxAttempts THEN [s EXCEPT !.tries = @ + 1] ELSE last

Board(r, b) == At(r, "fetch") /\ scScrape[r].board = b

\* Page after page until one is not full; a page that cannot be had counts as empty, and
\* an entry nothing can be made of is missing from its page.  The signal is looked at, and
\* a URL without a board refused, before a page is asked for.
scrapeGreenhouse(r) ==
    /\ Board(r, "greenhouse")
    /\ LET s == scScrape[r]
       IN  \/ /\ s.tries = 0 /\ (signalled(s) \/ s.page = 0)
              /\ Become(r, thrown(s))
           \/ Become(r, retry(s, ended(s, "jobs")))
           \/ /\ ~signalled(s)
              /\ \E listing \in Listings :
                    LET t == [s EXCEPT !.found = @ \o listing, !.page = @ + 1, !.tries = 0]
                    IN  /\ Len(listing) <= PAGE_SIZE
                        /\ IF Len(listing) < PAGE_SIZE THEN Become(r, ended(t, "jobs"))
                           ELSE s.page < MaxBoardPages /\ Become(r, t)
    /\ UNCHANGED <<scBrowserVars, scUp>>

\* One request for all postings; a URL without a board and an empty entry are errors.
scrapeLever(r) ==
    /\ Board(r, "lever")
    /\ LET s == scScrape[r]
       IN  \/ Become(r, thrown(s))
           \/ Become(r, retry(s, thrown(s)))
           \/ /\ ~signalled(s)
              /\ \E listing \in Listings :
                    Become(r, ended([s EXCEPT !.found = deduplicate(listing)], "jobs"))
    /\ UNCHANGED <<scBrowserVars, scUp>>

\* The same; what does not fit the keywords is dropped after the repetitions.
scrapeRemoteOK(r) ==
    /\ Board(r, "remoteok")
    /\ LET s == scScrape[r]
       IN  \/ s.tries = 0 /\ Become(r, thrown(s))                \* not a URL of theirs
           \/ Become(r, retry(s, thrown(s)))
           \/ /\ ~signalled(s)
              /\ \E listing \in Listings, keywords \in SUBSET Postings :
                    LET kept == {i \in firsts(listing) : listing[i] \in keywords}
                    IN Become(r, ended([s EXCEPT !.found = postingsAt(listing, kept)], "jobs"))
    /\ UNCHANGED <<scBrowserVars, scUp>>

-----------------------------------------------------------------------------
\* CustomScraper.scrape: a board known by its URL is read by its own scraper; ...
DetectATS(r) ==
    /\ At(r, "detect")
    /\ \/ Become(r, [scScrape[r] EXCEPT !.at = "site"])
       \/ \E b \in {"greenhouse", "lever"} :
             Become(r, [scScrape[r] EXCEPT !.at = "fetch", !.board = b])
    /\ UNCHANGED <<scBrowserVars, scUp>>

\* The postings a page embeds; scripts that cannot be read have none.
extractJsonLd == Listings

\* The links to postings on a page and its successors.  There are never any: the page has
\* none of the names scoreJobLinks evaluates in it, and that error is caught.
discoverWithPagination == {}

\* ... of any other site the embedded postings will do, if there are enough.
ReadSite(r) ==
    /\ At(r, "site")
    /\ LET s == scScrape[r]
       IN  \/ Become(r, thrown(s))
           \/ /\ ~s.aborted /\ PageWorks(r)
              /\ \E listing \in extractJsonLd :
                    LET t == [s EXCEPT !.found = listing]
                    IN  IF Len(listing) >= JSONLD_MIN_THRESHOLD
                        THEN Become(r, ended([t EXCEPT !.found = deduplicate(@)], "jobs"))
                        ELSE /\ discoverWithPagination = {}
                             /\ Become(r, [t EXCEPT !.at = "llm"])
    /\ UNCHANGED <<scBrowserVars, scUp>>

\* One attempt to have the model name the one posting of a text: it may have to be made
\* again, and an answer that is not a posting is an error no other attempt makes good.
extractJobData(s) ==
    {retry(s, thrown(s))}
        \union {ended([s EXCEPT !.found = deduplicate(Append(@, p))], "jobs") : p \in Postings}
        \union {thrown(s)}

\* The site is opened again and its text given to the model, unless it is too short;
\* signal and page are not looked at after the first attempt.
llmFallback(r) ==
    /\ At(r, "llm")
    /\ LET s == scScrape[r]
           opened == s.tries > 0 \/ (~s.aborted /\ PageWorks(r))
       IN  \/ ~opened /\ Become(r, thrown(s))
           \/ opened /\ \E t \in extractJobData(s) : Become(r, t)
           \/ /\ opened /\ s.tries = 0
              /\ Become(r, ended([s EXCEPT !.found = deduplicate(@)], "jobs"))
    /\ UNCHANGED <<scBrowserVars, scUp>>

-----------------------------------------------------------------------------
\* SIGTERM: once every request is answered, or ten seconds later, the browser is closed
\* and the process ends.
Shutdown ==
    /\ scUp /\ scUp' = FALSE
    /\ scShared' = None /\ scPromise' = None /\ scLaunching' = {} /\ scLive' = {}
    /\ scContexts' = {}
    /\ scScrape' = [r \in Scrapes |->
                        IF Running(r) THEN [NewScrape EXCEPT !.at = "gone", !.answer = scScrape[r].answer]
                        ELSE scScrape[r]]
    /\ UNCHANGED scLaunched

ScrapingNext ==
    \/ \E r \in Scrapes :
          \/ Accept(r) \/ Refuse(r) \/ TimeOut(r) \/ getBrowser(r) \/ newPage(r)
          \/ VisitResults(r) \/ ReadCards(r) \/ CloseScraper(r)
          \/ scrapeGreenhouse(r) \/ scrapeLever(r) \/ scrapeRemoteOK(r)
          \/ DetectATS(r) \/ ReadSite(r) \/ llmFallback(r)
    \/ \E b \in 1..MaxLaunches : Launched(b) \/ LaunchFails(b) \/ BrowserDies(b)
    \/ Shutdown

ScrapingSpec == ScrapingInit /\ [][ScrapingNext]_scrapingVars

\* ScrapeJobs of the worker's client: what the worker is told, or was when the connection
\* broke.  Errors of the scraper come under a name it does not read.
ScrapeJobs(r) ==
    LET s == scScrape[r]
    IN  [failed |-> s.answer \notin {"jobs", "error"},
         jobs   |-> IF s.answer = "jobs" THEN s.found ELSE <<>>]

-----------------------------------------------------------------------------
ScrapingTypeOK ==
    /\ \A r \in Scrapes :
          /\ scScrape[r].source \in Sources /\ scScrape[r].tries \in 0..maxAttempts - 1
          /\ scScrape[r].answer \in {"none", "error", "jobs"} \union Refusals
          /\ \A i \in DOMAIN scScrape[r].found : scScrape[r].found[i] \in Postings
          /\ scScrape[r].at = "done" => scScrape[r].answer # "none"
    /\ scLaunching \subseteq 1..MaxLaunches /\ scLive \subseteq 1..MaxLaunches
    /\ scContexts \subseteq Scrapes \X scLive

\* However scrapes, crashes and time-outs interleave, there is one Chromium at most, the
\* launches under way counted, and a scrape of Indeed that has ended left nothing open
\* in it.  (The contexts of the custom scraper stay until the server ends.)
ChromiumIsContained ==
    /\ Cardinality(scLive \union scLaunching) <= 1
    /\ \A c \in scContexts : scScrape[c[1]].source = "indeed" => scScrape[c[1]].at # "done"

\* The worker is told of no posting twice, though a page may repeat what an earlier page,
\* the site itself or the model has named; only Greenhouse is believed.
PostingsAreDistinct ==
    \A r \in Scrapes : scScrape[r].board # "greenhouse" => IsInjective(ScrapeJobs(r).jobs)
=============================================================================

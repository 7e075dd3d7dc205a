------------------------------ MODULE CalendarPage ------------------------------
(***************************************************************************)
(* The calendar: the page of the web client, with the router below it and  *)
(* the server it asks.  The page shows a query (a date and a kind) at      *)
(* once and lets the URL and the data follow; the list grows page by page  *)
(* with a cursor that the server refuses when the listing has changed; the *)
(* details of one event are fetched when it is opened.                     *)
(*                                                                         *)
(* A handler, a navigation that commits, or a response changes the state;  *)
(* React then renders and runs the effects whose dependencies changed      *)
(* ("dirty").  React is taken to be done with that before the next event   *)
(* of the user or of the router; responses may come in between.            *)
(***************************************************************************)
EXTENDS Integers, Sequences, FiniteSets

CONSTANTS
  Dates,        \* consecutive integers
  Kinds,
  Versions,     \* of the feed of a date
  Listings,     \* by query and version: the events, <<date, id>>
  PageSize,
  MaxEvents,    \* bound of the model: what the user does
  Null, All,    \* All: no filter by kind
  Bare          \* the URL without parameters

Queries == [date : Dates, kind : Kinds]
Urls == Queries \cup {Bare}
Events == Dates \X Int
Cursors == [offset : Nat, print : Seq(Events)]
Pages == [events : Seq(Events), cursor : Cursors \cup {Null}]
Loaded == [query : Queries, page : Pages]
Loads == [to : Urls, query : Queries, reval : BOOLEAN, reply : Loaded \cup {Null}]

\* A listing has the events of its date (ListEvents filters them).  That none of them
\* comes twice is taken from the provider of the feed: no code here sees to it.
ASSUME CalendarAssumption ==
  /\ Dates \subseteq Int /\ PageSize \in Nat \ {0} /\ MaxEvents \in Nat
  /\ All \in Kinds /\ Bare \notin Queries
  /\ Null \notin Urls /\ Null \notin Cursors /\ Null \notin Loads
  /\ Listings \in [Queries \X Versions -> Seq(Events)]
  /\ \A q \in Queries, v \in Versions : LET l == Listings[<<q, v>>] IN
       /\ \A i \in DOMAIN l : l[i][1] = q.date
       /\ \A i, j \in DOMAIN l : l[i] = l[j] => i = j

VARIABLES
  feed,         \* server: the version of the feed of each date in its cache
  today,
  url,          \* router: the location
  load,         \* router: the navigation or revalidation in progress
  data,         \* router: what the loader returned for the location
  query,        \* the query shown, and desiredStateRef
  urlQuery,     \* useMemo: the query of the location
  accepted,     \* acceptedUrlSearchRef
  requested,    \* requestedUrlSearchRef
  observed,     \* requestedNavigationObservedRef
  events, eventsQuery, cursor, loadingMore,
  keyRef,       \* queryKeyRef
  more,         \* requests for the next page, the aborted ones included
  selected, detail,
  details,      \* requests for the details of an event, the aborted ones included
  dirty,        \* effects to run: "url", "data", "key"
  wanted,       \* history: what the user chose last
  slip,         \* history: a choice was made during a navigation ("hurried"), which
                \* then ended at the location it was leaving ("lost")
  left          \* what the user may still do

server  == <<feed, today>>
router  == <<url, load, data>>
search  == <<query, urlQuery, accepted, requested, observed>>
list    == <<events, eventsQuery, cursor, loadingMore, keyRef, more>>
sheet   == <<selected, detail, details>>
history == <<wanted, slip, left>>
pageVars == <<server, router, search, list, sheet, dirty, history>>

Parse(u) == IF u = Bare THEN [date |-> today, kind |-> All] ELSE u

-----------------------------------------------------------------------------
(* The server                                                              *)

Listing(q, v) == Listings[<<q, v>>]

\* Variant for mutation: the cursor is an offset only.
IsStaleNever(c, listing) == c # Null /\ c.offset > Len(listing)

\* The fingerprint in the cursor is that of the listing it was made from.
IsStale(c, listing) ==
  c # Null /\ (c.print # listing \/ c.offset > Len(listing))

PageFrom(listing, start) ==
  LET end == IF start + PageSize > Len(listing) THEN Len(listing) ELSE start + PageSize IN
  [events |-> SubSeq(listing, start + 1, end),
   cursor |-> IF end < Len(listing) THEN [offset |-> end, print |-> listing] ELSE Null]

NoPage == [events |-> <<>>, cursor |-> Null]
Stale == [error |-> "stale"]
Failed == [error |-> "failed"]

\* The answer of ListEvents.
ListEvents(q, c) ==
  LET listing == Listing(q, feed[q.date]) IN
  IF IsStale(c, listing) THEN Stale
  ELSE PageFrom(listing, IF c = Null THEN 0 ELSE c.offset)

\* The cache of a date expires and the provider answers with another feed.
Refetch(d, v) ==
  /\ feed[d] # v
  /\ feed' = [feed EXCEPT ![d] = v]
  /\ UNCHANGED <<today, router, search, list, sheet, dirty, history>>

Midnight ==
  /\ today + 1 \in Dates
  /\ today' = today + 1
  /\ UNCHANGED <<feed, router, search, list, sheet, dirty, history>>

-----------------------------------------------------------------------------
(* The router                                                              *)

Navigating == load # Null /\ ~ load.reval

\* Starts a navigation, which replaces what was in progress.
LoadOf(to, reval) == [to |-> to, query |-> Parse(to), reval |-> reval, reply |-> Null]

StateChange == IF Navigating THEN {} ELSE {"url"}

\* A revalidation during a navigation starts that navigation again.
Revalidated == IF Navigating THEN LoadOf(load.to, FALSE) ELSE LoadOf(url, TRUE)

\* The loader has its answer; a failure becomes an empty page.
AnswerLoad(ok) ==
  /\ load # Null /\ load.reply = Null
  /\ load' = [load EXCEPT !.reply = [query |-> load.query,
       page |-> IF ok THEN ListEvents(load.query, Null) ELSE NoPage]]
  /\ UNCHANGED <<server, url, data, search, list, sheet, dirty, history>>

Commit ==
  /\ dirty = {} /\ load # Null /\ load.reply # Null
  /\ url' = load.to /\ data' = load.reply /\ load' = Null
  /\ urlQuery' = IF load.to = url THEN urlQuery ELSE Parse(load.to)
  /\ dirty' = {"data"} \cup IF load.reval THEN {} ELSE {"url"}
  /\ slip' = IF slip = "lost" THEN slip ELSE "no"
  /\ UNCHANGED <<server, query, accepted, requested, observed, list, sheet, wanted, left>>

-----------------------------------------------------------------------------
(* Effects                                                                 *)

\* The URL is what the page wants.
UrlAgrees ==
  /\ url = query
  /\ accepted' = url /\ requested' = Null /\ observed' = FALSE
  /\ UNCHANGED <<query, load>>

Seen == observed \/ (Navigating /\ requested # Null)

\* Variant for mutation: a navigation that ended where it began is not noticed.
FollowCommitted == ~ Navigating /\ accepted # url

\* The URL is followed: it changed, or the navigation to another one has ended.
FollowUrl == ~ Navigating /\ (accepted # url \/ (requested # Null /\ Seen))

\* Writes the parameters that the URL leaves out.
Canonical == ~ Navigating /\ requested = Null /\ urlQuery # url

UrlDiffers ==
  /\ url # query
  /\ IF FollowUrl
     THEN query' = urlQuery /\ accepted' = url
     ELSE UNCHANGED <<query, accepted>>
  /\ IF (FollowUrl \/ Canonical) /\ urlQuery # url
     THEN load' = LoadOf(urlQuery, FALSE) /\ requested' = urlQuery /\ observed' = FALSE
     ELSE /\ load' = load
          /\ requested' = (IF FollowUrl THEN Null ELSE requested)
          /\ observed' = (IF FollowUrl THEN FALSE ELSE Seen)

UrlEffect == IF "url" \in dirty THEN UrlAgrees \/ UrlDiffers
             ELSE UNCHANGED <<query, accepted, requested, observed, load>>

Aborted(calls) == {[c EXCEPT !.aborted = TRUE] : c \in calls}

\* Variant for mutation: the request for the next page is not aborted.
NotAborted(calls) == calls

AbortMore(calls) == Aborted(calls)

\* Variant for mutation: a late answer is still taken.
NotAbortedDetails(calls) == calls

AbortDetails(calls) == Aborted(calls)

\* The new data, or no cursor while the data is of another query.
DataEffect ==
  IF "data" \in dirty
  THEN /\ keyRef' = query /\ more' = AbortMore(more) /\ loadingMore' = FALSE
       /\ IF data.query = query
          THEN /\ events' = data.page.events /\ eventsQuery' = data.query
               /\ cursor' = data.page.cursor
          ELSE cursor' = Null /\ UNCHANGED <<events, eventsQuery>>
  ELSE UNCHANGED list

Closed == /\ details' = AbortDetails(details)
          /\ selected' = Null /\ detail' = Null

KeyEffect == IF "key" \in dirty THEN Closed ELSE UNCHANGED sheet

\* All of them see the values of the render they belong to.
Effects ==
  /\ dirty # {}
  /\ UrlEffect /\ DataEffect /\ KeyEffect
  /\ dirty' = (IF query' # query THEN {"data", "key"} ELSE {})
              \cup (IF load' # load THEN {"url"} ELSE {})
  /\ UNCHANGED <<server, url, data, urlQuery, history>>

-----------------------------------------------------------------------------
(* The user                                                                *)

ResultsAreCurrent == data.query = query /\ eventsQuery = query

Acts == dirty = {} /\ left > 0 /\ left' = left - 1

\* Variant for mutation: the choice is applied to the query of the URL.
MergeUrl(patch) == [date |-> IF patch.date = Null THEN urlQuery.date ELSE patch.date,
                    kind |-> IF patch.kind = Null THEN urlQuery.kind ELSE patch.kind]

\* Variant for mutation: the choice replaces the query.
MergeNothing(patch) == patch

Merge(patch) == [date |-> IF patch.date = Null THEN query.date ELSE patch.date,
                 kind |-> IF patch.kind = Null THEN query.kind ELSE patch.kind]

Patches == {[date |-> d, kind |-> Null] : d \in Dates} \cup
           {[date |-> Null, kind |-> k] : k \in Kinds}

UpdateQuery(patch) ==
  LET next == Merge(patch) IN
  /\ Acts
  /\ query' = next /\ requested' = next /\ observed' = FALSE
  /\ load' = LoadOf(next, FALSE)
  /\ dirty' = StateChange \cup IF next # query THEN {"data", "key"} ELSE {}
  /\ wanted' = [date |-> IF patch.date = Null THEN query.date ELSE patch.date,
                kind |-> IF patch.kind = Null THEN query.kind ELSE patch.kind]
  /\ slip' = IF Navigating THEN "hurried" ELSE "no"
  /\ UNCHANGED <<server, url, data, urlQuery, accepted, list, sheet>>

\* Back, forward or a link to the page.
OtherNavigation(to) ==
  /\ Acts
  /\ load' = LoadOf(to, FALSE)
  /\ dirty' = StateChange
  /\ wanted' = to
  /\ slip' = IF Navigating /\ slip # "no"
              THEN IF to = url THEN "lost" ELSE "hurried"
              ELSE "no"
  /\ UNCHANGED <<server, url, data, search, list, sheet>>

Refresh ==
  /\ Acts
  /\ load' = Revalidated
  /\ UNCHANGED <<server, url, data, search, list, sheet, dirty, wanted, slip>>

LoadMore ==
  /\ Acts
  /\ ~ loadingMore /\ cursor # Null /\ ResultsAreCurrent
  /\ more' = AbortMore(more) \cup
       {[query |-> query, cursor |-> cursor, aborted |-> FALSE, reply |-> Null]}
  /\ loadingMore' = TRUE
  /\ UNCHANGED <<server, router, search, events, eventsQuery, cursor, keyRef, sheet, dirty,
                 wanted, slip>>

OpenEvent(e) ==
  /\ Acts
  /\ ResultsAreCurrent /\ \E i \in DOMAIN events : events[i] = e
  /\ details' = AbortDetails(details) \cup {[event |-> e, aborted |-> FALSE]}
  /\ selected' = e /\ detail' = e
  /\ UNCHANGED <<server, router, search, list, dirty, wanted, slip>>

CloseDetails ==
  /\ Acts /\ selected # Null
  /\ Closed
  /\ UNCHANGED <<server, router, search, list, dirty, wanted, slip>>

-----------------------------------------------------------------------------
(* Responses                                                               *)

AnswerMore(c, ok) ==
  /\ c.reply = Null
  /\ more' = (more \ {c}) \cup
       {[c EXCEPT !.reply = IF ok THEN ListEvents(c.query, c.cursor) ELSE Failed]}
  /\ UNCHANGED <<server, router, search, events, eventsQuery, cursor, loadingMore, keyRef,
                 sheet, dirty, history>>

\* Events of a page that the list has already are not added again.
Has(e) == \E i \in DOMAIN events : events[i] = e

Appended(page) ==
  events \o IF \E i \in DOMAIN page.events : Has(page.events[i])
            THEN SelectSeq(page.events, LAMBDA e : ~ Has(e))
            ELSE page.events

ReceiveMore(c) ==
  /\ c.reply # Null
  /\ more' = more \ {c}
  /\ IF c.aborted \/ keyRef # c.query
     THEN UNCHANGED <<load, events, cursor, loadingMore>>
     ELSE /\ loadingMore' = FALSE
          /\ \/ c.reply = Failed /\ UNCHANGED <<load, events, cursor>>
             \/ c.reply = Stale /\ cursor' = Null /\ load' = Revalidated /\ UNCHANGED events
             \/ /\ c.reply \notin {Failed, Stale}
                /\ events' = Appended(c.reply) /\ cursor' = c.reply.cursor
                /\ UNCHANGED load
  /\ UNCHANGED <<server, url, data, search, eventsQuery, keyRef, sheet, dirty, history>>

ReceiveDetail(c, ok) ==
  /\ details' = details \ {c}
  /\ detail' = IF ok /\ ~ c.aborted THEN c.event ELSE detail
  /\ UNCHANGED <<server, router, search, list, selected, dirty, history>>
-----------------------------------------------------------------------------
\* The server renders the page; the browser may show it after midnight.
PageInit ==
  /\ feed \in [Dates -> Versions] /\ today \in Dates
  /\ url \in Urls /\ load = Null
  /\ \E rendered \in {d \in Dates : d <= today} :
       LET q == IF url = Bare THEN [Parse(url) EXCEPT !.date = rendered] ELSE url IN
       data = [query |-> q, page |-> ListEvents(q, Null)]
  /\ query = Parse(url) /\ urlQuery = query
  /\ accepted = url /\ requested = Null /\ observed = FALSE
  /\ events = data.page.events /\ eventsQuery = data.query /\ cursor = data.page.cursor
  /\ loadingMore = FALSE /\ keyRef = query /\ more = {}
  /\ selected = Null /\ detail = Null /\ details = {}
  /\ dirty = {"url", "data", "key"}
  /\ wanted = url /\ slip = "no" /\ left = MaxEvents

Server == Midnight \/ \E d \in Dates, v \in Versions : Refetch(d, v)

User ==
  \/ \E patch \in Patches : UpdateQuery(patch)
  \/ \E to \in Urls : OtherNavigation(to)
  \/ \E i \in DOMAIN events : OpenEvent(events[i])
  \/ Refresh \/ LoadMore \/ CloseDetails

Responses ==
  \/ \E ok \in BOOLEAN : AnswerLoad(ok)
  \/ \E c \in more : ReceiveMore(c) \/ \E ok \in BOOLEAN : AnswerMore(c, ok)
  \/ \E c \in details, ok \in BOOLEAN : ReceiveDetail(c, ok)

PageNext == Server \/ User \/ Responses \/ Effects \/ Commit

\* React runs the effects, the router commits, every request is answered; which
\* of what is due comes first is left open.
Due == Effects \/ Commit \/ Responses

PageSpec == PageInit /\ [][PageNext]_pageVars /\ WF_pageVars(Due)

-----------------------------------------------------------------------------
Requests == [query : Queries, cursor : Cursors, aborted : BOOLEAN,
             reply : Pages \cup {Null, Failed, Stale}]

PageTypeOK ==
  /\ feed \in [Dates -> Versions] /\ today \in Dates
  /\ url \in Urls /\ data \in Loaded /\ load \in Loads \cup {Null}
  /\ query \in Queries /\ urlQuery \in Queries
  /\ accepted \in Urls /\ requested \in Urls \cup {Null} /\ observed \in BOOLEAN
  /\ [events |-> events, cursor |-> cursor] \in Pages /\ loadingMore \in BOOLEAN
  /\ eventsQuery \in Queries /\ keyRef \in Queries /\ more \subseteq Requests
  /\ selected \in Events \cup {Null} /\ detail \in Events \cup {Null}
  /\ details \subseteq [event : Events, aborted : BOOLEAN]
  /\ dirty \subseteq {"url", "data", "key"}
  /\ wanted \in Urls /\ slip \in {"no", "hurried", "lost"} /\ left \in 0 .. MaxEvents

\* The list is always the beginning of one listing of the query it is shown for,
\* never a mixture of two: whatever the user does while the next page is on its
\* way and however the feed changes, and the cursor is where the list ends
\* (calendar-workbench.tsx: loadMore; calendar_service.go: ListEvents).
OneListing ==
  events # <<>> =>
    \E v \in Versions :
      LET listing == Listing(eventsQuery, v) IN
      /\ Len(events) <= Len(listing) /\ events = SubSeq(listing, 1, Len(events))
      /\ cursor # Null => cursor = [offset |-> Len(events), print |-> listing]

\* The details shown are of the event that is selected, of a date that is shown:
\* a late answer does not replace them (calendar-workbench.tsx: loadDetail).
DetailIsSelected ==
  /\ detail = selected
  /\ selected # Null /\ ResultsAreCurrent => selected[1] = query.date

\* When nothing is in progress, the URL, the query, the data and the list agree on
\* what the user chose last, however choices, links and loads overlapped; but not
\* when a choice was made during a navigation and a link then led back to the
\* location it was leaving (calendar-workbench.tsx: updateQuery, effect on the URL).
SettledShowsChoice ==
  dirty = {} /\ load = Null /\ slip # "lost" =>
    /\ url = query /\ ResultsAreCurrent
    /\ wanted # Bare => query = wanted

\* Again and again the page and its list are loaded, except in the case above, when
\* the page goes on loading (calendar-workbench.tsx: loading, effect on the URL).
Settles == []<>(slip = "lost" \/ (load = Null /\ ResultsAreCurrent /\ ~ loadingMore))
=============================================================================

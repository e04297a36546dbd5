----------------------------- MODULE LinkChecker -----------------------------
(***************************************************************************)
(* The crawl of packages/broken-link-checker: checkOne runs for several    *)
(* items of a channel at a time, feeds what it finds back into the channel *)
(* and closes it when nothing is pending.  The web client is seen through  *)
(* how a request settles; its retries and timeouts are in WebClient.       *)
(***************************************************************************)
EXTENDS Integers, Sequences, FiniteSets, SequencesExt

CONSTANTS Urls,
          External,     \* urls of other hosts than the seeds: checked, not read
          Filtered,     \* urls a filter rejects
          Alias,        \* what the preprocessors make of a url
          Concurrency, MaxDepth,
          MaxLinks      \* bound: hrefs of a page

VARIABLES begun,    \* check() was called
          channel,  \* the work items: [url, depth]
          closed,
          visited, pending,
          running,  \* items that checkOne works on
          ok, broken, threw  \* history: urls by how checkOne has settled

vars == <<begun, channel, closed, visited, pending, running, ok, broken, threw>>

Init == /\ begun = FALSE /\ channel = <<>> /\ closed = FALSE /\ visited = {} /\ pending = 0
        /\ running = {} /\ ok = {} /\ broken = {} /\ threw = {}

-----------------------------------------------------------------------------
(* A page: a sequence of urls and of hrefs that lead nowhere. *)

Nowhere == "nowhere"   \* a fragment, mailto: and the like, or what is no url
Pages == SeqOf(Urls \cup {Nowhere}, MaxLinks)

\* What a loop over s lists that passes by all that is not in kept or was seen before:
\* the one sequence in which what comes first has its first place in s first.
Distinct(s, kept) ==
    {d \in SeqOf(kept, Len(s)) :
        /\ ToSet(d) = ToSet(s) \cap kept
        /\ \A i, j \in DOMAIN d : i < j =>
              \E m \in DOMAIN s : s[m] = d[i] /\ \A n \in DOMAIN s : s[n] = d[j] => m < n}

\* Every url once, in order.  A sitemap's <loc>s likewise.
_extractLinks(page) == Distinct(page, Urls)

\* enqueue of several urls: which of them are new, in order.
Fresh(urls, skipFilter) ==
    Distinct([n \in DOMAIN urls |-> Alias[urls[n]]],
             Urls \ (visited \cup IF skipFilter THEN {} ELSE Filtered))

\* The channel is unbounded; after close trySend fails and the item is not pending.
enqueue(new, depth) ==
    /\ visited' = visited \cup ToSet(new)
    /\ channel' = IF closed THEN channel
                  ELSE channel \o [n \in DOMAIN new |-> [url |-> new[n], depth |-> depth]]

Added(new) == IF closed THEN 0 ELSE Len(new)

-----------------------------------------------------------------------------
check(seeds) ==
    /\ ~begun /\ begun' = TRUE
    /\ \E new \in Fresh(seeds, TRUE) : enqueue(new, 0) /\ pending' = Added(new)
    /\ UNCHANGED <<closed, running, ok, broken, threw>>

\* The stream takes the next item.
Takes == /\ channel # <<>> /\ Cardinality(running) < Concurrency
         /\ running' = running \cup {Head(channel)} /\ channel' = Tail(channel)
         /\ UNCHANGED <<begun, closed, visited, pending, ok, broken, threw>>

\* The last lines of checkOne.
Settles(item, added) == /\ pending' = pending + added - 1
                        /\ closed' = (closed \/ pending' = 0)
                        /\ running' = running \ {item}

\* Fault: a link counts as pending when it is taken, not when it is found.
CheckOk_CountsLate(item) ==
    /\ item \in running
    /\ LET reads == item.url \notin External /\ item.depth < MaxDepth IN
       \E page \in IF reads THEN Pages ELSE {<<>>} :
       \E links \in _extractLinks(page) : \E new \in Fresh(links, FALSE) :
          enqueue(new, item.depth + 1) /\ Settles(item, 0)
    /\ ok' = ok \cup {item.url}
    /\ UNCHANGED <<begun, broken, threw>>

\* A page of the hosts above the greatest depth is read for links.
CheckOk(item) ==
    /\ item \in running
    /\ LET reads == item.url \notin External /\ item.depth < MaxDepth IN
       \E page \in IF reads THEN Pages ELSE {<<>>} :
       \E links \in _extractLinks(page) : \E new \in Fresh(links, FALSE) :
          enqueue(new, item.depth + 1) /\ Settles(item, Added(new))
    /\ ok' = ok \cup {item.url}
    /\ UNCHANGED <<begun, broken, threw>>

\* An HttpError is a result like any other.
CheckBroken(item) == /\ item \in running
                     /\ Settles(item, 0)
                     /\ broken' = broken \cup {item.url}
                     /\ UNCHANGED <<begun, channel, visited, ok, threw>>

\* Anything else, a body that does not parse or a filter of the caller that throws
\* after some links, has no details: recover() throws too, and the item stays pending.
CheckThrows(item) ==
    /\ item \in running
    /\ \E url \in Urls, n \in IF item.url \notin External /\ item.depth < MaxDepth
                             THEN 0..1 ELSE {0} :
       \E new \in Fresh(SubSeq(<<url>>, 1, n), FALSE) :
          enqueue(new, item.depth + 1) /\ pending' = pending + Added(new)
    /\ running' = running \ {item} /\ threw' = threw \cup {item.url}
    /\ UNCHANGED <<begun, closed, ok, broken>>

Next == \/ \E seeds \in Pages \ {<<>>} : Nowhere \notin ToSet(seeds) /\ check(seeds)
        \/ Takes
        \/ \E item \in running : CheckOk(item) \/ CheckBroken(item) \/ CheckThrows(item)

Spec == Init /\ [][Next]_vars

\* The caller reads the stream, and a request settles.
Fairness ==
    /\ WF_vars(Takes)
    /\ WF_vars(\E item \in running : CheckOk(item) \/ CheckBroken(item))

-----------------------------------------------------------------------------
TypeOK == /\ visited \subseteq Urls /\ pending \in 0..Cardinality(Urls)
          /\ \A item \in running : item.url \in visited /\ item.depth <= MaxDepth
          /\ Cardinality(running) <= Concurrency

\* The channel is closed only when everything that was found has been checked, and
\* nothing is checked twice: no work is in it or under way, and none was refused.
ClosedMeansDone ==
    /\ closed => channel = <<>> /\ running = {} /\ visited = ok \cup broken
    /\ ok \cap broken = {}

\* A crawl in which no callback throws comes to its end, cycles and all.
CrawlEnds == begun ~> (closed \/ threw # {})

=============================================================================

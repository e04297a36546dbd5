------------------------------- MODULE MCTasks -------------------------------
(***************************************************************************)
(* Tasks and what is built of them, on small instances: the scoped task    *)
(* under timeout and retry, groups of tasks, the web client, the crawl of  *)
(* the link checker, a check run with its annotations and the walk of a    *)
(* directory.  Each behaviour runs the one that "model" names, and the     *)
(* others stay in their initial state.                                     *)
(***************************************************************************)
EXTENDS ScopedTask, Sequences, FiniteSets

CONSTANTS MaxTasks,                        \* TaskGroup
          Urls, External, Filtered, Alias, Concurrency, MaxDepth, MaxLinks, \* LinkChecker
          MaxAnnotations, BatchSize,       \* CheckRuns
          Names, Levels, Depths, Patterns, MaxChanges   \* DirectoryWalk

\* A task with a callback behind it is a group of two.
ASSUME GroupAssumption == MaxTasks \in Nat /\ MaxTasks >= 2

VARIABLES model,
          kind, size, gOuter, told, promise, gWork, seen, errors, gResult,
          config, phase, wAttempt, error, wait, answers, wResult,
          begun, channel, closed, visited, pending, running, ok, broken, threw,
          client, status, stage, cOutcome, chan, write, buffer, flight, cLoop, watch, accepted,
          flushed,
          tree, changes, options, state, stack, dir, entries, given, stable

Group == INSTANCE TaskGroup WITH outer <- gOuter, work <- gWork, result <- gResult

Client == INSTANCE WebClient WITH attempt <- wAttempt, result <- wResult

Crawl == INSTANCE LinkChecker

Checks == INSTANCE CheckRuns WITH outcome <- cOutcome, loop <- cLoop

Walk == INSTANCE DirectoryWalk

\* The preprocessors make a url of a url.
ASSUME CrawlAssumption == /\ IsFiniteSet(Urls) /\ Alias \in [Urls -> Urls]
                          /\ Concurrency \in Nat /\ MaxDepth \in Nat

\* A batch holds an annotation.
ASSUME ChecksAssumption == MaxAnnotations \in Nat /\ BatchSize \in Nat \ {0}

\* No pattern fits the root.
ASSUME WalkAssumption == Levels \in Nat /\ Depths \subseteq Nat /\ Patterns \subseteq SUBSET Walk!Paths

-----------------------------------------------------------------------------
\* Four links of a site: "c" leads outside, "b" is filtered out, "d" redirects to "a".
MCUrls == {"a", "b", "c", "d"}
MCAlias == [u \in MCUrls |-> IF u = "d" THEN "a" ELSE u]

\* A pattern fits one entry of one of the two levels.
MCPatterns == {{<<1>>}, {<<1, 1>>}}

-----------------------------------------------------------------------------
group  == <<kind, size, gOuter, told, promise, gWork, seen, errors, gResult>>
web    == <<config, phase, wAttempt, error, wait, answers, wResult>>
crawl  == <<begun, channel, closed, visited, pending, running, ok, broken, threw>>
checks == <<client, status, stage, cOutcome, chan, write, buffer, flight, cLoop, watch, accepted,
            flushed>>
walk   == <<tree, changes, options, state, stack, dir, entries, given, stable>>

mcvars == <<model, vars, group, web, crawl, checks, walk>>

MCInit == /\ model \in {"scoped", "group", "web", "crawl", "checks", "walk"}
          /\ Init /\ Group!Init /\ Client!Init /\ Crawl!Init /\ Checks!Init /\ Walk!Init

MCNext ==
    /\ UNCHANGED model
    /\ \/ model = "scoped" /\ Next /\ UNCHANGED <<group, web, crawl, checks, walk>>
       \/ model = "group" /\ Group!Next /\ UNCHANGED <<vars, web, crawl, checks, walk>>
       \/ model = "web" /\ Client!Next /\ UNCHANGED <<vars, group, crawl, checks, walk>>
       \/ model = "crawl" /\ Crawl!Next /\ UNCHANGED <<vars, group, web, checks, walk>>
       \/ model = "checks" /\ Checks!Next /\ UNCHANGED <<vars, group, web, crawl, walk>>
       \/ model = "walk" /\ Walk!Next /\ UNCHANGED <<vars, group, web, crawl, checks>>

\* No step that is fair is enabled in an initial state.
MCSpec == MCInit /\ [][MCNext]_mcvars /\ Fairness /\ Group!Fairness /\ Crawl!Fairness

-----------------------------------------------------------------------------
(* Properties, besides those of ScopedTask. *)

\* When a race is decided, or a group is aborted, no task of it is left running with a
\* signal that nobody has aborted (Task.race, all, allSettled and chain).
LosersAreAborted == Group!LosersAreAborted

\* A race is won by a success and lost by failures only; all and chain report a value
\* when every task had one, and a task of a chain runs on the value before it.  No task
\* begins when the caller has its result.
OutcomeIsRight == [](Group!TypeOK /\ Group!OutcomeIsRight) /\ Group!NoTaskBeginsLate

\* The retries of the web client keep to what the server answered: a Retry-After is
\* waited for, and an answer that is final is not asked for again.
ServerIsRespected == Client!TypeOK /\ Client!ServerIsRespected

\* The channel of the crawl is closed when all that was found has been checked, once.
ClosedMeansDone == Crawl!TypeOK /\ Crawl!ClosedMeansDone

\* An accepted annotation is sent once, in order and before the run is completed, and
\* a watcher that is not cut short has seen the run completed.
AnnotationsAreKept == Checks!TypeOK /\ Checks!AnnotationsAreKept /\ Checks!WatchersSeeTheEnd

\* A walk gives every entry that fits and was there all the time, each once, and none
\* that is excluded, while the tree changes.
WalkFindsTheTree == Walk!TypeOK /\ Walk!WalkFindsTheTree

\* What was acquired is released; a group whose tasks settle has a result; a crawl in
\* which no callback throws ends, though pages link to each other.
TasksSettle == ResourcesAreReleased /\ Group!GroupSettles /\ Crawl!CrawlEnds

=============================================================================

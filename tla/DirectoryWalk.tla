---------------------------- MODULE DirectoryWalk ----------------------------
(***************************************************************************)
(* walk() and glob() of packages/fs/dir.ts: a depth-first walk of a        *)
(* directory tree that changes while its entries are read and consumed.    *)
(*                                                                         *)
(* A path is the sequence of its names, <<>> the root.  A match or skip    *)
(* pattern is the set of the paths that it fits.                           *)
(***************************************************************************)
EXTENDS Integers, Sequences, FiniteSets, SequencesExt

CONSTANTS Names,
          Levels,      \* bound: names that a path may have
          Depths,      \* values of options.maxDepth
          Patterns,    \* sets of paths, for options.match and options.skip
          MaxChanges   \* bound: changes to the tree, the first of which build it

Paths == UNION {[1..n -> Names] : n \in 1..Levels}

VARIABLES tree,     \* per path: "none", "file", "dir" or "link"
          changes,  \* how many there were
          options,  \* [maxDepth, match, skip, files, dirs, links]
          state,    \* "none", "reading", "giving", "done", "thrown"
          stack,    \* the directories to read
          dir,      \* the one at hand
          entries,  \* what readdir answered and the loop has not been through: [path, kind]
          given,    \* history: the paths yielded
          stable    \* history: paths that have not changed since the walk began

vars == <<tree, changes, options, state, stack, dir, entries, given, stable>>

Kind(p) == IF p = <<>> THEN "dir" ELSE tree[p]

Init == /\ tree = [p \in Paths |-> "none"] /\ changes = 0
        /\ options = [maxDepth |-> 0, match |-> Paths, skip |-> {},
                      files |-> TRUE, dirs |-> TRUE, links |-> TRUE]
        /\ state = "none" /\ stack = <<>> /\ dir = <<>> /\ entries = {} /\ given = <<>>
        /\ stable = Paths

-----------------------------------------------------------------------------
(* Others create and remove entries, a directory with all that is in it. *)

Change ==
    /\ changes < MaxChanges /\ changes' = changes + 1
    /\ \E p \in Paths :
          \/ /\ tree[p] = "none" /\ Kind(Front(p)) = "dir"
             /\ \E kind \in {"file", "dir", "link"} : tree' = [tree EXCEPT ![p] = kind]
             /\ stable' = stable \ {p}
          \/ /\ tree[p] # "none"
             /\ tree' = [q \in Paths |-> IF IsPrefix(p, q) THEN "none" ELSE tree[q]]
             /\ stable' = stable \ {q \in Paths : IsPrefix(p, q)}
    /\ UNCHANGED <<options, state, stack, dir, entries, given>>

\* What readdir answers of a directory.
ReadDir(d) == {[path |-> p, kind |-> tree[p]] : p \in {q \in Paths : Front(q) = d /\ tree[q] # "none"}}

-----------------------------------------------------------------------------
\* The tree is as it is when the walk begins.
walk == /\ state = "none" /\ state' = "reading"
        /\ \E maxDepth \in Depths, match \in Patterns \cup {Paths}, skip \in Patterns \cup {{}} :
           \E without \in {"none", "file", "dir", "link"} :
              options' = [maxDepth |-> maxDepth, match |-> match, skip |-> skip,
                          files |-> without # "file", dirs |-> without # "dir",
                          links |-> without # "link"]
        /\ stack' = << <<>> >> /\ stable' = Paths
        /\ UNCHANGED <<tree, changes, dir, entries, given>>

\* The next directory is taken off the stack; if it is gone the walk throws.
ReadsNext ==
    /\ state = "reading" /\ stack # <<>>
    /\ dir' = Last(stack) /\ stack' = Front(stack)
    /\ IF Kind(dir') = "dir" THEN state' = "giving" /\ entries' = ReadDir(dir')
                             ELSE state' = "thrown" /\ entries' = {}
    /\ UNCHANGED <<tree, changes, options, given, stable>>

\* The entry is given out ...
Included(e) == /\ e.path \in options.match
               /\ \/ e.kind = "file" /\ options.files
                  \/ e.kind = "dir" /\ options.dirs
                  \/ e.kind = "link" /\ options.links

\* Fault: a directory that does not match is not entered.
Entered_IfMatching(e) == e.kind = "dir" /\ Len(dir) < options.maxDepth /\ e.path \in options.match

\* ... and if it is a directory entered, whether it was given out or not.
Entered(e) == e.kind = "dir" /\ Len(dir) < options.maxDepth

Gives == /\ state = "giving"
         /\ \E e \in entries :
               /\ entries' = entries \ {e}
               /\ given' = IF e.path \notin options.skip /\ Included(e) THEN Append(given, e.path)
                                                                        ELSE given
               /\ stack' = IF e.path \notin options.skip /\ Entered(e) THEN Append(stack, e.path)
                                                                       ELSE stack
         /\ UNCHANGED <<tree, changes, options, state, dir, stable>>

DirectoryEnds == /\ state = "giving" /\ entries = {} /\ state' = "reading"
                 /\ UNCHANGED <<tree, changes, options, stack, dir, entries, given, stable>>

WalkEnds == /\ state = "reading" /\ stack = <<>> /\ state' = "done"
            /\ UNCHANGED <<tree, changes, options, stack, dir, entries, given, stable>>

\* The consumer leaves at a yield.
Leave == /\ state = "giving" /\ given # <<>>
         /\ state' = "thrown" /\ entries' = {} /\ stack' = <<>>
         /\ UNCHANGED <<tree, changes, options, dir, given, stable>>

Next == Change \/ walk \/ ReadsNext \/ Gives \/ DirectoryEnds \/ WalkEnds \/ Leave

Spec == Init /\ [][Next]_vars

-----------------------------------------------------------------------------
(* Properties. *)

TypeOK == /\ tree \in [Paths -> {"none", "file", "dir", "link"}]
          /\ \A p \in Paths : tree[p] # "none" => Kind(Front(p)) = "dir"
          /\ state \in {"none", "reading", "giving", "done", "thrown"}
          /\ ToSet(stack) \subseteq Paths \cup {<<>>} /\ ToSet(given) \subseteq Paths

\* Neither the path nor one that leads to it is skipped.
Within(p) == \A q \in options.skip : ~IsPrefix(q, p)

\* A walk that comes to its end has given every entry that was there all the time, is
\* not deeper than asked for, fits the pattern and is not below a skipped directory;
\* and whatever the others do to the tree meanwhile, none twice and none that is
\* excluded.
WalkFindsTheTree ==
    /\ IsInjective(given)
    /\ \A p \in ToSet(given) : Within(p) /\ p \in options.match /\ Len(p) <= options.maxDepth + 1
    /\ state = "done" =>
          {p \in stable : /\ Len(p) <= options.maxDepth + 1 /\ Within(p)
                          /\ Included([path |-> p, kind |-> tree[p]])} \subseteq ToSet(given)

=============================================================================

\* Three attempts, so that two may overlap with a third; groups of up to three tasks;
\* two pages at a time; three annotations in batches of two; three changes of a tree.
CONSTANTS
    MaxAttempts = 3
    MaxTasks = 3
    Urls <- MCUrls
    External = {"c"}
    Filtered = {"b"}
    Alias <- MCAlias
    Concurrency = 2
    MaxDepth = 2
    MaxLinks = 2
    MaxAnnotations = 3
    BatchSize = 2
    Names = {1, 2}
    Levels = 2
    Depths = {0, 1}
    Patterns <- MCPatterns
    MaxChanges = 3
SPECIFICATION MCSpec
CHECK_DEADLOCK FALSE
INVARIANTS TypeOK OrphansAreAborted LosersAreAborted 
    ClosedMeansDone AnnotationsAreKept WalkFindsTheTree
PROPERTIES NothingBeginsAfterResult OutcomeIsRight TasksSettle

SPECIFICATION Spec
CONSTANTS
    o1 = o1
    t1 = t1
    Owner = {o1, o2}
    All = All
    Tag = {t1}
    AnyTag = AnyTag
    Filters <- MCFilters
    Stamp = {1, 2}
    MaxMessages = 3
    Old <- MCOld
    PageSize = 1
    NoCursor = NoCursor
    NoWalk = NoWalk
INVARIANTS TypeOK WalkComplete PagesDescend TagsShown TagsComplete NoOrphans ChildrenOfMessage

SPECIFICATION Spec
CONSTANTS
    silent = silent  short = short  middling = middling  oversized = oversized  h1 = h1  h2 = h2
    Texts = {silent, short, middling, oversized}
    Tokens <- TheTokens
    Headings = {h1, h2}
    ChunkSize = 4
    MaxUnits = 5
CHECK_DEADLOCK FALSE
INVARIANTS SectionsApart SizeKept NothingLost ContextCarried

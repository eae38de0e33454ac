SPECIFICATION TextSpec
CONSTANTS
    Headers = {"json.hpp"}
    Strings <- SomeStrings
    Chunks <- NestedChunks
    MaxChunks = 5
    Statuses = {200, 400}
    Refusals <- NestedRefusals
INVARIANT RefusalsAsUnread

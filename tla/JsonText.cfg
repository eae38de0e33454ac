SPECIFICATION TextSpec
CONSTANTS
    Headers = {"json.hpp", "json_vc11.hpp"}
    Strings <- SomeStrings
    Chunks <- SomeChunks
    MaxChunks = 3
    Statuses = {200, 400, 403, 500}
    Refusals <- SomeRefusals
INVARIANT BufferUnseen
INVARIANT AcceptsJustJson
INVARIANT WrittenReadsBack
INVARIANT DroppedAsUnread
PROPERTY AnswersFitResponses

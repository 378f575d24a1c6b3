SPECIFICATION Spec
CONSTANTS
    a = a
    b = b
    Creators <- MCCreators
    Legacy <- MCLegacy
    Capped = {1}
    Cap = 2
    MaxTokenCount = 5
    MAX_TOKENS_BY_CREATOR_PAGE = 2
    MIGRATE_TOKEN_INFO_CHUNK = 2
INVARIANT
    LegacyListsReadable

\* A header block of exactly MaxHeaderBytes, cut in every way.
CONSTANTS
    MaxHeaderBytes = 10
    MaxMessages = 1
SPECIFICATION ParserSpec
INVARIANT HeadersWithinLimitPass
CHECK_DEADLOCK FALSE

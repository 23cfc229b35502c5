\* A frame with a character of two bytes, cut in every way.
CONSTANTS
    MaxLineBytes = 6
    MaxFrames = 1
SPECIFICATION DecoderSpec
INVARIANT EveryFrameEmitted
CHECK_DEADLOCK FALSE

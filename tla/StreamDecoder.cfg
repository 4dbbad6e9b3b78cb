SPECIFICATION DecoderSpec
CONSTANTS
  Chunks <- MCChunks
  Numerals <- MCNumerals
  PosSize = 16
  MaxInput = 7
INVARIANTS
  DecoderTypeOK
  ChunkingIsInvisible
  SegmentsDecodeAlone
  FramesCarryTheirLines
  MessagesKeepPayloads

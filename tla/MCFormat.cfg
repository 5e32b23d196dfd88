SPECIFICATION Spec
CONSTANTS
  Formats <- MCFormats
  Sizes = {0, 1, 7}
  Widths <- MCWidths
  Ints <- MCInts
  Floats <- MCFloats
  Texts <- MCTexts
  NULL = NULL
  Bits <- MCBits
INVARIANTS TypeOK Contained CutToSize LengthReturned ReadsBack FieldAsAsked FloatReadsBack
PROPERTY Descends

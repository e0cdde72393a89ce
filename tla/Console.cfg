CONSTANTS
  CONSOLE_INPUT_BUF = 4
  Chars = {a, b}
  NL = NL
  Readers = {r1, r2}
  NoReader = NoReader
  MaxLen = 3
  MaxTyped = 8
SPECIFICATION Spec
INVARIANTS IndicesOrdered ReaderWoken
PROPERTIES ImplementsAbsLine
SYMMETRY ReaderSymmetry

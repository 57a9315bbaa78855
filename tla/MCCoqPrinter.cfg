CONSTANTS
  Decls <- MCDecls
  MaxDecls = 2

SPECIFICATION Spec

\* A package has finitely many declarations: the File is complete when
\* MaxDecls of them have been printed.
CHECK_DEADLOCK FALSE

INVARIANTS
  CallArgumentsReparse
  DelimitersBalanced
  NoTrailingWhitespace
  RenderNeverPanics

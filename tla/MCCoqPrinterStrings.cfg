CONSTANTS
  Decls <- MCDeclsStrings
  MaxDecls = 1

SPECIFICATION Spec

\* A package has finitely many declarations: the File is complete when
\* MaxDecls of them have been printed.
CHECK_DEADLOCK FALSE

INVARIANT
  StringLiteralsPreserved

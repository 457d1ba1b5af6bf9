\* Room for two redirections on a line.
CONSTANT MaxLine = 5
SPECIFICATION Spec
INVARIANT InputRedirected

------------------------------- MODULE MCTree -------------------------------
EXTENDS Tree, TLC

\* Absolute: the root itself and its entries.  Relative: an entry of the
\* working directory, one of a directory below it, the directory above it and
\* its entries.  Longer paths are these after a chdir.
MCPaths ==
  [abs : {TRUE}, elems : {<<>>} \union {<<n>> : n \in Names}] \union
  [abs : {FALSE}, elems : {<<"..">>} \union {<<n>> : n \in Names}
                          \union {<<"..", n>> : n \in Names}
                          \union {<<n, m>> \in Names \X Names : n # m}]
MCMinLink == -1
MCSymmetry == Permutations(Names) \union Permutations(Procs)
=============================================================================

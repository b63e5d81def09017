--------------------------- MODULE MCProcessHosts ---------------------------
(* Small instances of ProcessHosts for TLC.                                   *)
EXTENDS ProcessHosts

MCLimit == [stream \in Outputs |-> 1]

MCMaxLimits == [timeout |-> 1, fuel |-> 1, memory |-> 1, table |-> 1, out |-> 2, err |-> 1]
Module == [length |-> 1, component |-> FALSE, imports |-> {"fd_write"}, startSection |-> FALSE]
Run(out) == [limits |-> [MCMaxLimits EXCEPT !.out = out], stdin |-> 1, module |-> Module]

\* Commands of two capacities, and one each that prepare refuses.
MCCommandRequests ==
  {Run(1), Run(2), Run(0), Run(3), [Run(1) EXCEPT !.stdin = 2], [Run(1) EXCEPT !.module.length = 0],
   [Run(1) EXCEPT !.module.imports = {"fd_write", "path_open"}],
   [Run(1) EXCEPT !.module.component = TRUE], [Run(1) EXCEPT !.module.startSection = TRUE]}
=============================================================================

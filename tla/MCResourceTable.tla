-------------------------- MODULE MCResourceTable --------------------------
(* Small instances of ResourceTable: two processes, a protocol server end   *)
(* (end: unique, and created with the rights of the client end), a          *)
(* duplicable kernel view (view) and a protocol client end (client).        *)
EXTENDS ResourceTable, TLC

CONSTANTS p, q, end, view, client

MCGranted == [o \in Objects |-> {DUPLICATE, TRANSFER}]
MCUnique == {end, client} \cap Objects
MCInheritable == {view, client} \cap Objects
MCRequests == {{}, {TRANSFER}}

Symmetry == Permutations(Tables)
=============================================================================

----------------------------- MODULE NX_VpuMemory -----------------------------
(***************************************************************************)
(* The memory allocator of the VPU library: what one allocation, mapping   *)
(* or release leaves in the kernel, whichever of its calls fails.          *)
(*                                                                         *)
(* The kernel's resources are counted: GEM objects, DMA buffer descriptors *)
(* and mappings.  The calls of an allocation of n planes are numbered:     *)
(* call 2i - 1 creates the GEM object of plane i and call 2i exports it.   *)
(* `at` is the number of the call that fails, or None if none does.        *)
(* NX_AllocateMemory is the case of one plane.  Opening the DRM device,    *)
(* which comes first and is undone on every path, is left out.             *)
(***************************************************************************)
EXTENDS Integers, FiniteSets

None == 0

Nothing == [gem |-> 0, fd |-> 0, map |-> 0]
Plus(a, b) == [r \in DOMAIN a |-> a[r] + b[r]]
Minus(a, b) == [r \in DOMAIN a |-> a[r] - b[r]]
Times(k, a) == [r \in DOMAIN a |-> k * a[r]]

\* The calls of an allocation or a mapping that may fail.
AllocateCalls(n) == 1..(2 * n)
MapCalls(n) == 1..n

\* The planes whose GEM object was created, and was exported.
Created(n, at) == {i \in 1..n : at = None \/ 2 * i - 1 < at}
Exported(n, at) == {i \in 1..n : at = None \/ 2 * i < at}

\* Not the code: the exported buffers stay open.
ErrorExit_GemOnly(n, at) ==
  [gem |-> Cardinality(Created(n, at)), fd |-> 0, map |-> 0]

\* What ErrorExit gives back.
ErrorExit(n, at) ==
  [gem |-> Cardinality(Created(n, at)), fd |-> Cardinality(Exported(n, at)), map |-> 0]

\* What NX_AllocateVideoMemory leaves: in the end the descriptors only.
Allocated(n, at) ==
  Minus([gem |-> Cardinality(Created(n, at)), fd |-> Cardinality(Exported(n, at)), map |-> 0],
        IF at = None THEN [gem |-> n, fd |-> 0, map |-> 0] ELSE ErrorExit(n, at))

\* What NX_MapVideoMemory adds; the planes mapped before a failure stay so.
Mapped(n, at) == [gem |-> 0, fd |-> 0, map |-> IF at = None THEN n ELSE at - 1]

\* A memory of n planes is allocated and mapped; at and mapAt are the failing
\* calls.  What the kernel has more, and what the handle, NULL if the allocation
\* failed, answers for.
Made(n, at, mapAt) ==
  Plus(Allocated(n, at), IF at = None THEN Mapped(n, mapAt) ELSE Nothing)
Held(n, at, mapAt) == IF at = None THEN Made(n, at, mapAt) ELSE Nothing

=============================================================================

------------------------------ MODULE MCPreview ------------------------------
(***************************************************************************)
(* A small instance of Preview for TLC: gpu decodes into textures, its     *)
(* frame rate varies and one of its packets may be unreadable; big has     *)
(* larger slots than the others and a damaged frame, and huge is larger    *)
(* than every slot.                                                        *)
(***************************************************************************)
EXTENDS Preview

CONSTANTS gpu, cpu, big, huge, x1, x2, y1, y2, small, large, none

MCLength == [s \in Sources |-> 4]
MCPts == [s \in Sources |-> IF s = gpu THEN (0 :> 0) @@ (1 :> 1) @@ (2 :> 3) @@ (3 :> 4)
                           ELSE [f \in 0..3 |-> f]]
MCIntact == [s \in Sources |-> IF s = big THEN {0, 2, 3} ELSE 0..3]
MCKeyframes == [s \in Sources |-> {0, 2}]
MCUnreadable == [s \in Sources |-> IF s = gpu THEN {2} ELSE {}]
MCDelay == [s \in Sources |-> IF s = cpu THEN 2 ELSE 1]
MCTierOf == (gpu :> small) @@ (cpu :> small) @@ (big :> large) @@ (huge :> none)
            @@ (x1 :> small) @@ (x2 :> small) @@ (y1 :> large) @@ (y2 :> large)

At(s, n) == [src |-> s, pts |-> n]
MCLayouts ==
    {{At(gpu, n)} : n \in {1, 2, 3, 4}} \cup {{At(cpu, n)} : n \in {1, 2, 3}}
    \cup {{At(gpu, 2), At(cpu, 2)}, {At(cpu, 0), At(cpu, 3)}, {At(gpu, 1), At(gpu, 4)},
          {At(big, 1), At(cpu, 1), At(gpu, 2)}, {At(big, 2)}, {At(huge, 0), At(cpu, 3)}}
=============================================================================

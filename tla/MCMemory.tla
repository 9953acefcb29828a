-------------------------------- MODULE MCMemory --------------------------------
(***************************************************************************)
(* Memory with two keys, packs that are absent, plain, overlapping, or     *)
(* beyond resolution, and the null policy and one with every tier.         *)
(***************************************************************************)
EXTENDS Memory, TLC

CONSTANTS k1, k2, r1, r2

AnyWriter == Permutations(Writers)

SomePacks ==
    {Absent, [keys |-> <<k1, k2>>, includes |-> <<>>],
     [keys |-> <<k1>>, includes |-> <<<<k2, k1>>>>],
     [keys |-> <<k1>>, includes |-> <<<<k2>>, Nested>>]}

SomePolicies ==
    {[routes |-> {}, elevated |-> {}, restricted |-> {}],
     [routes |-> {r1}, elevated |-> {r1, r2}, restricted |-> {r2}]}
=============================================================================

-------------------------------- MODULE OneOf -------------------------------
(***************************************************************************)
(* What the run modules that hold several components share.  The           *)
(* components of such a module do not interact in the code, so that a      *)
(* behaviour of it is a behaviour of one of them, chosen in the initial    *)
(* state: comp names it, its n variables are the first n of v1 .. v17 and  *)
(* the others stay None.  A run of the module checks every component on    *)
(* its own small instance, without the product of their states.            *)
(***************************************************************************)
EXTENDS Naturals

CONSTANT None

VARIABLES comp, v1, v2, v3, v4, v5, v6, v7, v8, v9, v10, v11, v12, v13, v14, v15, v16, v17

all == <<comp, v1, v2, v3, v4, v5, v6, v7, v8, v9, v10, v11, v12, v13, v14, v15, v16, v17>>

Spare(n) ==
    /\ n < 5 => v5 = None
    /\ n < 6 => v6 = None
    /\ n < 7 => v7 = None
    /\ n < 8 => v8 = None
    /\ n < 9 => v9 = None
    /\ n < 10 => v10 = None
    /\ n < 11 => v11 = None
    /\ n < 12 => v12 = None
    /\ n < 13 => v13 = None
    /\ n < 14 => v14 = None
    /\ n < 15 => v15 = None
    /\ n < 16 => v16 = None
    /\ n < 17 => v17 = None

Keep(n) ==
    /\ n < 5 => v5' = v5
    /\ n < 6 => v6' = v6
    /\ n < 7 => v7' = v7
    /\ n < 8 => v8' = v8
    /\ n < 9 => v9' = v9
    /\ n < 10 => v10' = v10
    /\ n < 11 => v11' = v11
    /\ n < 12 => v12' = v12
    /\ n < 13 => v13' = v13
    /\ n < 14 => v14' = v14
    /\ n < 15 => v15' = v15
    /\ n < 16 => v16' = v16
    /\ n < 17 => v17' = v17

\* The component called name, which has n variables, is the one that runs; every component
\* has at least four.
Start(name, n) == comp = name /\ Spare(n)
Stay(name, n) == comp = name /\ comp' = comp /\ Keep(n)

=============================================================================

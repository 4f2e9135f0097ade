------------------------------ MODULE MCLayout ------------------------------
(****************************************************************************)
(* The layout of the smallest hierarchy in which the order of registration  *)
(* matters: a class with two bases, one of which has a base of its own.     *)
(*                                                                          *)
(*                 Top     Side                                             *)
(*                    \      |                                              *)
(*                  Middle   |                                              *)
(*                       \   |                                              *)
(*                       Bottom                                             *)
(****************************************************************************)
EXTENDS Layout

Shape(top, middle, side, bottom) ==
    [c \in Class |-> IF c = bottom THEN {top, middle, side}
                     ELSE IF c = middle THEN {top} ELSE {}]

\* The hierarchy under every numbering, that is, every order of the deque.
Shapes ==
    { Shape(f[1], f[2], f[3], f[4]) :
        f \in { g \in [1 .. 4 -> Class] : \A i, j \in 1 .. 4 : g[i] = g[j] => i = j } }
=============================================================================

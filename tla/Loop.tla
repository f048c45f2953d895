--------------------------------- MODULE Loop ----------------------------------
(****************************************************************************)
(* A loop over a list: Step(x, m, i) is its body.  m is what the loop works *)
(* on, i the place in the list and x what does not change meanwhile.        *)
(****************************************************************************)
EXTENDS Integers

CONSTANT Step(_, _, _)

(* m after n rounds.                                                        *)
loop(x, m, n) ==
    LET at[i \in 0 .. n] == IF i = 0 THEN m ELSE Step(x, at[i - 1], i)
    IN  at[n]
================================================================================

------------------------------- MODULE LoopProofs -------------------------------
(****************************************************************************)
(* Induction over the rounds of a loop.  The lemmas are stated for any body *)
(* and any predicate; a proof about a loop is an instance of this module.   *)
(****************************************************************************)
EXTENDS Loop, WellFoundedInduction, TLAPS

CONSTANT Good(_, _, _)

Below == {ss \in Nat \X Nat : ss[1] < ss[2]}

(* Induction over the numbers, for a set of them.                            *)
LEMMA AllNumbers ==
    ASSUME NEW S \in SUBSET Nat, 0 \in S, \A n \in S : n + 1 \in S
    PROVE  S = Nat
<1> SUFFICES ASSUME Nat \ S # {} PROVE FALSE
  OBVIOUS
<1>1. IsWellFoundedOn(Below, Nat)
  BY NatLessThanWellFounded DEF OpToRel, Below
<1>2. PICK n \in Nat \ S : \A m \in Nat \ S : ~ (<<m, n>> \in Below)
  BY <1>1, WFMin, Zenon
<1>3. n \in Nat \ {0} /\ n - 1 \in Nat
  BY <1>2
<1>4. n - 1 \notin S
  BY <1>2, <1>3
<1>5. <<n - 1, n>> \in Below
  BY <1>3 DEF Below
<1> QED
  BY <1>2, <1>3, <1>4, <1>5

(* f lists the values m takes: before the loop, and after each round.        *)
Rounds(x, m, n, f) ==
    /\ f[0] = m
    /\ \A i \in 1 .. n : f[i] = Step(x, f[i - 1], i)

LEMMA LoopRounds ==
    ASSUME NEW x, NEW m, NEW n \in Nat
    PROVE  \E f : Rounds(x, m, n, f) /\ loop(x, m, n) = f[n]
<1> DEFINE eq(k, f) == f = [i \in 0 .. k |-> IF i = 0 THEN m ELSE Step(x, f[i - 1], i)]
           S == {k \in Nat : \E f : eq(k, f)}
<1>1. 0 \in S
  <2>1. eq(0, [i \in 0 .. 0 |-> m])
    OBVIOUS
  <2> HIDE DEF eq
  <2> QED
    BY <2>1
<1>2. ASSUME NEW k \in S PROVE k + 1 \in S
  <2>1. k \in Nat
    OBVIOUS
  <2>2. PICK g : eq(k, g)
    OBVIOUS
  <2> DEFINE f == [i \in 0 .. k + 1 |-> IF i = k + 1 THEN Step(x, g[k], k + 1) ELSE g[i]]
  <2>3. ASSUME NEW i \in 0 .. k + 1 PROVE f[i] = IF i = 0 THEN m ELSE Step(x, f[i - 1], i)
    <3>1. CASE i = k + 1
      <4>1. i # 0 /\ i - 1 = k /\ k \in 0 .. k + 1 /\ k # k + 1
        BY <2>1, <3>1
      <4>2. f[i] = Step(x, g[k], k + 1) /\ f[k] = g[k]
        BY <3>1, <4>1
      <4> QED
        BY <3>1, <4>1, <4>2
    <3>2. CASE i # k + 1
      <4>1. i \in 0 .. k /\ (i # 0 => i - 1 \in 0 .. k + 1 /\ i - 1 # k + 1)
        BY <2>1, <3>2
      <4>2. f[i] = g[i] /\ (i # 0 => f[i - 1] = g[i - 1])
        BY <3>2, <4>1
      <4>3. g[i] = IF i = 0 THEN m ELSE Step(x, g[i - 1], i)
        BY <2>2, <4>1
      <4> QED
        BY <4>2, <4>3
    <3> QED
      BY <3>1, <3>2
  <2>4. eq(k + 1, f)
    BY <2>3
  <2> HIDE DEF eq, f
  <2> QED
    BY <2>1, <2>4
<1>3. n \in S
  <2> HIDE DEF S
  <2>1. S \in SUBSET Nat
    BY DEF S
  <2> QED
    BY <1>1, <1>2, <2>1, AllNumbers
<1> DEFINE at == CHOOSE f : eq(n, f)
<1>4. eq(n, at)
  <2> HIDE DEF eq
  <2> QED
    BY <1>3
<1>5. loop(x, m, n) = at[n]
  BY DEF loop
<1>6. Rounds(x, m, n, at)
  <2> HIDE DEF at
  <2>1. \A i \in 0 .. n : at[i] = IF i = 0 THEN m ELSE Step(x, at[i - 1], i)
    BY <1>4
  <2>2. 0 \in 0 .. n /\ \A i \in 1 .. n : i \in 0 .. n /\ i # 0
    OBVIOUS
  <2> QED
    BY <2>1, <2>2 DEF Rounds
<1> QED
  BY <1>5, <1>6

(* What holds before a loop, and is kept by each of its rounds, holds after. *)
LEMMA LoopKeeps ==
    ASSUME NEW x, NEW m, NEW n \in Nat, Good(x, 0, m),
           \A i \in 1 .. n : \A y : Good(x, i - 1, y) => Good(x, i, Step(x, y, i))
    PROVE  Good(x, n, loop(x, m, n))
<1>1. PICK f : Rounds(x, m, n, f) /\ loop(x, m, n) = f[n]
  BY LoopRounds
<1> DEFINE S == {k \in Nat : k =< n => Good(x, k, f[k])}
<1>2. 0 \in S
  BY <1>1 DEF Rounds
<1>3. ASSUME NEW k \in S PROVE k + 1 \in S
  <2> SUFFICES ASSUME k + 1 =< n PROVE Good(x, k + 1, f[k + 1])
    OBVIOUS
  <2>1. k \in Nat /\ k =< n /\ k + 1 \in 1 .. n /\ (k + 1) - 1 = k
    OBVIOUS
  <2>2. Good(x, k, f[k]) /\ f[k + 1] = Step(x, f[k], k + 1)
    BY <1>1, <2>1 DEF Rounds
  <2> QED
    BY <2>1, <2>2
<1>4. n \in S
  <2> HIDE DEF S
  <2>1. S \in SUBSET Nat
    BY DEF S
  <2> QED
    BY <1>2, <1>3, <2>1, AllNumbers
<1> QED
  BY <1>1, <1>4

(* The same for a set of states, each with the number of rounds behind it.  *)
LEMMA LoopStays ==
    ASSUME NEW x, NEW m, NEW n \in Nat, NEW G, <<0, m>> \in G,
           \A i \in 1 .. n : \A y : <<i - 1, y>> \in G => <<i, Step(x, y, i)>> \in G
    PROVE  <<n, loop(x, m, n)>> \in G
<1>1. PICK f : Rounds(x, m, n, f) /\ loop(x, m, n) = f[n]
  BY LoopRounds
<1> DEFINE S == {k \in Nat : k =< n => <<k, f[k]>> \in G}
<1>2. 0 \in S
  BY <1>1 DEF Rounds
<1>3. ASSUME NEW k \in S PROVE k + 1 \in S
  <2> SUFFICES ASSUME k + 1 =< n PROVE <<k + 1, f[k + 1]>> \in G
    OBVIOUS
  <2>1. k \in Nat /\ k =< n /\ k + 1 \in 1 .. n /\ (k + 1) - 1 = k
    OBVIOUS
  <2>2. <<k, f[k]>> \in G /\ f[k + 1] = Step(x, f[k], k + 1)
    BY <1>1, <2>1 DEF Rounds
  <2> QED
    BY <2>1, <2>2
<1>4. n \in S
  <2> HIDE DEF S
  <2>1. S \in SUBSET Nat
    BY DEF S
  <2> QED
    BY <1>2, <1>3, <2>1, AllNumbers
<1> QED
  BY <1>1, <1>4
=================================================================================

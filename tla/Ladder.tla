------------------------------- MODULE Ladder -------------------------------
(***************************************************************************)
(* What the ranking promises: a table of places, the first of which is     *)
(* zero.  A player who is put at a place leaves the place held before, and *)
(* those between the two move down by one.  A newcomer pushes everybody    *)
(* from the place on, the last one off the table, unless it is free.       *)
(***************************************************************************)
EXTENDS Naturals

CONSTANTS Key, NoKey, PaiMingCount

VARIABLE ladder   \* the player at each place, or NoKey

Rank == 0 .. PaiMingCount - 1

Init == ladder = [i \in Rank |-> NoKey]

(* The place that becomes free for k, who is to be put at place r. *)
Vacates(k, r, s) ==
  \/ ladder[s] = k
  \/ /\ \A i \in Rank : ladder[i] # k
     /\ s = IF ladder[r] = NoKey THEN r ELSE PaiMingCount - 1

Put(k, r, s) ==
  /\ Vacates(k, r, s)
  /\ r <= s
  /\ ladder' = [i \in Rank |-> IF i = r THEN k
                               ELSE IF r < i /\ i <= s THEN ladder[i - 1]
                               ELSE ladder[i]]

Next == \E k \in Key, r, s \in Rank : Put(k, r, s)

Spec == Init /\ [][Next]_ladder

=============================================================================

-------------------------- MODULE MCHermesManager --------------------------
(* Model-checking instance of HermesManager.  Connections are model values *)
(* for the small runs; for the thirteen-client run they are 1..13 and,     *)
(* since every client behaves alike there, they connect and are accepted   *)
(* in index order (a hand-made symmetry reduction: TLC's SYMMETRY cannot   *)
(* enumerate 13! permutations).                                            *)
EXTENDS HermesManager, TLC

ConnSymmetry == Permutations(Conns)

ThirteenClients == 1..13

\* Client c connects, or is accepted, only after every client below it.
InIndexOrder ==
    \A c \in Conns :
        /\ (cstate[c] = "idle" /\ cstate'[c] # "idle")
              => \A d \in Conns : d < c => cstate[d] # "idle"
        /\ (cstate[c] = "backlog" /\ cstate'[c] # "backlog")
              => \A d \in Conns : d < c => cstate[d] # "backlog"
=============================================================================

---------------------------- MODULE FencedLease -----------------------------
(***************************************************************************)
(* What lease fencing promises (docs/architecture.md 2.9 and               *)
(* docs/design-decisions.md section 8), without workers, rows or a         *)
(* database: every job has at most one holder, a token is granted once, a  *)
(* token that lost its job never gets it back, and only the holder's       *)
(* outcome is applied, once.                                               *)
(***************************************************************************)
CONSTANTS Jobs, Tokens, NoToken

VARIABLES
  holder,  (* the token that holds each job, or NoToken *)
  fate     (* what became of each token                 *)

leaseVars == <<holder, fate>>

Fates == {"fresh", "granted", "applied", "revoked"}

LeaseInit ==
  /\ holder = [j \in Jobs |-> NoToken]
  /\ fate = [t \in Tokens |-> "fresh"]

\* A claim.
Grant(j, t) ==
  /\ holder[j] = NoToken
  /\ fate[t] = "fresh"
  /\ holder' = [holder EXCEPT ![j] = t]
  /\ fate' = [fate EXCEPT ![t] = "granted"]

\* The jobs of S are taken away from whoever holds them.
Without(S) == [j \in Jobs |-> IF j \in S THEN NoToken ELSE holder[j]]

\* The reaper, a cancellation, a retry.
Revoke(S) ==
  /\ holder' = Without(S)
  /\ fate' = [t \in Tokens |-> IF \E j \in S : holder[j] = t THEN "revoked" ELSE fate[t]]

\* A finalization: the outcome of t is applied to j, and with it other jobs
\* (the children of j) may be taken from their holders.
Apply(j, t, S) ==
  /\ holder[j] = t
  /\ holder' = Without(S \cup {j})
  /\ fate' = [u \in Tokens |-> IF u = t THEN "applied"
                               ELSE IF \E i \in S : holder[i] = u THEN "revoked" ELSE fate[u]]

LeaseNext ==
  \/ \E j \in Jobs, t \in Tokens : Grant(j, t)
  \/ \E S \in SUBSET Jobs : Revoke(S)
  \/ \E j \in Jobs, t \in Tokens, S \in SUBSET Jobs : Apply(j, t, S)

LeaseSpec == LeaseInit /\ [][LeaseNext]_leaseVars
=============================================================================

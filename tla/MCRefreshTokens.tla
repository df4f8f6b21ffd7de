-------------------------- MODULE MCRefreshTokens --------------------------
(* Instances of RefreshTokens for TLC.                                     *)
EXTENDS RefreshTokens, TLC

\* Bound: when Tokens is used up, a request that needs a new one fails.
OutOfTokens(p) ==
  /\ pc[p] \in {"issue", "rotate"}
  /\ \A t \in Tokens : status[t] # "unused"
  /\ Abort(p)

\* The liveness run leaves users.is_active alone: it decides which answer a
\* refresh gets, not whether it gets one.
LiveSpec == /\ Init
            /\ [][Next /\ UNCHANGED active]_vars
            /\ Fairness /\ \A p \in Procs : WF_vars(OutOfTokens(p))

\* Nobody logs out: a token is only ever revoked by a refresh.
NoLogoutSpec == Init /\ [][Next /\ \A p \in Procs : pc'[p] # "logout"]_vars

Symmetry == Permutations(Tokens) \cup Permutations(Procs)
=============================================================================

--------------------------- MODULE MCUserAccounts ---------------------------
(***************************************************************************)
(* The accounts and the sign-in for the model checker.  UserAccounts holds *)
(* who may do what to an account row; LoginSession takes from it only      *)
(* whether an account is active, which an admin may change at any time.    *)
(* A behaviour works on one of them, focus says on which; the other keeps  *)
(* a first state.                                                          *)
(***************************************************************************)
EXTENDS UserAccounts, LoginSession, TLC

VARIABLE focus

MCInit ==
    /\ Init /\ LoginInit
    /\ \/ focus = "accounts" /\ \A u \in Accounts : bound[u] = NoOne
       \/ focus = "login" /\ household

MCNext ==
    \/ focus = "accounts" /\ Next /\ UNCHANGED <<loginVars, focus>>
    \/ focus = "login" /\ LoginNext /\ UNCHANGED <<vars, focus>>

MCSpec == MCInit /\ [][MCNext]_<<vars, loginVars, focus>>

\* Every variable of both has its type.
TypesOK == TypeOK /\ LoginTypeOK

\* Safety runs only.
AccountSymmetry == Permutations(Users) \cup Permutations(Calls)

LoginSymmetry == Permutations(Accounts) \cup Permutations(Requests)

MCSymmetry == AccountSymmetry \cup LoginSymmetry

=============================================================================

------------------------------- MODULE MCAuth -------------------------------
(* Model checking of what admits a request: the verification of its token and *)
(* the account binding of its host id.  The two share no state, so            *)
(* interleaving them would show nothing new: a behaviour is one of either.    *)
EXTENDS Accounts, KeyCache

VARIABLE gate   \* the check this behaviour is about

authVars == <<gate, accountVars, vars>>

AuthInit == gate \in {"token", "account"} /\ Init /\ AccountsInit

TokenStep(A)   == gate = "token" /\ A /\ UNCHANGED <<gate, accountVars>>
AccountStep(A) == gate = "account" /\ A /\ UNCHANGED <<gate, vars>>

\* The fairness is KeyCache's.
AuthSpec ==
  /\ AuthInit /\ [][TokenStep(Next) \/ AccountStep(AccountsNext)]_authVars
  /\ \A r \in Request : WF_authVars(TokenStep(Step(r)))
=============================================================================

----------------------------- MODULE MCAccounts -----------------------------
(***************************************************************************)
(* Small instances of the parts of kiro-go that look after its upstream    *)
(* accounts, for one run of TLC.  A behaviour is one of one part, the      *)
(* others keep their first state: the states of the parts add up, they do  *)
(* not multiply.  Sign-ins and imports are apart from each other for the   *)
(* same reason: all they share is that both add accounts.                  *)
(***************************************************************************)
EXTENDS AccountPool, PoolScan, BackendPool, TokenRefresh, SignIn

VARIABLE part

Parts == {"pool", "scan", "backends", "token", "sign in", "import"}

accountsVars == <<part, vars, scanVars, backendVars, tokenVars, signInVars>>

AccountsInit ==
  /\ part \in Parts
  /\ Init
  /\ ScanInit
  /\ BackendInit /\ (part # "backends" => family = "grok")
  /\ TokenInit   /\ (part # "token" => ~provider.rotates)
  /\ SignInInit

AccountsNext ==
  /\ UNCHANGED part
  /\ \/ /\ part = "pool"     /\ Next
        /\ UNCHANGED <<scanVars, backendVars, tokenVars, signInVars>>
     \/ /\ part = "scan"     /\ ScanNext
        /\ UNCHANGED <<vars, backendVars, tokenVars, signInVars>>
     \/ /\ part = "backends" /\ BackendNext
        /\ UNCHANGED <<vars, scanVars, tokenVars, signInVars>>
     \/ /\ part = "token"    /\ TokenNext
        /\ UNCHANGED <<vars, scanVars, backendVars, signInVars>>
     \/ /\ part = "sign in"  /\ LoginStep
        /\ UNCHANGED <<vars, scanVars, backendVars, tokenVars>>
     \/ /\ part = "import"   /\ ImportStep
        /\ UNCHANGED <<vars, scanVars, backendVars, tokenVars>>

AccountsSpec == AccountsInit /\ [][AccountsNext]_accountsVars

\* Each part's type invariant, while it moves.
AccountsTypeOK ==
  CASE part = "pool"                  -> TypeOK
    [] part = "scan"                  -> ScanTypeOK
    [] part = "backends"              -> BackendTypeOK
    [] part = "token"                 -> TokenTypeOK
    [] part \in {"sign in", "import"} -> SignInTypeOK

MCAccount == 1..2

\* The first account has twice the weight of the second.
MCOwner == [i \in 0..2 |-> IF i < 2 THEN 1 ELSE 2]
=============================================================================

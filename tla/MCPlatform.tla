----------------------------- MODULE MCPlatform -----------------------------
(***************************************************************************)
(* The components of the application that share no row with each other or  *)
(* with the queues: a behaviour runs one of them, and the others keep      *)
(* their initial state.                                                    *)
(***************************************************************************)
EXTENDS Accounts, LoginLimit, Governance, AnalyticsSnapshots, LinkedAccounts, Catalogue, TLC

VARIABLE part \* the component that runs

vars == <<part, acctVars, loginVars, governanceVars, snapshotVars, linkedVars,
          catalogueVars>>

MCScopes == {{"invite", "revoke", "accept", "signup"}, {"signup", "forgot", "reset"}}
MCDuties == {{"runs"}, {"tools"}, {"decision"}}
MCAreas == {{"pricing"}, {"stock"}, {"cover"}}
MCSymmetry == Permutations(Calls) \cup Permutations(Emails)

(* The choices of a component that rests are one of them.                   *)
Init ==
  /\ part \in {"accounts", "login", "governance", "snapshots", "linked", "catalogue"}
  /\ AcctInit /\ (part # "accounts" => scope = CHOOSE x \in Scopes : TRUE)
  /\ LoginInit
  /\ GovernanceInit /\ (part # "governance" => duty = CHOOSE x \in Duties : TRUE)
  /\ SnapshotInit
  /\ LinkedInit /\ (part # "linked" => channel = CHOOSE x \in Channels : TRUE)
  /\ CatalogueInit
  /\ part # "catalogue" =>
       /\ area = CHOOSE x \in Areas : TRUE
       /\ product.price = CHOOSE x \in Amounts : TRUE

Next ==
  /\ \/ /\ part = "accounts" /\ AcctNext
        /\ UNCHANGED <<loginVars, governanceVars, snapshotVars, linkedVars, catalogueVars>>
     \/ /\ part = "login" /\ LoginNext
        /\ UNCHANGED <<acctVars, governanceVars, snapshotVars, linkedVars, catalogueVars>>
     \/ /\ part = "governance" /\ GovernanceNext
        /\ UNCHANGED <<acctVars, loginVars, snapshotVars, linkedVars, catalogueVars>>
     \/ /\ part = "snapshots" /\ SnapshotNext
        /\ UNCHANGED <<acctVars, loginVars, governanceVars, linkedVars, catalogueVars>>
     \/ /\ part = "linked" /\ LinkedNext
        /\ UNCHANGED <<acctVars, loginVars, governanceVars, snapshotVars, catalogueVars>>
     \/ /\ part = "catalogue" /\ CatalogueNext
        /\ UNCHANGED <<acctVars, loginVars, governanceVars, snapshotVars, linkedVars>>
  /\ UNCHANGED part

Spec == Init /\ [][Next]_vars
=============================================================================

----------------------------- MODULE MCRelease -----------------------------
(***************************************************************************)
(* Of three services two share a key and two the database, which those two *)
(* migrate, and whose line in .env may be blank, as .env.example has it.   *)
(* The second migration opts out of the transaction.                       *)
(***************************************************************************)
EXTENDS Release, TLC

MCValues == "DATABASE_URL" :> {"url", Empty} @@ "SYSDESIGN_API_KEY" :> {"key"} @@ "LANGSMITH_API_KEY" :> {"key"}

\* While a sync is under way no deploy is further than its look at the variables, the one
\* step of it that the sync can disturb.
BesideSync == sync = Idle \/ \A svc \in Migrators : deploy[svc].step \in {"idle", "reading"}

=============================================================================

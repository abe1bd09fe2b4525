------------------------------ MODULE MCRepository ------------------------------
(***************************************************************************)
(* Two parts of the repository that have no state in common, migrations of *)
(* its schema and lists of its documents: each moves while the other       *)
(* rests, which shows all that its properties can tell apart.              *)
(*                                                                         *)
(* Lists are of two users, two documents and one login nobody has.  A      *)
(* second has two ticks.  The first id is spelled in two ways, and two     *)
(* times fall within the first second.  The names are texts that mean      *)
(* something elsewhere.                                                    *)
(***************************************************************************)
EXTENDS Migrations, DocumentList, TLC

MCIdOf == [v \in Value |-> CASE v \in {"i1", "I1"} -> 1 [] v = "i2" -> 2 [] OTHER -> NotOne]
MCTimeOf == [v \in Value |-> CASE v = "second1" -> 2 [] v = "tick3" -> 3 [] OTHER -> NotOne]
MCRank == [n \in Name |-> IF n = "i1" THEN 0 ELSE 1]

CONSTANT FirstUser      \* users are interchangeable: the owner of the first document

NoListYet == DOMAIN documents = {} /\ kept = NoEntry /\ request = NoRequest /\ answer = None

(* An error is cached by nobody: what comes after it comes after a refusal. *)
ListStep == \/ answer.status = "notFound" /\ Refuse
            \/ answer.status # "notFound" /\ ListNext

RepositoryInit == /\ MigrationsInit /\ ListInit
                  /\ 1 \in DOMAIN documents => documents[1].owner = FirstUser

RepositoryNext == \/ NoListYet /\ MigrationsNext /\ UNCHANGED listVars
                  \/ MigrationsInit /\ ListStep /\ UNCHANGED migrationsVars

RepositorySpec == /\ RepositoryInit
                  /\ [][RepositoryNext]_<< migrationsVars, listVars >>
                  /\ Fairness
================================================================================

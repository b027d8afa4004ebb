---------------------------- MODULE MCMigrations ----------------------------
(* Small instances of Migrations for TLC. *)
EXTENDS Migrations, TLC

\* None or one of the files is refused; none is; 003_organization.sql is.
MCSome == {{}, {3}}
MCNone == {{}}
MCThird == {{3}}

Symmetry == Permutations(Servers)
=============================================================================

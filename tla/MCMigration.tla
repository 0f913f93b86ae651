---- MODULE MCMigration ----
(* A small instance of Migration for TLC. *)
EXTENDS Migration, TLC

CONSTANTS public, x, s, a

ThreeSchemas == {public, x, s}
OneName == {a}
AnyStep == {"backup", "batch", "save"}
OldSchemas == Permutations({x, s})
====

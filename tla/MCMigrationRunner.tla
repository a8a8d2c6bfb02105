------------------------- MODULE MCMigrationRunner -------------------------
(* Two binaries: one with all three migrations, an older one without the   *)
(* third.  Migrations 1 and 2 belong to version 1, migration 3 to 2.       *)
EXTENDS MigrationRunner, TLC

CONSTANTS old, new

MCRunners == {old, new}
MCVersion == <<1, 1, 2>>
MCCompiled == old :> {1, 2} @@ new :> {1, 2, 3}
\* the older binary has no checksum for migration 1 yet
MCChecksum == old :> <<0, 1, 0>> @@ new :> <<1, 1, 0>>
MCIrreversible == {1}

Latest == [kind |-> "latest", n |-> 0]
InVersion(v) == [kind |-> "version", n |-> v]
WithID(m) == [kind |-> "id", n |-> m]
Run(from, to) == [kind |-> "run", from |-> from, to |-> to]
Revert(to) == [kind |-> "revert", from |-> NoTarget, to |-> to]
RevertOne == [kind |-> "revertOne", from |-> NoTarget, to |-> NoTarget]

MCCommands == {Run(NoTarget, Latest), Run(NoTarget, InVersion(1)),
               Run(WithID(2), Latest), Revert(InVersion(1)), Revert(WithID(2)),
               RevertOne}
============================================================================

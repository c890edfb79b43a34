-------------------------- MODULE MCSettingsMigration --------------------------
(* SettingsMigration for five installs: two printers with records; a damaged  *)
(* blob; a record that is no dictionary; settings from before there were      *)
(* records, with or without what Moonraker Connection has.                    *)
EXTENDS SettingsMigration

CONSTANTS m1, m2

Nothing == [Cleaned EXCEPT !.bed = TRUE]

Small == {[cfg |-> [Nothing EXCEPT !.blob = {m1, m2}, !.flatDone = TRUE], imports |-> {}],
          [cfg |-> [Nothing EXCEPT !.corrupt = TRUE, !.flatDone = TRUE], imports |-> {}],
          [cfg |-> [Nothing EXCEPT !.blob = {m1}, !.odd = {m1}, !.flatDone = TRUE], imports |-> {}],
          [cfg |-> [Nothing EXCEPT !.flat = TRUE], imports |-> {}],
          [cfg |-> [Nothing EXCEPT !.blob = {m1}, !.flat = TRUE, !.importDone = TRUE],
           imports |-> {m2}]}
================================================================================

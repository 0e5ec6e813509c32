------------------------------ MODULE Database -----------------------------
(***************************************************************************)
(* The database file as setup, maintenance mode and backups see it, and    *)
(* the statements they run on it (src/src/server/store/sqlite.go).         *)
(*                                                                         *)
(* Backup and restore copy the file from outside, as an SQLite file can    *)
(* be.  A file that mixes two states, or was cut off, is Torn: every       *)
(* statement on it fails.                                                  *)
(***************************************************************************)
EXTENDS Naturals, FiniteSets

CONSTANTS
  Ids,     \* ids of administrators; random, never used twice
  Names,   \* what the form names an administrator (user name and address)
  Torn,    \* the content of a file that is not a database
  MaxFailures  \* bound: how many statements, file operations and processes fail

VARIABLES
  db,        \* the content of the database file
  failures

\* The settings modelled are those that are "true" or not: the end of setup,
\* maintenance mode, and whether backups must be encrypted.
Flags == {"initialized", "maintenance_mode", "backup_compliance_enabled"}

\* server_admins, users and settings.  The first two have the same columns
\* here, id and name.
Content == [admins : SUBSET (Ids \X Names), users : SUBSET (Ids \X Names),
            on : SUBSET Flags]

ASSUME DatabaseAssumption == Torn \notin Content /\ MaxFailures \in Nat

\* Nothing in the program writes backup_compliance_enabled.
DatabaseInit ==
  /\ \E on \in SUBSET {"backup_compliance_enabled"} :
       db = [admins |-> {}, users |-> {}, on |-> on]
  /\ failures = 0

Readable == db # Torn

\* GetSetting, compared with "true"; an error reads as "not set".
IsOn(s) == Readable /\ s \in db.on

\* SetSetting of a flag: one INSERT ... ON CONFLICT.
WithFlag(s, value) ==
  [db EXCEPT !.on = IF value THEN @ \cup {s} ELSE @ \ {s}]

\* id and name are UNIQUE, each in its own table.
FreeIn(table, id, name) == \A row \in table : row[1] # id /\ row[2] # name

\* Something outside the program's control goes wrong.
Fail == failures < MaxFailures /\ failures' = failures + 1
============================================================================

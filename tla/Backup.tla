------------------------------- MODULE Backup -------------------------------
(***************************************************************************)
(* Backup, restore and maintenance mode from the command line,             *)
(* src/src/server/service/backup.go and src/src/cli_ops.go: each command   *)
(* is a process of its own beside the server, and nothing locks the        *)
(* database file against it.  The name of an archive is the second it was  *)
(* begun in and whether it is encrypted; names sort by the second.         *)
(*                                                                         *)
(* An archive also holds config/server.yml and the uploads.  They are left *)
(* out: restore puts the former below DataDir, where nobody reads it, and  *)
(* nothing in the source stores an upload.                                 *)
(***************************************************************************)
EXTENDS Database

CONSTANTS
  Commands,    \* commands that run at the same time
  NoArchive,   \* there is no file of this name
  Cut,         \* an archive whose writing was cut off
  MaxBackups,  \* setting backup_retention_days: how many archives are kept
  MaxTime,     \* bound: the last second
  MaxCommands  \* bound: how many commands are given

ASSUME BackupAssumption ==
  /\ IsFiniteSet(Commands)
  /\ Cardinality({Torn, NoArchive, Cut}) = 3
  /\ {NoArchive, Cut} \cap Content = {}
  /\ MaxBackups \in Nat \ {0} /\ MaxTime \in Nat /\ MaxCommands \in Nat

VARIABLES
  clock,      \* the second it is
  archives,   \* DataDir/backup: what each archive holds
  command,    \* what each command is doing
  given,      \* how many commands were given
  astride,    \* may the server still write what belongs to the file as it was
              \* before a restore?
  tearing,    \* ghost: did a restore stop half way, or meet another one or a
              \* statement, or was a backup restored that a statement overlapped?
  unrotated   \* ghost: backups whose rotation did not finish

backupVars == <<clock, archives, command, given, astride, tearing, unrotated>>

ArchiveNames == (0 .. MaxTime) \X BOOLEAN

NoCommand == [pc |-> "idle", name |-> <<0, FALSE>>, held |-> Torn, doomed |-> {}]

\* ListBackups: os.ReadDir returns the names sorted, ".tar.gz" before ".tar.gz.enc".
Sorts(m, n) == m[1] < n[1] \/ (m[1] = n[1] /\ ~m[2] /\ n[2])

Stored == {n \in ArchiveNames : archives[n] # NoArchive}

BackupInit ==
  /\ clock = 0
  /\ archives = [n \in ArchiveNames |-> NoArchive]
  /\ command = [c \in Commands |-> NoCommand]
  /\ given = 0
  /\ astride = FALSE
  /\ tearing = FALSE
  /\ unrotated = 0

Finished(c) == command' = [command EXCEPT ![c] = NoCommand]

Proceed(c, pc) == command' = [command EXCEPT ![c].pc = pc]

Begin(c) == command[c].pc = "idle" /\ given < MaxCommands /\ given' = given + 1

\* A second passes.
Tick ==
  /\ clock < MaxTime
  /\ clock' = clock + 1
  /\ UNCHANGED <<db, failures, archives, command, given, astride, tearing, unrotated>>

----------------------------------------------------------------------------
(***************************************************************************)
(* --maintenance backup                                                    *)
(***************************************************************************)

\* checkComplianceMode refuses a backup without a password.
Refused(encrypted) == IsOn("backup_compliance_enabled") /\ ~encrypted

\* CreateBackup, or CreateBackupEncrypted with the password that was given.
BeginBackup(c, encrypted) ==
  /\ Begin(c)
  /\ command' = IF Refused(encrypted) THEN command
                ELSE [command EXCEPT ![c] = [NoCommand EXCEPT !.pc = "copy",
                                                              !.name = <<clock, encrypted>>]]
  /\ UNCHANGED <<db, failures, clock, archives, astride, tearing, unrotated>>

\* The first byte of the database file is read.
BeginCopy(c) ==
  /\ command[c].pc = "copy"
  /\ command' = [command EXCEPT ![c].pc = "copying", ![c].held = db]
  /\ UNCHANGED <<db, failures, clock, archives, given, astride, tearing, unrotated>>

\* The last byte is read.  A file that changed meanwhile, in these tables or in
\* others, is copied in part from each state; one whose size changed does not fit
\* its tar header any more.
EndCopy(c) ==
  /\ command[c].pc = "copying"
  /\ \/ command[c].held = db /\ Proceed(c, "write")
     \/ command' = [command EXCEPT ![c].pc = "write", ![c].held = Torn]
     \/ Finished(c)
  /\ UNCHANGED <<db, failures, clock, archives, given, astride, tearing, unrotated>>

\* os.WriteFile truncates the file of this name, then fills it.
BeginWrite(c) ==
  /\ command[c].pc = "write"
  /\ archives' = [archives EXCEPT ![command[c].name] = Cut]
  /\ Proceed(c, "writing")
  /\ UNCHANGED <<db, failures, clock, given, astride, tearing, unrotated>>

\* Two backups of one second and kind write to one file: the last one to end
\* leaves its archive or a mixture.
EndWrite(c) ==
  LET n == command[c].name
      alone == /\ archives[n] = Cut
               /\ \A d \in Commands \ {c} : command[d].pc = "writing" => command[d].name # n IN
  /\ command[c].pc = "writing"
  /\ \E a \in {command[c].held} \cup (IF alone THEN {} ELSE {Cut}) :
       archives' = [archives EXCEPT ![n] = a]
  /\ command' = [command EXCEPT ![c] = [NoCommand EXCEPT !.pc = "rotate"]]
  /\ UNCHANGED <<db, failures, clock, given, astride, tearing, unrotated>>

\* No space, no permission: the command ends with an error.
BackupFails(c) ==
  /\ command[c].pc \in {"copy", "copying", "write", "writing"}
  /\ Fail
  /\ Finished(c)
  /\ unrotated' = IF command[c].pc = "writing" THEN unrotated + 1 ELSE unrotated
  /\ UNCHANGED <<db, clock, archives, given, astride, tearing>>

\* The setting, or 30 when it cannot be read.
maxBackups == IF Readable THEN MaxBackups ELSE 30

\* Mutant: one archive too many is kept.
BeyondOffByOne(n) == Cardinality({m \in Stored : Sorts(m, n)}) > maxBackups

\* backups[i] for i >= maxBackups; the list is taken to be sorted "newest
\* first", and it is sorted by name, oldest first.
Beyond(n) == Cardinality({m \in Stored : Sorts(m, n)}) >= maxBackups

\* When nothing is left to remove, the command is over.
GoOnRemoving(c, doomed) ==
  IF doomed = {} THEN Finished(c)
  ELSE command' = [command EXCEPT ![c].pc = "remove", ![c].doomed = doomed]

ListForRotation(c) ==
  /\ command[c].pc = "rotate"
  /\ GoOnRemoving(c, {n \in Stored : Beyond(n)})
  /\ unrotated' = IF Readable THEN unrotated ELSE unrotated + 1
  /\ UNCHANGED <<db, failures, clock, archives, given, astride, tearing>>

RemoveArchive(c, n) ==
  /\ command[c].pc = "remove"
  /\ n \in command[c].doomed
  /\ archives' = [archives EXCEPT ![n] = NoArchive]
  /\ GoOnRemoving(c, command[c].doomed \ {n})
  /\ UNCHANGED <<db, failures, clock, given, astride, tearing, unrotated>>

\* "Failed to delete old backup" is only logged.
RemoveFails(c, n) ==
  /\ command[c].pc = "remove"
  /\ n \in command[c].doomed
  /\ Fail
  /\ GoOnRemoving(c, command[c].doomed \ {n})
  /\ unrotated' = unrotated + 1
  /\ UNCHANGED <<db, clock, archives, given, astride, tearing>>

----------------------------------------------------------------------------
(***************************************************************************)
(* --maintenance restore                                                   *)
(***************************************************************************)

\* Mutant: gzip layer, manifest and checksum are not looked at.
VerifiesAnything(a) == a # NoArchive

\* hashTarContents against the manifest, before the first file is extracted.  A
\* torn database in a whole archive has the checksum it should have.
Verifies(a) == a \notin {NoArchive, Cut}

\* decryptBackup: the key of any other password, or of none, opens nothing.
Opens(n, rightPassword) == n[2] => rightPassword

\* The archive is read, decrypted and verified in memory, or the command ends
\* here.
BeginRestore(c, n, rightPassword) ==
  /\ Begin(c)
  /\ command' = IF Verifies(archives[n]) /\ Opens(n, rightPassword)
                THEN [command EXCEPT ![c] = [NoCommand EXCEPT !.pc = "extract", !.name = n,
                                                              !.held = archives[n]]]
                ELSE command
  /\ UNCHANGED <<db, failures, clock, archives, astride, tearing, unrotated>>

Extracting == {c \in Commands : command[c].pc = "extracting"}

\* os.Create truncates the database file under the server that uses it, without
\* its locks, and leaves a -journal beside it.
BeginExtract(c) ==
  /\ command[c].pc = "extract"
  /\ db' = Torn
  /\ astride' = TRUE
  /\ Proceed(c, "extracting")
  /\ UNCHANGED <<failures, clock, archives, given, tearing, unrotated>>

\* A statement of the server that began before a restore ends: its pages go into
\* the new file, or they are rolled back there from the journal, by the server or,
\* after a crash, by the one that starts next.
StatementLands ==
  /\ astride /\ Readable
  /\ db' = Torn
  /\ astride' = FALSE
  /\ tearing' = TRUE
  /\ UNCHANGED <<failures, clock, archives, command, given, unrotated>>

\* Of two restores that overlap, the last to end leaves its database or a mixture.
EndExtract(c) ==
  /\ command[c].pc = "extracting"
  /\ \E content \in {command[c].held} \cup (IF db = Torn /\ Extracting = {c} THEN {} ELSE {Torn}) :
       db' = IF content \in Content THEN content ELSE Torn
  /\ tearing' = (tearing \/ command[c].held = Torn \/ Extracting # {c} \/ Readable)
  /\ Finished(c)
  /\ UNCHANGED <<failures, clock, archives, given, astride, unrotated>>

ExtractFails(c) ==
  /\ command[c].pc \in {"extract", "extracting"}
  /\ Fail
  /\ tearing' = (tearing \/ c \in Extracting)
  /\ Finished(c)
  /\ UNCHANGED <<db, clock, archives, given, astride, unrotated>>

----------------------------------------------------------------------------
\* --maintenance mode enable and disable.
SetMode(c, value) ==
  /\ Begin(c)
  /\ db' = IF Readable THEN WithFlag("maintenance_mode", value) ELSE db
  /\ UNCHANGED <<failures, clock, archives, command, astride, tearing, unrotated>>

CommandStep(c) ==
  \/ \E b \in BOOLEAN : BeginBackup(c, b) \/ SetMode(c, b)
  \/ BeginCopy(c) \/ EndCopy(c) \/ BeginWrite(c) \/ EndWrite(c) \/ BackupFails(c)
  \/ ListForRotation(c)
  \/ \E n \in ArchiveNames : RemoveArchive(c, n) \/ RemoveFails(c, n)
  \/ \E n \in ArchiveNames, right \in BOOLEAN : BeginRestore(c, n, right)
  \/ BeginExtract(c) \/ EndExtract(c) \/ ExtractFails(c)
============================================================================

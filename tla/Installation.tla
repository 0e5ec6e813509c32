----------------------------- MODULE Installation ---------------------------
(***************************************************************************)
(* The data of an installation: the form that ends setup runs in the       *)
(* server while the operator backs up and restores the database file and   *)
(* updates the program.  The machine may go down in between.               *)
(***************************************************************************)
EXTENDS Setup, Update

VARIABLE overtaken  \* ghost: was the database replaced while a form was half done?

vars == <<db, failures, setupVars, backupVars, updateVars, overtaken>>

HalfDone == {f \in Forms : form[f].pc \in {"user", "mark"}}

Init ==
  /\ DatabaseInit /\ SetupInit /\ BackupInit /\ UpdateInit
  /\ overtaken = FALSE

SubmitForm(f) == FormStep(f) /\ UNCHANGED <<backupVars, updateVars, overtaken>>

RunCommand(c) ==
  /\ (CommandStep(c) /\ UNCHANGED updateVars) \/ UpdateStep(c)
  /\ overtaken' = (overtaken \/ (HalfDone # {} /\ command[c].pc \in {"extract", "extracting"}))
  /\ UNCHANGED setupVars

\* Of any request.  If it is one of a form, the step of the form came before the
\* restore.
LateStatement ==
  /\ StatementLands
  /\ overtaken' = (overtaken \/ HalfDone # {})
  /\ UNCHANGED <<setupVars, updateVars>>

\* Every process is killed between two steps (what it wrote has reached the disk),
\* and the server starts again.
Crash ==
  /\ Fail
  /\ form' = [f \in Forms |-> NoForm]
  /\ command' = [c \in Commands |-> NoCommand]
  /\ tearing' = (tearing \/ Extracting # {})
  /\ unrotated' = unrotated + Cardinality({c \in Commands :
                                  command[c].pc \in {"writing", "rotate", "remove"}})
  /\ UNCHANGED <<db, freshIds, clock, archives, given, astride, updateVars, overtaken>>

Next ==
  \/ \E f \in Forms : SubmitForm(f)
  \/ \E c \in Commands : RunCommand(c)
  \/ Tick /\ UNCHANGED <<setupVars, updateVars, overtaken>>
  \/ LateStatement
  \/ Crash

Spec == Init /\ [][Next]_vars

----------------------------------------------------------------------------
\* An initialized site has an administrator who can log in, in both tables that
\* HandleSetupComplete writes, whatever failed on the way and whichever backup
\* was restored since; only a restore in the middle of a form breaks it.
InitializedHasAdmin ==
  (IsOn("initialized") /\ ~overtaken) => db.admins \cap db.users # {}

\* Verification keeps a damaged archive away from the database: its file is
\* unusable only while a restore runs, after one that was interrupted or met
\* another or a statement of the server, and after the restore of a backup that
\* a statement overlapped.
WholeUnlessInterrupted == Readable \/ Extracting # {} \/ tearing

\* Rotation keeps the number of archives at its limit, but for the backups that
\* are under way and those whose rotation failed or never ran.
ArchivesBounded ==
  Cardinality(Stored) <= MaxBackups + unrotated
    + Cardinality({c \in Commands : command[c].pc \in {"writing", "rotate", "remove"}})
============================================================================

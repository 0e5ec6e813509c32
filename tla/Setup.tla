-------------------------------- MODULE Setup -------------------------------
(***************************************************************************)
(* The form that ends the setup wizard by making the first administrator   *)
(* (HandleSetupComplete in src/src/server/handler/setup.go).  Nothing asks *)
(* whether setup is complete already, so two forms, or a second try after  *)
(* a failure, run the same statements again.                               *)
(*                                                                         *)
(* The pages before it overwrite settings of the site that nothing here    *)
(* reads.                                                                  *)
(***************************************************************************)
EXTENDS Database

CONSTANTS
  Forms,     \* forms that can be handled at the same time
  NoId, NoName

ASSUME SetupAssumption == NoId \notin Ids /\ NoName \notin Names

VARIABLES
  form,     \* what each form is doing
  freshIds  \* ghost: ids not generated yet

setupVars == <<form, freshIds>>

NoForm == [pc |-> "idle", id |-> NoId, name |-> NoName]

SetupInit ==
  /\ form = [f \in Forms |-> NoForm]
  /\ freshIds = Ids

Done(f) == form' = [form EXCEPT ![f] = NoForm]

Goto(f, pc) == form' = [form EXCEPT ![f].pc = pc]

\* The name and the password are long enough.
ReceiveComplete(f, id, name) ==
  /\ form[f].pc = "idle"
  /\ id \in freshIds
  /\ form' = [form EXCEPT ![f] = [pc |-> "admin", id |-> id, name |-> name]]
  /\ freshIds' = freshIds \ {id}
  /\ UNCHANGED <<db, failures>>

\* A name or a password that is too short: nothing happens.
RefuseForm(f) == form[f].pc = "idle" /\ UNCHANGED <<db, failures, setupVars>>

Row(f) == <<form[f].id, form[f].name>>

CreateServerAdmin(f) ==
  /\ form[f].pc = "admin"
  /\ Readable /\ FreeIn(db.admins, form[f].id, form[f].name)
  /\ db' = [db EXCEPT !.admins = @ \cup {Row(f)}]
  /\ Goto(f, "user")
  /\ UNCHANGED <<freshIds, failures>>

CreateUser(f) ==
  /\ form[f].pc = "user"
  /\ Readable /\ FreeIn(db.users, form[f].id, form[f].name)
  /\ db' = [db EXCEPT !.users = @ \cup {Row(f)}]
  /\ Goto(f, "mark")
  /\ UNCHANGED <<freshIds, failures>>

\* Config.Save follows; what it does to server.yml is in Instances.
MarkInitialized(f) ==
  /\ form[f].pc = "mark"
  /\ Readable
  /\ db' = WithFlag("initialized", TRUE)
  /\ Done(f)
  /\ UNCHANGED <<freshIds, failures>>

\* The statement is refused: a name is taken, or the file is no database.
StatementRefused(f) ==
  \/ ~Readable
  \/ form[f].pc = "admin" /\ ~FreeIn(db.admins, form[f].id, form[f].name)
  \/ form[f].pc = "user" /\ ~FreeIn(db.users, form[f].id, form[f].name)

\* Mutant: the error of CreateUser is not looked at.
AfterRefusedUserIgnored(f) == IF form[f].pc = "user" THEN Goto(f, "mark") ELSE Done(f)

AfterRefused(f) == Done(f)

\* 500; what the earlier statements stored stays.
CompletionFails(f) ==
  /\ form[f].pc \in {"admin", "user", "mark"}
  /\ IF StatementRefused(f) THEN UNCHANGED failures ELSE Fail
  /\ AfterRefused(f)
  /\ UNCHANGED <<db, freshIds>>

FormStep(f) ==
  \/ \E id \in Ids, name \in Names : ReceiveComplete(f, id, name)
  \/ RefuseForm(f)
  \/ CreateServerAdmin(f) \/ CreateUser(f) \/ MarkInitialized(f) \/ CompletionFails(f)
============================================================================

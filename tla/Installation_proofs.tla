-------------------------- MODULE Installation_proofs -------------------------
(***************************************************************************)
(* An initialized site keeps an administrator through failures, crashes,   *)
(* backups and restores; the database file is whole unless a restore was   *)
(* disturbed; rotation bounds the archives; the program that is started    *)
(* is whole: for any number of forms, commands and failures.               *)
(***************************************************************************)
EXTENDS Installation, FiniteSetTheorems, FunctionTheorems, TLAPS

FormSteps == {"idle", "admin", "user", "mark"}

Form == [pc : FormSteps, id : Ids \cup {NoId}, name : Names \cup {NoName}]

CommandSteps == {"idle", "copy", "copying", "write", "writing", "rotate", "remove", "extract",
                 "extracting", "download", "chmod", "rename"}

\* What a command may hold: a copy of the database, an archive, or the name of
\* the open file of an update.
Holdable == Content \cup {Torn, "new", "self", "none"}

Command == [pc : CommandSteps, name : ArchiveNames, held : Holdable,
            doomed : SUBSET ArchiveNames]

\* The types of the state.
TypeOK ==
  /\ db \in Content \cup {Torn}
  /\ form \in [Forms -> Form]
  /\ archives \in [ArchiveNames -> Content \cup {Torn, NoArchive, Cut}]
  /\ command \in [Commands -> Command]
  /\ \A f \in Forms : form[f].pc # "idle" => form[f].id \in Ids /\ form[f].name \in Names
  /\ \A c \in Commands :
       command[c].pc \in {"copying", "write", "writing", "extract", "extracting"}
         => command[c].held \in Content \cup {Torn}
  /\ clock \in 0 .. MaxTime
  /\ unrotated \in Nat

----------------------------------------------------------------------------
\* What is initialized has an administrator in both tables.
Sound(content) == "initialized" \in content.on => content.admins \cap content.users # {}

\* So it is in the file, in every archive and in every copy under way; a form
\* that has come far enough finds its row in the file.
AdminInv ==
  ~overtaken =>
    /\ Readable => Sound(db)
    /\ \A n \in ArchiveNames : archives[n] \in Content => Sound(archives[n])
    /\ \A c \in Commands :
         command[c].pc \in {"copying", "write", "writing", "extract", "extracting"}
           /\ command[c].held # Torn => Sound(command[c].held)
    /\ \A f \in HalfDone : Readable /\ Row(f) \in db.admins
                                    /\ (form[f].pc = "mark" => Row(f) \in db.users)

----------------------------------------------------------------------------
\* The names some command is writing, the commands that have yet to list the
\* archives, and those that remove what they have listed.
Written == {command[c].name : c \in {d \in Commands : command[d].pc = "writing"}}
ToList == {c \in Commands : command[c].pc \in {"writing", "rotate"}}
Removing == {c \in Commands : command[c].pc = "remove"}

\* How many archives there may be when the commands of R have removed what they
\* have listed.
Room(R) == MaxBackups + unrotated + Cardinality(ToList) + Cardinality(Removing \ R)

Within(kept, R) == Cardinality(kept \cup Written) <= Room(R)

\* Of any commands that remove, one has listed last: it has left the limit and
\* what others were writing.
RotationInv ==
  /\ Within(Stored, {})
  /\ \A R \in SUBSET Removing :
       R # {} => \E c \in R : Within(Stored \ command[c].doomed, R)

----------------------------------------------------------------------------
File == [whole : BOOLEAN, executable : BOOLEAN, exists : BOOLEAN]

\* An update that met no other has its download to itself.
UpdateInv ==
  /\ program \in File /\ download \in File
  /\ ~meeting =>
       /\ program.whole /\ program.executable
       /\ \A c, d \in Updating : c = d
       /\ \A c \in Updating :
            /\ command[c].pc = "download" => Held(c) = "new"
            /\ download.exists
            /\ command[c].pc \in {"chmod", "rename"} => download.whole
            /\ command[c].pc = "rename" => download.executable

InstallationInv == TypeOK /\ AdminInv /\ WholeUnlessInterrupted /\ RotationInv /\ UpdateInv
----------------------------------------------------------------------------
(***************************************************************************)
(* Types, and what a step does to a command                                *)
(***************************************************************************)
LEMMA Constant ==
  /\ MaxTime \in Nat /\ MaxBackups \in Nat \ {0}
  /\ IsFiniteSet(Commands) /\ IsFiniteSet(ArchiveNames)
  /\ Torn \notin Content /\ NoArchive \notin Content /\ Cut \notin Content
  /\ Torn # NoArchive /\ Torn # Cut /\ NoArchive # Cut
<1>1. /\ MaxTime \in Nat /\ MaxBackups \in Nat \ {0} /\ IsFiniteSet(Commands)
      /\ NoArchive \notin Content /\ Cut \notin Content
      /\ Cardinality({Torn, NoArchive, Cut}) = 3
  BY ZenonT(30), BackupAssumption
<1>2. Torn \notin Content
  BY DatabaseAssumption
<1>3. IsFiniteSet(0 .. MaxTime) /\ IsFiniteSet(BOOLEAN)
  <2>1. BOOLEAN = {TRUE, FALSE}
    OBVIOUS
  <2>0. IsFiniteSet({TRUE})
    BY FS_Singleton
  <2>2. IsFiniteSet({TRUE} \cup {FALSE})
    BY <2>0, FS_AddElement
  <2>3. IsFiniteSet(0 .. MaxTime)
    BY <1>1, FS_Interval
  <2>4. BOOLEAN = {TRUE} \cup {FALSE}
    BY <2>1
  <2> QED
    BY <2>2, <2>3, <2>4
<1>4. IsFiniteSet(ArchiveNames)
  BY <1>3, FS_Product DEF ArchiveNames
<1>5. Torn # NoArchive /\ Torn # Cut /\ NoArchive # Cut
  <2>1. ASSUME NEW x, NEW y
        PROVE  IsFiniteSet({x, y}) /\ Cardinality({x, y}) <= 2
    <3>1. IsFiniteSet({x}) /\ Cardinality({x}) = 1
      BY FS_Singleton
    <3>2. {x, y} = {x} \cup {y}
      OBVIOUS
    <3>3. /\ IsFiniteSet({x} \cup {y})
          /\ Cardinality({x} \cup {y}) = IF y \in {x} THEN Cardinality({x}) ELSE Cardinality({x}) + 1
      BY <3>1, FS_AddElement
    <3> QED
      BY <3>1, <3>2, <3>3
  <2>2. ASSUME Torn = NoArchive PROVE FALSE
    <3>1. {Torn, NoArchive, Cut} = {Torn, Cut}
      BY <2>2
    <3>2. Cardinality({Torn, NoArchive, Cut}) <= 2
      BY <3>1, <2>1
    <3> QED
      BY <3>2, <1>1
  <2>3. ASSUME Torn = Cut PROVE FALSE
    <3>1. {Torn, NoArchive, Cut} = {Torn, NoArchive}
      BY <2>3
    <3>2. Cardinality({Torn, NoArchive, Cut}) <= 2
      BY <3>1, <2>1
    <3> QED
      BY <3>2, <1>1
  <2>4. ASSUME NoArchive = Cut PROVE FALSE
    <3>1. {Torn, NoArchive, Cut} = {Torn, Cut}
      BY <2>4
    <3>2. Cardinality({Torn, NoArchive, Cut}) <= 2
      BY <3>1, <2>1
    <3> QED
      BY <3>2, <1>1
  <2> QED
    BY <2>2, <2>3, <2>4
<1> QED
  BY <1>1, <1>2, <1>4, <1>5

LEMMA NoCommandIsCommand ==
  /\ NoCommand \in Command
  /\ NoCommand.pc = "idle" /\ NoCommand.doomed = {}
<1>1. <<0, FALSE>> \in ArchiveNames
  <2>1. MaxTime \in Nat
    BY Constant
  <2>2. 0 \in 0 .. MaxTime
    BY <2>1
  <2> QED
    BY <2>2 DEF ArchiveNames
<1> QED
  BY <1>1 DEF NoCommand, Command, CommandSteps, Holdable

\* What a command is after one of its steps.
LEMMA ProceedEffect ==
  ASSUME TypeOK, NEW c \in Commands, NEW pc \in CommandSteps, Proceed(c, pc)
  PROVE  /\ command' \in [Commands -> Command]
         /\ \A d \in Commands \ {c} : command'[d] = command[d]
         /\ command'[c].pc = pc /\ command'[c].name = command[c].name
         /\ command'[c].held = command[c].held /\ command'[c].doomed = command[c].doomed
<1>1. command \in [Commands -> Command]
  BY DEF TypeOK
<1>2. PICK k : k = [command[c] EXCEPT !.pc = pc]
  OBVIOUS
<1>3. /\ k \in Command /\ k.pc = pc /\ k.name = command[c].name
      /\ k.held = command[c].held /\ k.doomed = command[c].doomed
  <2>1. command[c] \in Command
    BY <1>1
  <2> QED
    BY <1>2, <2>1 DEF Command
<1>4. command' = [command EXCEPT ![c] = k]
  BY <1>1, <1>2 DEF Proceed
<1> QED
  BY <1>1, <1>3, <1>4

LEMMA FinishedEffect ==
  ASSUME TypeOK, NEW c \in Commands, Finished(c)
  PROVE  /\ command' \in [Commands -> Command]
         /\ \A d \in Commands \ {c} : command'[d] = command[d]
         /\ command'[c] = NoCommand /\ command'[c].pc = "idle"
  BY NoCommandIsCommand DEF TypeOK, Finished

\* The command gets a new state.
LEMMA CommandEffect ==
  ASSUME TypeOK, NEW c \in Commands, NEW k \in Command, command' = [command EXCEPT ![c] = k]
  PROVE  /\ command' \in [Commands -> Command] /\ command'[c] = k
         /\ \A d \in Commands \ {c} : command'[d] = command[d]
  BY DEF TypeOK

\* An update that ends or installs takes along the open files of the others.
LEMMA MovedEffect ==
  ASSUME TypeOK, NEW c \in Commands, NEW to \in {"self", "none"}, Moved(c, to),
         command[c].pc # "download"
  PROVE  /\ command' \in [Commands -> Command] /\ command'[c] = NoCommand
         /\ \A d \in Commands \ {c} :
              /\ command'[d].pc = command[d].pc /\ command'[d].name = command[d].name
              /\ command'[d].doomed = command[d].doomed
              /\ command[d].pc # "download" => command'[d] = command[d]
<1>0. command \in [Commands -> Command]
  BY DEF TypeOK
<1>1. command'[c] = NoCommand
  <2>1. command'[c] = CASE c = c -> NoCommand
                        [] c \in HeldBy("new") -> [command[c] EXCEPT !.held = to]
                        [] c \in HeldBy("self") /\ to = "self" -> [command[c] EXCEPT !.held = "none"]
                        [] OTHER -> command[c]
    BY DEF Moved
  <2>2. c \notin HeldBy("new") /\ c \notin HeldBy("self")
    BY DEF HeldBy
  <2> QED
    BY <2>1, <2>2
<1>2. ASSUME NEW d \in Commands \ {c}
      PROVE  /\ command'[d] \in Command
             /\ command'[d].pc = command[d].pc /\ command'[d].name = command[d].name
             /\ command'[d].doomed = command[d].doomed
             /\ command[d].pc # "download" => command'[d] = command[d]
  <2>1. command[d] \in Command
    BY <1>0
  <2>2. command'[d] = CASE d \in HeldBy("new") -> [command[d] EXCEPT !.held = to]
                        [] d \in HeldBy("self") /\ to = "self" -> [command[d] EXCEPT !.held = "none"]
                        [] OTHER -> command[d]
    BY <1>2 DEF Moved
  <2>3. HeldBy("new") \cap HeldBy("self") = {}
    BY DEF HeldBy
  <2>4. CASE d \in HeldBy("new")
    <3>1. command'[d] = [command[d] EXCEPT !.held = to] /\ command[d].pc = "download"
      BY <2>2, <2>3, <2>4 DEF HeldBy
    <3> QED
      BY <2>1, <3>1 DEF Command, Holdable
  <2>5. CASE d \in HeldBy("self") /\ to = "self"
    <3>1. command'[d] = [command[d] EXCEPT !.held = "none"] /\ command[d].pc = "download"
      BY <2>2, <2>3, <2>5 DEF HeldBy
    <3> QED
      BY <2>1, <3>1 DEF Command, Holdable
  <2>6. CASE d \notin HeldBy("new") /\ ~(d \in HeldBy("self") /\ to = "self")
    BY <2>1, <2>2, <2>6
  <2> QED
    BY <2>4, <2>5, <2>6
<1>3. command' \in [Commands -> Command]
  <2>1. command' = [d \in Commands |-> command'[d]]
    BY DEF Moved
  <2>2. \A d \in Commands : command'[d] \in Command
    BY <1>1, <1>2, NoCommandIsCommand
  <2> QED
    BY <2>1, <2>2
<1> QED
  BY <1>1, <1>2, <1>3
\* A statement or a restore leaves a database or a torn file.
LEMMA FlagIsContent ==
  ASSUME db \in Content, NEW s \in Flags, NEW value \in BOOLEAN
  PROVE  /\ WithFlag(s, value) \in Content
         /\ WithFlag(s, value).admins = db.admins /\ WithFlag(s, value).users = db.users
         /\ WithFlag(s, value).on = IF value THEN db.on \cup {s} ELSE db.on \ {s}
<1>1. PICK on : on = IF value THEN db.on \cup {s} ELSE db.on \ {s}
  OBVIOUS
<1>2. on \in SUBSET Flags
  BY <1>1 DEF Content
<1>3. WithFlag(s, value) = [db EXCEPT !.on = on]
  BY <1>1 DEF WithFlag
<1> QED
  BY <1>1, <1>2, <1>3 DEF Content

LEMMA CommandTypes ==
  ASSUME TypeOK, NEW c \in Commands, command' \in [Commands -> Command],
         command'[c].pc \in {"copying", "write", "writing", "extract", "extracting"}
           => command'[c].held \in Content \cup {Torn},
         \A d \in Commands \ {c} :
           command'[d].pc = command[d].pc /\ (command[d].pc # "download" => command'[d] = command[d]),
         UNCHANGED <<form, clock>>,
         db' \in Content \cup {Torn}, unrotated' \in Nat,
         archives' \in [ArchiveNames -> Content \cup {Torn, NoArchive, Cut}]
  PROVE  TypeOK'
<1>1. \A d \in Commands :
        command'[d].pc \in {"copying", "write", "writing", "extract", "extracting"}
          => command'[d].held \in Content \cup {Torn}
  <2>1. TAKE d \in Commands
  <2>2. CASE d = c
    BY <2>2
  <2>3. CASE d # c
    BY <2>3 DEF TypeOK
  <2> QED
    BY <2>2, <2>3
<1>2. /\ form' \in [Forms -> Form]
      /\ \A f \in Forms : form'[f].pc # "idle" => form'[f].id \in Ids /\ form'[f].name \in Names
      /\ clock' \in 0 .. MaxTime
  BY DEF TypeOK
<1> QED
  BY <1>1, <1>2 DEF TypeOK

----------------------------------------------------------------------------
\* Types are kept: the form.
LEMMA FormTypes ==
  ASSUME TypeOK, NEW f \in Forms, FormStep(f), UNCHANGED <<backupVars, updateVars, overtaken>>
  PROVE  TypeOK'
<1>0. /\ form \in [Forms -> Form] /\ db \in Content \cup {Torn}
      /\ \A g \in Forms : form[g].pc # "idle" => form[g].id \in Ids /\ form[g].name \in Names
  BY DEF TypeOK
<1>1. UNCHANGED <<archives, command, clock, unrotated>>
  BY DEF backupVars
<1>2. ASSUME NEW g, g \in Form, form' = [form EXCEPT ![f] = g],
             g.pc # "idle" => g.id \in Ids /\ g.name \in Names,
             db' \in Content \cup {Torn}
      PROVE  TypeOK'
  <2>1. form' \in [Forms -> Form]
    BY <1>0, <1>2
  <2>2. \A h \in Forms : form'[h].pc # "idle" => form'[h].id \in Ids /\ form'[h].name \in Names
    BY <1>0, <1>2
  <2> QED
    BY <1>1, <1>2, <2>1, <2>2 DEF TypeOK
<1>3. NoForm \in Form /\ NoForm.pc = "idle"
  BY DEF NoForm, Form, FormSteps
<1>4. ASSUME NEW pc \in FormSteps, form[f].pc # "idle", Goto(f, pc), db' \in Content \cup {Torn}
      PROVE  TypeOK'
  <2>1. PICK g : g = [form[f] EXCEPT !.pc = pc]
    OBVIOUS
  <2>2. form[f] \in Form /\ form[f].id \in Ids /\ form[f].name \in Names
    BY <1>0, <1>4
  <2>3. g \in Form /\ g.id \in Ids /\ g.name \in Names
    BY <2>1, <2>2 DEF Form
  <2>4. form' = [form EXCEPT ![f] = g]
    BY <1>0, <1>4, <2>1 DEF Goto
  <2> QED
    BY <1>2, <1>4, <2>3, <2>4
<1>5. ASSUME Done(f), db' \in Content \cup {Torn} PROVE TypeOK'
  BY <1>2, <1>3, <1>5 DEF Done
<1>6. CASE \E id \in Ids, name \in Names : ReceiveComplete(f, id, name)
  <2>1. PICK id \in Ids, name \in Names : ReceiveComplete(f, id, name)
    BY <1>6
  <2>2. PICK g : g = [pc |-> "admin", id |-> id, name |-> name]
    OBVIOUS
  <2>3. g \in Form /\ g.id \in Ids /\ g.name \in Names
    BY <2>2 DEF Form, FormSteps
  <2>4. form' = [form EXCEPT ![f] = g] /\ db' = db
    BY <2>1, <2>2 DEF ReceiveComplete
  <2> QED
    BY <1>0, <1>2, <2>3, <2>4
<1>7. CASE RefuseForm(f)
  <2>1. form' = form /\ db' = db
    BY <1>7 DEF RefuseForm, setupVars
  <2> QED
    BY <1>0, <1>1, <2>1 DEF TypeOK
<1>8. CASE CreateServerAdmin(f)
  <2>1. /\ form[f].pc = "admin" /\ Goto(f, "user") /\ db \in Content
        /\ db' = [db EXCEPT !.admins = @ \cup {Row(f)}]
    BY <1>0, <1>8 DEF CreateServerAdmin, Readable
  <2>2. Row(f) \in Ids \X Names
    BY <1>0, <2>1 DEF Row
  <2>3. db' \in Content
    BY <2>1, <2>2 DEF Content
  <2> QED
    BY <1>4, <2>1, <2>3 DEF FormSteps
<1>9. CASE CreateUser(f)
  <2>1. /\ form[f].pc = "user" /\ Goto(f, "mark") /\ db \in Content
        /\ db' = [db EXCEPT !.users = @ \cup {Row(f)}]
    BY <1>0, <1>9 DEF CreateUser, Readable
  <2>2. Row(f) \in Ids \X Names
    BY <1>0, <2>1 DEF Row
  <2>3. db' \in Content
    BY <2>1, <2>2 DEF Content
  <2> QED
    BY <1>4, <2>1, <2>3 DEF FormSteps
<1>10. CASE MarkInitialized(f)
  <2>1. Done(f) /\ db \in Content /\ db' = WithFlag("initialized", TRUE)
    BY <1>0, <1>10 DEF MarkInitialized, Readable
  <2>2. "initialized" \in Flags
    BY DEF Flags
  <2> QED
    BY <1>5, <2>1, <2>2, FlagIsContent
<1>11. CASE CompletionFails(f)
  BY <1>0, <1>5, <1>11 DEF CompletionFails, AfterRefused
<1> QED
  BY <1>6, <1>7, <1>8, <1>9, <1>10, <1>11 DEF FormStep
----------------------------------------------------------------------------
\* Types are kept: backup and restore.  What a step does to its command.
LEMMA BeginBackupEffect ==
  ASSUME TypeOK, NEW c \in Commands, NEW encrypted \in BOOLEAN, BeginBackup(c, encrypted)
  PROVE  /\ command' \in [Commands -> Command]
         /\ \A d \in Commands \ {c} : command'[d] = command[d]
         /\ command[c].pc = "idle"
         /\ command'[c] = command[c] \/ command'[c].pc = "copy"
<1>1. clock \in 0 .. MaxTime /\ command \in [Commands -> Command]
  BY DEF TypeOK
<1>2. <<clock, encrypted>> \in ArchiveNames
  BY <1>1 DEF ArchiveNames
<1>3. PICK k : k = [NoCommand EXCEPT !.pc = "copy", !.name = <<clock, encrypted>>]
  OBVIOUS
<1>4. k \in Command /\ k.pc = "copy"
  <2>1. "copy" \in CommandSteps
    BY DEF CommandSteps
  <2> QED
    BY <1>2, <1>3, <2>1, NoCommandIsCommand DEF Command
<1>5. command[c].pc = "idle" /\ (command' = command \/ command' = [command EXCEPT ![c] = k])
  BY <1>3 DEF BeginBackup, Begin
<1> QED
  BY <1>1, <1>4, <1>5

LEMMA BeginRestoreEffect ==
  ASSUME TypeOK, NEW c \in Commands, NEW n \in ArchiveNames, NEW right \in BOOLEAN,
         BeginRestore(c, n, right)
  PROVE  /\ command' \in [Commands -> Command]
         /\ \A d \in Commands \ {c} : command'[d] = command[d]
         /\ command[c].pc = "idle"
         /\ \/ command'[c] = command[c]
            \/ /\ command'[c].pc = "extract" /\ command'[c].held = archives[n]
               /\ command'[c].held \in Content \cup {Torn}
<1>1. command \in [Commands -> Command] /\ archives[n] \in Content \cup {Torn, NoArchive, Cut}
  BY DEF TypeOK
<1>2. PICK k : k = [NoCommand EXCEPT !.pc = "extract", !.name = n, !.held = archives[n]]
  OBVIOUS
<1>3. /\ command[c].pc = "idle"
      /\ \/ command' = command
         \/ archives[n] \notin {NoArchive, Cut} /\ command' = [command EXCEPT ![c] = k]
  BY <1>2 DEF BeginRestore, Begin, Verifies
<1>4. CASE archives[n] \in Content \cup {Torn}
  <2>1. "extract" \in CommandSteps
    BY DEF CommandSteps
  <2>2. archives[n] \in Holdable
    BY <1>4 DEF Holdable
  <2>3. k \in Command /\ k.pc = "extract" /\ k.held = archives[n]
    BY <1>2, <2>1, <2>2, NoCommandIsCommand DEF Command
  <2> QED
    BY <1>1, <1>3, <1>4, <2>3
<1>5. CASE archives[n] \notin Content \cup {Torn}
  BY <1>1, <1>3, <1>5
<1> QED
  BY <1>4, <1>5

LEMMA BeginCopyEffect ==
  ASSUME TypeOK, NEW c \in Commands, BeginCopy(c)
  PROVE  /\ command' \in [Commands -> Command]
         /\ \A d \in Commands \ {c} : command'[d] = command[d]
         /\ command[c].pc = "copy"
         /\ command'[c].pc = "copying" /\ command'[c].held = db
<1>1. command \in [Commands -> Command] /\ command[c] \in Command /\ db \in Content \cup {Torn}
  BY DEF TypeOK
<1>2. PICK k : k = [command[c] EXCEPT !.pc = "copying", !.held = db]
  OBVIOUS
<1>3. k \in Command /\ k.pc = "copying" /\ k.held = db
  BY <1>1, <1>2 DEF Command, CommandSteps, Holdable
<1>4. command' = [command EXCEPT ![c] = k]
  BY <1>1, <1>2 DEF BeginCopy
<1> QED
  BY <1>1, <1>3, <1>4 DEF BeginCopy

LEMMA EndCopyEffect ==
  ASSUME TypeOK, NEW c \in Commands, EndCopy(c)
  PROVE  /\ command' \in [Commands -> Command]
         /\ \A d \in Commands \ {c} : command'[d] = command[d]
         /\ command[c].pc = "copying"
         /\ \/ command'[c].pc = "write" /\ command'[c].held \in {command[c].held, Torn}
            \/ command'[c] = NoCommand /\ command'[c].pc = "idle"
<1>1. command \in [Commands -> Command] /\ command[c] \in Command
  BY DEF TypeOK
<1>2. command[c].pc = "copying"
  BY DEF EndCopy
<1>3. CASE Proceed(c, "write")
  <2>1. "write" \in CommandSteps
    BY DEF CommandSteps
  <2> QED
    BY <1>2, <1>3, <2>1, ProceedEffect
<1>4. CASE command' = [command EXCEPT ![c].pc = "write", ![c].held = Torn]
  <2>1. PICK k : k = [command[c] EXCEPT !.pc = "write", !.held = Torn]
    OBVIOUS
  <2>2. k \in Command /\ k.pc = "write" /\ k.held = Torn
    BY <1>1, <2>1 DEF Command, CommandSteps, Holdable
  <2>3. command' = [command EXCEPT ![c] = k]
    BY <1>1, <1>4, <2>1
  <2> QED
    BY <1>1, <1>2, <2>2, <2>3
<1>5. CASE Finished(c)
  BY <1>2, <1>5, FinishedEffect
<1> QED
  BY <1>3, <1>4, <1>5 DEF EndCopy

LEMMA BeginWriteEffect ==
  ASSUME TypeOK, NEW c \in Commands, BeginWrite(c)
  PROVE  /\ command' \in [Commands -> Command]
         /\ \A d \in Commands \ {c} : command'[d] = command[d]
         /\ command[c].pc = "write" /\ command'[c].pc = "writing"
         /\ command'[c].held = command[c].held /\ command'[c].name = command[c].name
         /\ command[c].name \in ArchiveNames
<1>1. "writing" \in CommandSteps /\ command[c] \in Command
  BY DEF CommandSteps, TypeOK
<1>2. command[c].pc = "write" /\ Proceed(c, "writing") /\ command[c].name \in ArchiveNames
  BY <1>1 DEF BeginWrite, Command
<1> QED
  BY <1>1, <1>2, ProceedEffect

LEMMA EndWriteEffect ==
  ASSUME TypeOK, NEW c \in Commands, EndWrite(c)
  PROVE  /\ command' \in [Commands -> Command]
         /\ \A d \in Commands \ {c} : command'[d] = command[d]
         /\ command[c].pc = "writing" /\ command'[c].pc = "rotate"
         /\ command[c].name \in ArchiveNames
<1>1. "rotate" \in CommandSteps /\ command[c] \in Command
  BY DEF CommandSteps, TypeOK
<1>2. PICK k : k = [NoCommand EXCEPT !.pc = "rotate"]
  OBVIOUS
<1>3. k \in Command /\ k.pc = "rotate"
  BY <1>1, <1>2, NoCommandIsCommand DEF Command
<1>4. /\ command[c].pc = "writing" /\ command[c].name \in ArchiveNames
      /\ command' = [command EXCEPT ![c] = k]
  BY <1>1, <1>2 DEF EndWrite, Command
<1> QED
  BY <1>3, <1>4, CommandEffect

\* Nothing is left to remove, or the command goes on.
LEMMA GoOnRemovingEffect ==
  ASSUME TypeOK, NEW c \in Commands, NEW doomed \in SUBSET ArchiveNames, GoOnRemoving(c, doomed)
  PROVE  /\ command' \in [Commands -> Command]
         /\ \A d \in Commands \ {c} : command'[d] = command[d]
         /\ IF doomed = {} THEN command'[c] = NoCommand /\ command'[c].pc = "idle"
            ELSE command'[c].pc = "remove" /\ command'[c].doomed = doomed
<1>1. command \in [Commands -> Command] /\ command[c] \in Command
  BY DEF TypeOK
<1>2. CASE doomed = {}
  <2>1. Finished(c)
    BY <1>2 DEF GoOnRemoving
  <2> QED
    BY <1>2, <2>1, FinishedEffect
<1>3. CASE doomed # {}
  <2>1. PICK k : k = [command[c] EXCEPT !.pc = "remove", !.doomed = doomed]
    OBVIOUS
  <2>2. k \in Command /\ k.pc = "remove" /\ k.doomed = doomed
    BY <1>1, <2>1 DEF Command, CommandSteps
  <2>3. command' = [command EXCEPT ![c] = k]
    BY <1>1, <1>3, <2>1 DEF GoOnRemoving
  <2> QED
    BY <1>1, <1>3, <2>2, <2>3
<1> QED
  BY <1>2, <1>3
\* Types are kept by a step of backup or restore.
LEMMA BackupTypes ==
  ASSUME TypeOK, NEW c \in Commands, CommandStep(c), UNCHANGED setupVars
  PROVE  TypeOK' /\ (\A d \in Commands \ {c} : command'[d] = command[d])
<1>0. /\ command \in [Commands -> Command] /\ form' = form
      /\ db \in Content \cup {Torn} /\ unrotated \in Nat
      /\ archives \in [ArchiveNames -> Content \cup {Torn, NoArchive, Cut}]
      /\ \A d \in Commands :
           command[d].pc \in {"copying", "write", "writing", "extract", "extracting"}
             => command[d].held \in Content \cup {Torn}
  BY DEF TypeOK, setupVars
<1>1. ASSUME /\ command' \in [Commands -> Command]
             /\ \A d \in Commands \ {c} : command'[d] = command[d]
             /\ command'[c].pc \in {"copying", "write", "writing", "extract", "extracting"}
                  => command'[c].held \in Content \cup {Torn}
             /\ clock' = clock
             /\ db' \in Content \cup {Torn} /\ unrotated' \in Nat
             /\ archives' \in [ArchiveNames -> Content \cup {Torn, NoArchive, Cut}]
      PROVE  TypeOK' /\ (\A d \in Commands \ {c} : command'[d] = command[d])
  BY <1>0, <1>1, CommandTypes
<1>2. CASE \E b \in BOOLEAN : BeginBackup(c, b)
  <2>1. PICK b \in BOOLEAN : BeginBackup(c, b)
    BY <1>2
  <2>2. UNCHANGED <<db, clock, archives, unrotated>>
    BY <2>1 DEF BeginBackup
  <2> QED
    BY <1>0, <1>1, <2>1, <2>2, BeginBackupEffect
<1>3. CASE \E b \in BOOLEAN : SetMode(c, b)
  <2>1. PICK b \in BOOLEAN : SetMode(c, b)
    BY <1>3
  <2>2. UNCHANGED <<clock, archives, command, unrotated>>
    BY <2>1 DEF SetMode
  <2>3. db' \in Content \cup {Torn}
    <3>1. "maintenance_mode" \in Flags
      BY DEF Flags
    <3>2. db \in Content => WithFlag("maintenance_mode", b) \in Content
      BY <3>1, FlagIsContent
    <3> QED
      BY <1>0, <2>1, <3>2 DEF SetMode, Readable
  <2> QED
    BY <1>0, <1>1, <2>2, <2>3
<1>4. CASE BeginCopy(c)
  <2>1. UNCHANGED <<db, clock, archives, unrotated>>
    BY <1>4 DEF BeginCopy
  <2> QED
    BY <1>0, <1>1, <1>4, <2>1, BeginCopyEffect
<1>5. CASE EndCopy(c)
  <2>1. UNCHANGED <<db, clock, archives, unrotated>>
    BY <1>5 DEF EndCopy
  <2> QED
    BY <1>0, <1>1, <1>5, <2>1, EndCopyEffect
<1>6. CASE BeginWrite(c)
  <2>1. /\ UNCHANGED <<db, clock, unrotated>>
        /\ archives' = [archives EXCEPT ![command[c].name] = Cut]
    BY <1>6 DEF BeginWrite
  <2>2. archives' \in [ArchiveNames -> Content \cup {Torn, NoArchive, Cut}]
    BY <1>0, <2>1
  <2>3. /\ command' \in [Commands -> Command]
        /\ \A d \in Commands \ {c} : command'[d] = command[d]
        /\ command'[c].held \in Content \cup {Torn}
    BY <1>0, <1>6, BeginWriteEffect
  <2> QED
    BY <1>0, <1>1, <2>1, <2>2, <2>3
<1>7. CASE EndWrite(c)
  <2>1. command[c].pc = "writing" /\ UNCHANGED <<db, clock, unrotated>>
    BY <1>7 DEF EndWrite
  <2>2. \E a \in {command[c].held, Cut} : archives' = [archives EXCEPT ![command[c].name] = a]
    BY <1>7 DEF EndWrite
  <2>3. archives' \in [ArchiveNames -> Content \cup {Torn, NoArchive, Cut}]
    BY <1>0, <2>1, <2>2
  <2>4. /\ command' \in [Commands -> Command] /\ command'[c].pc = "rotate"
        /\ \A d \in Commands \ {c} : command'[d] = command[d]
    BY <1>7, EndWriteEffect
  <2> QED
    BY <1>0, <1>1, <2>1, <2>3, <2>4
<1>8. CASE BackupFails(c)
  <2>1. Finished(c) /\ UNCHANGED <<db, clock, archives>> /\ unrotated' \in {unrotated, unrotated + 1}
    BY <1>8 DEF BackupFails
  <2> QED
    BY <1>0, <1>1, <2>1, FinishedEffect
<1>9. CASE ListForRotation(c)
  <2>1. /\ GoOnRemoving(c, {n \in Stored : Beyond(n)}) /\ UNCHANGED <<db, clock, archives>>
        /\ unrotated' \in {unrotated, unrotated + 1}
    BY <1>9 DEF ListForRotation
  <2>2. {n \in Stored : Beyond(n)} \in SUBSET ArchiveNames
    BY DEF Stored
  <2>3. /\ command' \in [Commands -> Command] /\ command'[c].pc \in {"idle", "remove"}
        /\ \A d \in Commands \ {c} : command'[d] = command[d]
    BY <2>1, <2>2, GoOnRemovingEffect
  <2> QED
    BY <1>0, <1>1, <2>1, <2>3
<1>10. CASE \E n \in ArchiveNames : RemoveArchive(c, n) \/ RemoveFails(c, n)
  <2>1. PICK n \in ArchiveNames : RemoveArchive(c, n) \/ RemoveFails(c, n)
    BY <1>10
  <2>2. GoOnRemoving(c, command[c].doomed \ {n}) /\ UNCHANGED <<db, clock>>
    BY <2>1 DEF RemoveArchive, RemoveFails
  <2>3. unrotated' \in {unrotated, unrotated + 1}
    BY <2>1 DEF RemoveArchive, RemoveFails
  <2>4. command[c].doomed \ {n} \in SUBSET ArchiveNames
    BY <1>0 DEF Command
  <2>5. archives' \in [ArchiveNames -> Content \cup {Torn, NoArchive, Cut}]
    <3>1. archives' = archives \/ archives' = [archives EXCEPT ![n] = NoArchive]
      BY <2>1 DEF RemoveArchive, RemoveFails
    <3> QED
      BY <1>0, <3>1
  <2>6. /\ command' \in [Commands -> Command] /\ command'[c].pc \in {"idle", "remove"}
        /\ \A d \in Commands \ {c} : command'[d] = command[d]
    BY <2>2, <2>4, GoOnRemovingEffect
  <2> QED
    BY <1>0, <1>1, <2>2, <2>3, <2>5, <2>6
<1>11. CASE \E n \in ArchiveNames, right \in BOOLEAN : BeginRestore(c, n, right)
  <2>1. PICK n \in ArchiveNames, right \in BOOLEAN : BeginRestore(c, n, right)
    BY <1>11
  <2>2. UNCHANGED <<db, clock, archives, unrotated>>
    BY <2>1 DEF BeginRestore
  <2> QED
    BY <1>0, <1>1, <2>1, <2>2, BeginRestoreEffect
<1>12. CASE BeginExtract(c)
  <2>1. /\ UNCHANGED <<clock, archives, unrotated>> /\ db' = Torn
        /\ Proceed(c, "extracting") /\ command[c].pc = "extract"
    BY <1>12 DEF BeginExtract
  <2>2. "extracting" \in CommandSteps
    BY DEF CommandSteps
  <2>3. /\ command' \in [Commands -> Command] /\ command'[c].held = command[c].held
        /\ \A d \in Commands \ {c} : command'[d] = command[d]
    BY <2>1, <2>2, ProceedEffect
  <2> QED
    BY <1>0, <1>1, <2>1, <2>3
<1>13. CASE EndExtract(c)
  <2>1. Finished(c) /\ UNCHANGED <<clock, archives, unrotated>> /\ db' \in Content \cup {Torn}
    BY <1>13 DEF EndExtract
  <2> QED
    BY <1>0, <1>1, <2>1, FinishedEffect
<1>14. CASE ExtractFails(c)
  <2>1. Finished(c) /\ UNCHANGED <<db, clock, archives, unrotated>>
    BY <1>14 DEF ExtractFails
  <2> QED
    BY <1>0, <1>1, <2>1, FinishedEffect
<1> QED
  BY <1>2, <1>3, <1>4, <1>5, <1>6, <1>7, <1>8, <1>9, <1>10, <1>11, <1>12, <1>13, <1>14
     DEF CommandStep
----------------------------------------------------------------------------
\* Types are kept: updates.  They touch no command that backs up or restores.
UpdateSteps == {"idle", "download", "chmod", "rename"}

LEMMA BeginUpdateEffect ==
  ASSUME TypeOK, NEW c \in Commands, BeginUpdate(c)
  PROVE  /\ command' \in [Commands -> Command]
         /\ \A d \in Commands \ {c} : command'[d] = command[d]
         /\ command[c].pc = "idle" /\ command'[c].pc = "download" /\ command'[c].held = "new"
<1>1. command \in [Commands -> Command]
  BY DEF TypeOK
<1>2. PICK k : k = [NoCommand EXCEPT !.pc = "download", !.held = "new"]
  OBVIOUS
<1>3. k \in Command /\ k.pc = "download" /\ k.held = "new"
  BY <1>2, NoCommandIsCommand DEF Command, CommandSteps, Holdable
<1>4. command[c].pc = "idle" /\ command' = [command EXCEPT ![c] = k]
  BY <1>2 DEF BeginUpdate, Begin
<1> QED
  BY <1>1, <1>3, <1>4

LEMMA UpdateTypes ==
  ASSUME TypeOK, NEW c \in Commands, UpdateStep(c), UNCHANGED setupVars
  PROVE  /\ TypeOK'
         /\ UNCHANGED <<db, archives, tearing, unrotated>>
         /\ \A d \in Commands :
              \/ command'[d] = command[d]
              \/ command[d].pc \in UpdateSteps /\ command'[d].pc \in UpdateSteps
<1>0. /\ command \in [Commands -> Command] /\ form' = form
      /\ db \in Content \cup {Torn} /\ unrotated \in Nat
      /\ archives \in [ArchiveNames -> Content \cup {Torn, NoArchive, Cut}]
  BY DEF TypeOK, setupVars
<1>1. UNCHANGED <<db, clock, archives, tearing, unrotated>>
  BY DEF UpdateStep, NothingToInstall, BeginUpdate, DownloadFails, EndDownload, MakeExecutable,
         Replace, InstallFails
<1>2. ASSUME /\ command' \in [Commands -> Command]
             /\ \A d \in Commands \ {c} :
                  /\ command'[d].pc = command[d].pc
                  /\ command[d].pc # "download" => command'[d] = command[d]
             /\ command[c].pc \in UpdateSteps /\ command'[c].pc \in UpdateSteps
      PROVE  /\ TypeOK'
             /\ \A d \in Commands :
                  \/ command'[d] = command[d]
                  \/ command[d].pc \in UpdateSteps /\ command'[d].pc \in UpdateSteps
  <2>1. TypeOK'
    <3>1. command'[c].pc \notin {"copying", "write", "writing", "extract", "extracting"}
      BY <1>2 DEF UpdateSteps
    <3> QED
      BY <1>0, <1>1, <1>2, <3>1, CommandTypes
  <2>2. ASSUME NEW d \in Commands
        PROVE  \/ command'[d] = command[d]
               \/ command[d].pc \in UpdateSteps /\ command'[d].pc \in UpdateSteps
    BY <1>2 DEF UpdateSteps
  <2> QED
    BY <2>1, <2>2
<1>3. NoCommand.pc = "idle"
  BY NoCommandIsCommand
<1>4. CASE NothingToInstall(c)
  <2>1. command' = command /\ command[c].pc = "idle"
    BY <1>4 DEF NothingToInstall, Begin
  <2> QED
    BY <1>0, <1>1, <1>2, <2>1 DEF UpdateSteps
<1>5. CASE BeginUpdate(c)
  BY <1>1, <1>2, <1>5, BeginUpdateEffect DEF UpdateSteps
<1>6. CASE DownloadFails(c)
  <2>1. Finished(c) /\ command[c].pc = "download"
    BY <1>6 DEF DownloadFails, AfterFailedDownload
  <2> QED
    BY <1>1, <1>2, <2>1, FinishedEffect DEF UpdateSteps
<1>7. CASE EndDownload(c)
  <2>1. Proceed(c, "chmod") /\ command[c].pc = "download" /\ "chmod" \in CommandSteps
    BY <1>7 DEF EndDownload, CommandSteps
  <2> QED
    BY <1>1, <1>2, <2>1, ProceedEffect DEF UpdateSteps
<1>8. CASE MakeExecutable(c)
  <2>1. Proceed(c, "rename") /\ command[c].pc = "chmod" /\ "rename" \in CommandSteps
    BY <1>8 DEF MakeExecutable, CommandSteps
  <2> QED
    BY <1>1, <1>2, <2>1, ProceedEffect DEF UpdateSteps
<1>9. CASE Replace(c)
  <2>1. Moved(c, "self") /\ command[c].pc = "rename"
    BY <1>9 DEF Replace
  <2>2. /\ command' \in [Commands -> Command] /\ command'[c] = NoCommand
        /\ \A d \in Commands \ {c} :
             /\ command'[d].pc = command[d].pc
             /\ command[d].pc # "download" => command'[d] = command[d]
    BY <2>1, MovedEffect
  <2> QED
    BY <1>1, <1>2, <1>3, <2>1, <2>2 DEF UpdateSteps
<1>10. CASE InstallFails(c)
  <2>1. Moved(c, "none") /\ command[c].pc \in {"chmod", "rename"}
    BY <1>10 DEF InstallFails
  <2>2. /\ command' \in [Commands -> Command] /\ command'[c] = NoCommand
        /\ \A d \in Commands \ {c} :
             /\ command'[d].pc = command[d].pc
             /\ command[d].pc # "download" => command'[d] = command[d]
    BY <2>1, MovedEffect
  <2> QED
    BY <1>1, <1>2, <1>3, <2>1, <2>2 DEF UpdateSteps
<1> QED
  BY <1>1, <1>4, <1>5, <1>6, <1>7, <1>8, <1>9, <1>10 DEF UpdateStep

LEMMA TypesKept ==
  ASSUME TypeOK, [Next]_vars
  PROVE  TypeOK'
<1>1. CASE \E f \in Forms : SubmitForm(f)
  BY <1>1, FormTypes DEF SubmitForm
<1>2. CASE \E c \in Commands : RunCommand(c)
  <2>1. PICK c \in Commands : CommandStep(c) \/ UpdateStep(c)
    BY <1>2 DEF RunCommand
  <2>2. UNCHANGED setupVars
    BY <1>2 DEF RunCommand
  <2> QED
    BY <2>1, <2>2, BackupTypes, UpdateTypes
<1>3. CASE Tick /\ UNCHANGED <<setupVars, updateVars, overtaken>>
  <2>1. UNCHANGED <<db, form, archives, command, unrotated>> /\ clock < MaxTime /\ clock' = clock + 1
    BY <1>3 DEF Tick, setupVars
  <2>2. clock' \in 0 .. MaxTime
    <3>1. MaxTime \in Nat
      BY Constant
    <3> QED
      BY <2>1, <3>1 DEF TypeOK
  <2> QED
    BY <2>1, <2>2 DEF TypeOK
<1>4. CASE Crash
  <2>1. /\ form' = [f \in Forms |-> NoForm] /\ command' = [c \in Commands |-> NoCommand]
        /\ UNCHANGED <<db, clock, archives>>
        /\ unrotated' = unrotated + Cardinality({c \in Commands :
                                      command[c].pc \in {"writing", "rotate", "remove"}})
    BY <1>4 DEF Crash
  <2>2. NoForm \in Form /\ NoForm.pc = "idle"
    BY DEF NoForm, Form, FormSteps
  <2>3. NoCommand \in Command /\ NoCommand.pc = "idle"
    BY NoCommandIsCommand
  <2>4. Cardinality({c \in Commands : command[c].pc \in {"writing", "rotate", "remove"}}) \in Nat
    <3>1. IsFiniteSet(Commands)
      BY Constant
    <3>2. IsFiniteSet({c \in Commands : command[c].pc \in {"writing", "rotate", "remove"}})
      BY <3>1, FS_Subset
    <3> QED
      BY <3>2, FS_CardinalityType
  <2>5. unrotated' \in Nat
    BY <2>1, <2>4 DEF TypeOK
  <2> QED
    BY <2>1, <2>2, <2>3, <2>5 DEF TypeOK
<1>5. CASE UNCHANGED vars
  BY <1>5 DEF TypeOK, vars, setupVars, backupVars
<1>6. CASE LateStatement
  <2>1. UNCHANGED <<form, archives, command, clock, unrotated>> /\ db' = Torn
    BY <1>6 DEF LateStatement, StatementLands, setupVars
  <2> QED
    BY <2>1 DEF TypeOK
<1> QED
  BY <1>1, <1>2, <1>3, <1>4, <1>5, <1>6 DEF Next
----------------------------------------------------------------------------
(***************************************************************************)
(* The file is whole unless a restore was disturbed                        *)
(***************************************************************************)
LEMMA FormDatabase ==
  ASSUME TypeOK, NEW f \in Forms, FormStep(f)
  PROVE  db' = db \/ (db \in Content /\ db' # Torn)
<1>0. /\ db \in Content \cup {Torn} /\ Torn \notin Content
      /\ \A g \in Forms : form[g].pc # "idle" => form[g].id \in Ids /\ form[g].name \in Names
  BY Constant DEF TypeOK
<1>1. CASE CreateServerAdmin(f)
  <2>1. /\ form[f].pc = "admin" /\ db \in Content
        /\ db' = [db EXCEPT !.admins = @ \cup {Row(f)}]
    BY <1>0, <1>1 DEF CreateServerAdmin, Readable
  <2>2. Row(f) \in Ids \X Names
    BY <1>0, <2>1 DEF Row
  <2>3. db' \in Content
    BY <2>1, <2>2 DEF Content
  <2> QED
    BY <1>0, <2>1, <2>3
<1>2. CASE CreateUser(f)
  <2>1. /\ form[f].pc = "user" /\ db \in Content
        /\ db' = [db EXCEPT !.users = @ \cup {Row(f)}]
    BY <1>0, <1>2 DEF CreateUser, Readable
  <2>2. Row(f) \in Ids \X Names
    BY <1>0, <2>1 DEF Row
  <2>3. db' \in Content
    BY <2>1, <2>2 DEF Content
  <2> QED
    BY <1>0, <2>1, <2>3
<1>3. CASE MarkInitialized(f)
  <2>1. db \in Content /\ db' = WithFlag("initialized", TRUE)
    BY <1>0, <1>3 DEF MarkInitialized, Readable
  <2>2. "initialized" \in Flags
    BY DEF Flags
  <2> QED
    BY <1>0, <2>1, <2>2, FlagIsContent
<1> QED
  BY <1>1, <1>2, <1>3 DEF FormStep, ReceiveComplete, RefuseForm, CompletionFails

LEMMA SetModeDatabase ==
  ASSUME TypeOK, NEW c \in Commands, NEW value \in BOOLEAN, SetMode(c, value)
  PROVE  /\ UNCHANGED <<archives, command, tearing, unrotated>>
         /\ \/ db' = db
            \/ /\ db \in Content /\ db' \in Content /\ db' # Torn
               /\ db'.admins = db.admins /\ db'.users = db.users
               /\ "initialized" \in db'.on => "initialized" \in db.on
<1>1. "maintenance_mode" \in Flags /\ Torn \notin Content
  BY Constant DEF Flags
<1>2. UNCHANGED <<archives, command, tearing, unrotated>>
  BY DEF SetMode
<1>3. CASE db \notin Content
  <2>1. db = Torn
    BY <1>3 DEF TypeOK
  <2> QED
    BY <1>2, <2>1 DEF SetMode, Readable
<1>4. CASE db \in Content
  <2>1. db' = WithFlag("maintenance_mode", value)
    BY <1>1, <1>4 DEF SetMode, Readable
  <2>2. /\ db' \in Content /\ db'.admins = db.admins /\ db'.users = db.users
        /\ db'.on = IF value THEN db.on \cup {"maintenance_mode"} ELSE db.on \ {"maintenance_mode"}
    BY <1>1, <1>4, <2>1, FlagIsContent
  <2>3. "initialized" \in db'.on => "initialized" \in db.on
    BY <2>2
  <2> QED
    BY <1>1, <1>2, <1>4, <2>2, <2>3
<1> QED
  BY <1>3, <1>4

LEMMA WholeKept ==
  ASSUME TypeOK, WholeUnlessInterrupted, [Next]_vars
  PROVE  WholeUnlessInterrupted'
<1>0. TypeOK'
  BY TypesKept
<1>1. CASE \E f \in Forms : SubmitForm(f)
  <2>1. PICK f \in Forms : FormStep(f)
    BY <1>1 DEF SubmitForm
  <2>2. command' = command /\ tearing' = tearing
    BY <1>1 DEF SubmitForm, backupVars
  <2>3. Readable => Readable'
    BY <2>1, FormDatabase DEF Readable
  <2> QED
    BY <2>2, <2>3 DEF WholeUnlessInterrupted, Extracting
<1>2. CASE \E c \in Commands : RunCommand(c)
  <2>1. PICK c \in Commands : CommandStep(c) \/ UpdateStep(c)
    BY <1>2 DEF RunCommand
  <2>2. UNCHANGED setupVars
    BY <1>2 DEF RunCommand
  <2>3. CASE UpdateStep(c)
    <3>1. /\ UNCHANGED <<db, tearing>>
          /\ \A d \in Commands : command'[d] = command[d] \/ command[d].pc \in UpdateSteps
      BY <2>2, <2>3, UpdateTypes
    <3>2. \A d \in Extracting : d \in Extracting'
      BY <3>1 DEF Extracting, UpdateSteps
    <3> QED
      BY <3>1, <3>2 DEF WholeUnlessInterrupted, Readable
  <2>4. CASE CommandStep(c)
    <3>1. \A d \in Commands \ {c} : command'[d] = command[d]
      BY <2>2, <2>4, BackupTypes
    <3>2. ASSUME db' = db \/ db' # Torn, tearing' = tearing, command[c].pc # "extracting"
          PROVE  WholeUnlessInterrupted'
      <4>1. \A d \in Extracting : d \in Extracting'
        BY <3>1, <3>2 DEF Extracting
      <4> QED
        BY <3>2, <4>1 DEF WholeUnlessInterrupted, Readable
    <3>3. CASE \E b \in BOOLEAN : BeginBackup(c, b)
      BY <3>2, <3>3 DEF BeginBackup, Begin
    <3>4. CASE \E b \in BOOLEAN : SetMode(c, b)
      BY <3>2, <3>4, SetModeDatabase DEF SetMode, Begin
    <3>5. CASE BeginCopy(c)
      BY <3>2, <3>5 DEF BeginCopy
    <3>6. CASE EndCopy(c)
      BY <3>2, <3>6 DEF EndCopy
    <3>7. CASE BeginWrite(c)
      BY <3>2, <3>7 DEF BeginWrite
    <3>8. CASE EndWrite(c)
      BY <3>2, <3>8 DEF EndWrite
    <3>9. CASE BackupFails(c)
      BY <3>2, <3>9 DEF BackupFails
    <3>10. CASE ListForRotation(c)
      BY <3>2, <3>10 DEF ListForRotation
    <3>11. CASE \E n \in ArchiveNames : RemoveArchive(c, n) \/ RemoveFails(c, n)
      BY <3>2, <3>11 DEF RemoveArchive, RemoveFails
    <3>12. CASE \E n \in ArchiveNames, right \in BOOLEAN : BeginRestore(c, n, right)
      BY <3>2, <3>12 DEF BeginRestore, Begin
    <3>13. CASE BeginExtract(c)
      <4>1. Proceed(c, "extracting") /\ "extracting" \in CommandSteps
        BY <3>13 DEF BeginExtract, CommandSteps
      <4>2. c \in Extracting'
        BY <4>1, ProceedEffect DEF Extracting
      <4> QED
        BY <4>2 DEF WholeUnlessInterrupted
    <3>14. CASE EndExtract(c)
      <4>1. SUFFICES ASSUME ~tearing' PROVE Readable'
        BY DEF WholeUnlessInterrupted
      <4>2. command[c].held # Torn /\ Extracting = {c} /\ db = Torn /\ command[c].pc = "extracting"
        BY <3>14, <4>1 DEF EndExtract, Readable
      <4>3. db' = IF command[c].held \in Content THEN command[c].held ELSE Torn
        BY <3>14, <4>2 DEF EndExtract
      <4>4. command[c].held \in Content
        BY <4>2 DEF TypeOK
      <4> QED
        BY <4>2, <4>3, <4>4 DEF Readable
    <3>15. CASE ExtractFails(c)
      <4>1. CASE command[c].pc = "extracting"
        BY <3>15, <4>1 DEF ExtractFails, Extracting, WholeUnlessInterrupted
      <4>2. CASE command[c].pc = "extract"
        <5>1. c \notin Extracting
          BY <4>2 DEF Extracting
        <5>2. tearing' = (tearing \/ FALSE) /\ db' = db
          BY <3>15, <5>1 DEF ExtractFails
        <5>3. \A d \in Extracting : d \in Extracting'
          BY <3>1, <5>1 DEF Extracting
        <5> QED
          BY <5>2, <5>3 DEF WholeUnlessInterrupted, Readable
      <4> QED
        BY <3>15, <4>1, <4>2 DEF ExtractFails
    <3> QED
      BY <2>4, <3>3, <3>4, <3>5, <3>6, <3>7, <3>8, <3>9, <3>10, <3>11, <3>12, <3>13, <3>14, <3>15
         DEF CommandStep
  <2> QED
    BY <2>1, <2>3, <2>4
<1>3. CASE Tick /\ UNCHANGED <<setupVars, updateVars, overtaken>>
  BY <1>3 DEF Tick, WholeUnlessInterrupted, Readable, Extracting
<1>4. CASE Crash
  <2>1. db' = db /\ tearing' = (tearing \/ Extracting # {})
    BY <1>4 DEF Crash
  <2> QED
    BY <2>1 DEF WholeUnlessInterrupted, Readable
<1>5. CASE UNCHANGED vars
  BY <1>5 DEF WholeUnlessInterrupted, Readable, Extracting, vars, backupVars
<1>6. CASE LateStatement
  BY <1>6 DEF LateStatement, StatementLands, WholeUnlessInterrupted
<1> QED
  BY <1>1, <1>2, <1>3, <1>4, <1>5, <1>6 DEF Next
----------------------------------------------------------------------------
(***************************************************************************)
(* An initialized site has an administrator                                *)
(***************************************************************************)

\* The steps in which a command holds a database.
Holding == {"copying", "write", "writing", "extract", "extracting"}

LEMMA FormAdmin ==
  ASSUME TypeOK, AdminInv, NEW f \in Forms, SubmitForm(f)
  PROVE  AdminInv'
<1>0. /\ form \in [Forms -> Form] /\ db \in Content \cup {Torn} /\ Torn \notin Content
      /\ FormStep(f) /\ UNCHANGED <<archives, command, overtaken>>
      /\ \A g \in Forms : form[g].pc # "idle" => form[g].id \in Ids /\ form[g].name \in Names
  BY Constant DEF TypeOK, SubmitForm, backupVars
<1>1. SUFFICES ASSUME ~overtaken
               PROVE  /\ Readable' => Sound(db')
                      /\ \A g \in HalfDone' :
                           /\ Readable' /\ Row(g)' \in db'.admins
                           /\ form'[g].pc = "mark" => Row(g)' \in db'.users
  BY <1>0 DEF AdminInv, Sound
<1>2. /\ Readable => Sound(db)
      /\ \A g \in HalfDone : Readable /\ Row(g) \in db.admins
                                      /\ (form[g].pc = "mark" => Row(g) \in db.users)
  BY <1>1 DEF AdminInv
\* A row that was found stays; the form may have one more.
<1>3. ASSUME \A g \in Forms \ {f} : form'[g] = form[g],
             Readable => Readable' /\ db.admins \subseteq db'.admins /\ db.users \subseteq db'.users,
             f \in HalfDone' => /\ Readable' /\ Row(f)' \in db'.admins
                                /\ form'[f].pc = "mark" => Row(f)' \in db'.users
      PROVE  \A g \in HalfDone' : /\ Readable' /\ Row(g)' \in db'.admins
                                  /\ form'[g].pc = "mark" => Row(g)' \in db'.users
  <2>1. TAKE g \in HalfDone'
  <2>2. CASE g = f
    BY <1>3, <2>2
  <2>3. CASE g # f
    <3>1. g \in HalfDone /\ form'[g] = form[g]
      BY <1>3, <2>3 DEF HalfDone
    <3>2. Row(g)' = Row(g)
      BY <3>1 DEF Row
    <3> QED
      BY <1>2, <1>3, <3>1, <3>2
  <2> QED
    BY <2>2, <2>3
<1>4. ASSUME NEW pc \in FormSteps, Goto(f, pc)
      PROVE  /\ \A g \in Forms \ {f} : form'[g] = form[g]
             /\ form'[f].pc = pc /\ form'[f].id = form[f].id /\ form'[f].name = form[f].name
  <2>1. PICK g : g = [form[f] EXCEPT !.pc = pc]
    OBVIOUS
  <2>2. form[f] \in Form
    BY <1>0
  <2>3. g.pc = pc /\ g.id = form[f].id /\ g.name = form[f].name
    BY <2>1, <2>2 DEF Form
  <2>4. form' = [form EXCEPT ![f] = g]
    BY <1>0, <1>4, <2>1 DEF Goto
  <2> QED
    BY <1>0, <2>3, <2>4
<1>5. ASSUME Done(f)
      PROVE  (\A g \in Forms \ {f} : form'[g] = form[g]) /\ f \notin HalfDone'
  BY <1>0, <1>5 DEF Done, NoForm, HalfDone
<1>6. CASE \E id \in Ids, name \in Names : ReceiveComplete(f, id, name)
  <2>1. PICK id \in Ids, name \in Names : ReceiveComplete(f, id, name)
    BY <1>6
  <2>2. PICK g : g = [pc |-> "admin", id |-> id, name |-> name]
    OBVIOUS
  <2>3. form' = [form EXCEPT ![f] = g] /\ g.pc = "admin" /\ db' = db
    BY <2>1, <2>2 DEF ReceiveComplete
  <2>4. (\A g1 \in Forms \ {f} : form'[g1] = form[g1]) /\ f \notin HalfDone'
    BY <1>0, <2>3 DEF HalfDone
  <2> QED
    BY <1>2, <1>3, <2>3, <2>4 DEF Readable, Sound
<1>7. CASE RefuseForm(f)
  <2>1. form' = form /\ db' = db
    BY <1>7 DEF RefuseForm, setupVars
  <2> QED
    BY <1>2, <2>1 DEF Readable, Sound, HalfDone, Row
<1>8. CASE CreateServerAdmin(f)
  <2>1. /\ form[f].pc = "admin" /\ Goto(f, "user") /\ Readable /\ db \in Content
        /\ db' = [db EXCEPT !.admins = @ \cup {Row(f)}]
    BY <1>0, <1>8 DEF CreateServerAdmin, Readable
  <2>2. /\ db'.admins = db.admins \cup {Row(f)} /\ db'.users = db.users /\ db'.on = db.on
    BY <2>1 DEF Content
  <2>3. Readable'
    <3>1. db' = db \/ db' # Torn
      BY <1>0, FormDatabase
    <3> QED
      BY <2>1, <3>1 DEF Readable
  <2>4. Row(f)' = Row(f) /\ form'[f].pc = "user" /\ \A g \in Forms \ {f} : form'[g] = form[g]
    BY <1>4, <2>1 DEF Row, FormSteps
  <2>5. Sound(db')
    BY <1>2, <2>1, <2>2 DEF Sound
  <2>6. Row(f)' \in db'.admins
    BY <2>2, <2>4
  <2> QED
    BY <1>3, <2>2, <2>3, <2>4, <2>5, <2>6
<1>9. CASE CreateUser(f)
  <2>1. /\ form[f].pc = "user" /\ Goto(f, "mark") /\ Readable /\ db \in Content
        /\ db' = [db EXCEPT !.users = @ \cup {Row(f)}]
    BY <1>0, <1>9 DEF CreateUser, Readable
  <2>2. /\ db'.admins = db.admins /\ db'.users = db.users \cup {Row(f)} /\ db'.on = db.on
    BY <2>1 DEF Content
  <2>3. Readable'
    <3>1. db' = db \/ db' # Torn
      BY <1>0, FormDatabase
    <3> QED
      BY <2>1, <3>1 DEF Readable
  <2>4. Row(f)' = Row(f) /\ form'[f].pc = "mark" /\ \A g \in Forms \ {f} : form'[g] = form[g]
    BY <1>4, <2>1 DEF Row, FormSteps
  <2>5. Sound(db')
    BY <1>2, <2>1, <2>2 DEF Sound
  <2>6. Row(f)' \in db'.admins /\ Row(f)' \in db'.users
    <3>1. f \in HalfDone
      BY <2>1 DEF HalfDone
    <3>2. Row(f) \in db.admins
      BY <1>2, <3>1
    <3> QED
      BY <2>2, <2>4, <3>2
  <2> QED
    BY <1>3, <2>2, <2>3, <2>4, <2>5, <2>6
<1>10. CASE MarkInitialized(f)
  <2>1. form[f].pc = "mark" /\ Done(f) /\ db \in Content /\ db' = WithFlag("initialized", TRUE)
    BY <1>0, <1>10 DEF MarkInitialized, Readable
  <2>2. "initialized" \in Flags
    BY DEF Flags
  <2>3. /\ db' \in Content /\ db'.admins = db.admins /\ db'.users = db.users
    BY <2>1, <2>2, FlagIsContent
  <2>4. Readable'
    BY <1>0, <2>3 DEF Readable
  <2>5. Row(f) \in db.admins /\ Row(f) \in db.users
    <3>1. f \in HalfDone
      BY <2>1 DEF HalfDone
    <3> QED
      BY <1>2, <2>1, <3>1
  <2>6. Sound(db')
    BY <2>3, <2>5 DEF Sound
  <2> QED
    BY <1>3, <1>5, <2>1, <2>3, <2>4, <2>6
<1>11. CASE CompletionFails(f)
  <2>1. Done(f) /\ db' = db
    BY <1>11 DEF CompletionFails, AfterRefused
  <2> QED
    BY <1>2, <1>3, <1>5, <2>1 DEF Readable, Sound
<1> QED
  BY <1>0, <1>6, <1>7, <1>8, <1>9, <1>10, <1>11 DEF FormStep

LEMMA CommandAdmin ==
  ASSUME TypeOK, AdminInv, NEW c \in Commands, RunCommand(c)
  PROVE  AdminInv'
<1>0. /\ command \in [Commands -> Command] /\ db \in Content \cup {Torn} /\ Torn \notin Content
      /\ archives \in [ArchiveNames -> Content \cup {Torn, NoArchive, Cut}]
      /\ NoArchive \notin Content /\ Cut \notin Content
      /\ UNCHANGED setupVars /\ form' = form
  BY Constant DEF TypeOK, RunCommand, setupVars
<1>1. SUFFICES ASSUME ~overtaken'
               PROVE  /\ Readable' => Sound(db')
                      /\ \A n \in ArchiveNames : archives'[n] \in Content => Sound(archives'[n])
                      /\ \A d \in Commands : command'[d].pc \in Holding /\ command'[d].held # Torn
                           => Sound(command'[d].held)
                      /\ \A f \in HalfDone : /\ Readable' /\ Row(f) \in db'.admins
                                             /\ form[f].pc = "mark" => Row(f) \in db'.users
  BY <1>0 DEF AdminInv, Sound, HalfDone, Row, Holding
<1>2. ~overtaken /\ (command[c].pc \in {"extract", "extracting"} => HalfDone = {})
  BY <1>1 DEF RunCommand
<1>3. /\ Readable => Sound(db)
      /\ \A n \in ArchiveNames : archives[n] \in Content => Sound(archives[n])
      /\ \A d \in Commands : command[d].pc \in Holding /\ command[d].held # Torn
           => Sound(command[d].held)
      /\ \A f \in HalfDone : Readable /\ Row(f) \in db.admins
                                      /\ (form[f].pc = "mark" => Row(f) \in db.users)
  BY <1>2 DEF AdminInv, Holding
<1>4. CASE UpdateStep(c)
  <2>1. /\ UNCHANGED <<db, archives>>
        /\ \A d \in Commands : command'[d] = command[d] \/ command'[d].pc \in UpdateSteps
    BY <1>0, <1>4, UpdateTypes
  <2>2. \A d \in Commands : command'[d].pc \in Holding => command'[d] = command[d]
    BY <2>1 DEF Holding, UpdateSteps
  <2> QED
    BY <1>3, <2>1, <2>2 DEF Readable
<1>5. CASE CommandStep(c)
  <2>0. \A d \in Commands \ {c} : command'[d] = command[d]
    BY <1>0, <1>5, BackupTypes
  <2>1. ASSUME command'[c].pc \in Holding /\ command'[c].held # Torn => Sound(command'[c].held)
        PROVE  \A d \in Commands : command'[d].pc \in Holding /\ command'[d].held # Torn
                 => Sound(command'[d].held)
    BY <1>3, <2>0, <2>1
  <2>2. command[c].pc \in Holding /\ command[c].held # Torn => Sound(command[c].held)
    BY <1>3
  <2>3. NoCommand.pc \notin Holding
    BY NoCommandIsCommand DEF Holding
  <2>4. CASE \E b \in BOOLEAN : BeginBackup(c, b)
    <3>1. PICK b \in BOOLEAN : BeginBackup(c, b)
      BY <2>4
    <3>2. db' = db /\ archives' = archives
      BY <3>1 DEF BeginBackup
    <3>3. command'[c] = command[c] \/ command'[c].pc = "copy"
      BY <3>1, BeginBackupEffect
    <3> QED
      BY <1>3, <2>1, <2>2, <3>2, <3>3 DEF Readable, Holding
  <2>5. CASE \E b \in BOOLEAN : SetMode(c, b)
    <3>1. PICK b \in BOOLEAN : SetMode(c, b)
      BY <2>5
    <3>2. /\ archives' = archives /\ command' = command
          /\ \/ db' = db
             \/ /\ db \in Content /\ db' \in Content /\ db' # Torn
                /\ db'.admins = db.admins /\ db'.users = db.users
                /\ "initialized" \in db'.on => "initialized" \in db.on
      BY <3>1, SetModeDatabase
    <3>3. CASE db' = db
      BY <1>3, <3>2, <3>3 DEF Readable
    <3>4. CASE /\ db \in Content /\ db' \in Content /\ db' # Torn
               /\ db'.admins = db.admins /\ db'.users = db.users
               /\ "initialized" \in db'.on => "initialized" \in db.on
      <4>1. Readable
        BY <1>0, <3>4 DEF Readable
      <4>2. Readable' /\ Sound(db')
        BY <1>3, <3>4, <4>1 DEF Readable, Sound
      <4> QED
        BY <1>3, <3>2, <3>4, <4>1, <4>2
    <3> QED
      BY <3>2, <3>3, <3>4
  <2>6. CASE BeginCopy(c)
    <3>1. db' = db /\ archives' = archives
      BY <2>6 DEF BeginCopy
    <3>2. command'[c].held = db
      BY <2>6, BeginCopyEffect
    <3> QED
      BY <1>3, <2>1, <3>1, <3>2 DEF Readable
  <2>7. CASE EndCopy(c)
    <3>1. db' = db /\ archives' = archives
      BY <2>7 DEF EndCopy
    <3>2. /\ command[c].pc \in Holding
          /\ \/ command'[c].held \in {command[c].held, Torn}
             \/ command'[c].pc = "idle"
      BY <2>7, EndCopyEffect DEF Holding
    <3>3. command'[c].pc \in Holding /\ command'[c].held # Torn => Sound(command'[c].held)
      BY <2>2, <3>2 DEF Holding
    <3> QED
      BY <1>3, <2>1, <3>1, <3>3 DEF Readable
  <2>8. CASE BeginWrite(c)
    <3>1. db' = db /\ archives' = [archives EXCEPT ![command[c].name] = Cut]
      BY <2>8 DEF BeginWrite
    <3>2. command[c].pc \in Holding /\ command'[c].held = command[c].held
      BY <2>8, BeginWriteEffect DEF Holding
    <3>3. \A n \in ArchiveNames : archives'[n] \in Content => archives'[n] = archives[n]
      BY <1>0, <3>1
    <3> QED
      BY <1>3, <2>1, <2>2, <3>1, <3>2, <3>3 DEF Readable
  <2>9. CASE EndWrite(c)
    <3>1. /\ db' = db /\ command[c].pc = "writing"
          /\ \E a \in {command[c].held, Cut} : archives' = [archives EXCEPT ![command[c].name] = a]
      BY <2>9 DEF EndWrite
    <3>2. command'[c].pc = "rotate"
      BY <2>9, EndWriteEffect
    <3>3. command[c].held \in Content => Sound(command[c].held)
      BY <1>0, <2>2, <3>1 DEF Holding
    <3>4. \A n \in ArchiveNames : archives'[n] \in Content => Sound(archives'[n])
      <4>1. TAKE n \in ArchiveNames
      <4>2. archives'[n] \in {archives[n], command[c].held, Cut}
        BY <1>0, <3>1
      <4> QED
        BY <1>0, <1>3, <3>3, <4>2
    <3> QED
      BY <1>3, <2>1, <3>1, <3>2, <3>4 DEF Readable, Holding
  <2>10. CASE BackupFails(c)
    <3>1. Finished(c) /\ db' = db /\ archives' = archives
      BY <2>10 DEF BackupFails
    <3>2. command'[c].pc = "idle"
      BY <3>1, FinishedEffect
    <3> QED
      BY <1>3, <2>1, <3>1, <3>2 DEF Readable, Holding
  <2>11. CASE ListForRotation(c)
    <3>1. GoOnRemoving(c, {n \in Stored : Beyond(n)}) /\ db' = db /\ archives' = archives
      BY <2>11 DEF ListForRotation
    <3>2. {n \in Stored : Beyond(n)} \in SUBSET ArchiveNames
      BY DEF Stored
    <3>3. command'[c].pc \in {"idle", "remove"}
      BY <3>1, <3>2, GoOnRemovingEffect
    <3> QED
      BY <1>3, <2>1, <3>1, <3>3 DEF Readable, Holding
  <2>12. CASE \E n \in ArchiveNames : RemoveArchive(c, n) \/ RemoveFails(c, n)
    <3>1. PICK n \in ArchiveNames : RemoveArchive(c, n) \/ RemoveFails(c, n)
      BY <2>12
    <3>2. /\ GoOnRemoving(c, command[c].doomed \ {n}) /\ db' = db
          /\ archives' = archives \/ archives' = [archives EXCEPT ![n] = NoArchive]
      BY <3>1 DEF RemoveArchive, RemoveFails
    <3>3. command[c].doomed \ {n} \in SUBSET ArchiveNames
      BY <1>0 DEF Command
    <3>4. command'[c].pc \in {"idle", "remove"}
      BY <3>2, <3>3, GoOnRemovingEffect
    <3>5. \A m \in ArchiveNames : archives'[m] \in Content => archives'[m] = archives[m]
      BY <1>0, <3>2
    <3> QED
      BY <1>3, <2>1, <3>2, <3>4, <3>5 DEF Readable, Holding
  <2>13. CASE \E n \in ArchiveNames, right \in BOOLEAN : BeginRestore(c, n, right)
    <3>1. PICK n \in ArchiveNames, right \in BOOLEAN : BeginRestore(c, n, right)
      BY <2>13
    <3>2. db' = db /\ archives' = archives
      BY <3>1 DEF BeginRestore
    <3>3. \/ command'[c] = command[c]
          \/ /\ command'[c].pc = "extract" /\ command'[c].held = archives[n]
             /\ command'[c].held \in Content \cup {Torn}
      BY <3>1, BeginRestoreEffect
    <3>4. command'[c].pc \in Holding /\ command'[c].held # Torn => Sound(command'[c].held)
      BY <1>3, <2>2, <3>3
    <3> QED
      BY <1>3, <2>1, <3>2, <3>4 DEF Readable
  <2>14. CASE BeginExtract(c)
    <3>1. /\ Proceed(c, "extracting") /\ command[c].pc = "extract" /\ db' = Torn
          /\ archives' = archives /\ "extracting" \in CommandSteps
      BY <2>14 DEF BeginExtract, CommandSteps
    <3>2. command'[c].held = command[c].held
      BY <3>1, ProceedEffect
    <3>3. HalfDone = {} /\ ~Readable'
      BY <1>2, <3>1 DEF Readable
    <3>4. command[c].pc \in Holding
      BY <3>1 DEF Holding
    <3> QED
      BY <1>3, <2>1, <2>2, <3>1, <3>2, <3>3, <3>4
  <2>15. CASE EndExtract(c)
    <3>1. /\ Finished(c) /\ command[c].pc = "extracting" /\ archives' = archives
          /\ db' = Torn \/ (db' = command[c].held /\ command[c].held \in Content)
      BY <2>15 DEF EndExtract
    <3>2. command'[c].pc = "idle"
      BY <3>1, FinishedEffect
    <3>3. Readable' => Sound(db')
      BY <1>0, <2>2, <3>1 DEF Readable, Holding
    <3>4. HalfDone = {}
      BY <1>2, <3>1
    <3> QED
      BY <1>3, <2>1, <3>1, <3>2, <3>3, <3>4 DEF Holding
  <2>16. CASE ExtractFails(c)
    <3>1. Finished(c) /\ db' = db /\ archives' = archives
      BY <2>16 DEF ExtractFails
    <3>2. command'[c].pc = "idle"
      BY <3>1, FinishedEffect
    <3> QED
      BY <1>3, <2>1, <3>1, <3>2 DEF Readable, Holding
  <2> QED
    BY <1>5, <2>4, <2>5, <2>6, <2>7, <2>8, <2>9, <2>10, <2>11, <2>12, <2>13, <2>14, <2>15, <2>16
       DEF CommandStep
<1> QED
  BY <1>4, <1>5 DEF RunCommand

LEMMA AdminKept ==
  ASSUME TypeOK, AdminInv, [Next]_vars
  PROVE  AdminInv'
<1>1. CASE Tick /\ UNCHANGED <<setupVars, updateVars, overtaken>>
  BY <1>1 DEF Tick, setupVars, AdminInv, Readable, Sound, HalfDone, Row
<1>2. CASE Crash
  <2>1. /\ UNCHANGED <<db, archives, overtaken>>
        /\ form' = [f \in Forms |-> NoForm] /\ command' = [c \in Commands |-> NoCommand]
    BY <1>2 DEF Crash
  <2>2. HalfDone' = {} /\ \A c \in Commands : command'[c].pc = "idle"
    BY <2>1, NoCommandIsCommand DEF HalfDone, NoForm
  <2> QED
    BY <2>1, <2>2 DEF AdminInv, Readable, Sound
<1>3. CASE UNCHANGED vars
  BY <1>3 DEF vars, setupVars, backupVars, AdminInv, Readable, Sound, HalfDone, Row
<1>4. CASE LateStatement
  <2>1. /\ UNCHANGED <<form, archives, command>> /\ db' = Torn
        /\ overtaken' = (overtaken \/ HalfDone # {})
    BY <1>4 DEF LateStatement, StatementLands, setupVars
  <2>2. SUFFICES ASSUME ~overtaken, HalfDone = {}
                 PROVE  AdminInv'
    BY <2>1 DEF AdminInv
  <2>3. HalfDone' = {} /\ ~Readable'
    BY <2>1, <2>2 DEF HalfDone, Readable
  <2> QED
    BY <2>1, <2>2, <2>3 DEF AdminInv, Sound
<1> QED
  BY <1>1, <1>2, <1>3, <1>4, FormAdmin, CommandAdmin DEF Next
----------------------------------------------------------------------------
(***************************************************************************)
(* The program is whole unless two updates met                             *)
(***************************************************************************)

\* A backup, a restore or a change of the mode is no update.
LEMMA CommandIsNoUpdate ==
  ASSUME TypeOK, NEW c \in Commands, CommandStep(c), UNCHANGED setupVars
  PROVE  /\ Updating' = Updating
         /\ \A d \in Updating : command'[d] = command[d]
<1>1. \A d \in Commands \ {c} : command'[d] = command[d]
  BY BackupTypes
<1>2. SUFFICES c \notin Updating /\ c \notin Updating'
  BY <1>1 DEF Updating
<1>3. ASSUME command[c].pc \notin {"download", "chmod", "rename"},
             command'[c].pc \notin {"download", "chmod", "rename"}
      PROVE  c \notin Updating /\ c \notin Updating'
  BY <1>3 DEF Updating
<1>4. NoCommand.pc = "idle"
  BY NoCommandIsCommand
<1>5. ASSUME Finished(c), command[c].pc \notin {"download", "chmod", "rename"}
      PROVE  c \notin Updating /\ c \notin Updating'
  BY <1>3, <1>5, FinishedEffect
<1>6. CASE \E b \in BOOLEAN : BeginBackup(c, b)
  BY <1>3, <1>6, BeginBackupEffect
<1>7. CASE \E b \in BOOLEAN : SetMode(c, b)
  BY <1>3, <1>7 DEF SetMode, Begin
<1>8. CASE BeginCopy(c)
  BY <1>3, <1>8, BeginCopyEffect
<1>9. CASE EndCopy(c)
  BY <1>3, <1>9, EndCopyEffect
<1>10. CASE BeginWrite(c)
  BY <1>3, <1>10, BeginWriteEffect
<1>11. CASE EndWrite(c)
  BY <1>3, <1>11, EndWriteEffect
<1>12. CASE BackupFails(c)
  BY <1>5, <1>12 DEF BackupFails
<1>13. ASSUME NEW doomed \in SUBSET ArchiveNames, GoOnRemoving(c, doomed),
              command[c].pc \in {"rotate", "remove"}
       PROVE  c \notin Updating /\ c \notin Updating'
  <2>1. command'[c].pc \in {"idle", "remove"}
    BY <1>13, GoOnRemovingEffect
  <2> QED
    BY <1>3, <1>13, <2>1
<1>14. CASE ListForRotation(c)
  <2>1. {n \in Stored : Beyond(n)} \in SUBSET ArchiveNames
    BY DEF Stored
  <2> QED
    BY <1>13, <1>14, <2>1 DEF ListForRotation
<1>15. CASE \E n \in ArchiveNames : RemoveArchive(c, n) \/ RemoveFails(c, n)
  <2>1. PICK n \in ArchiveNames : RemoveArchive(c, n) \/ RemoveFails(c, n)
    BY <1>15
  <2>2. command[c].doomed \ {n} \in SUBSET ArchiveNames
    BY DEF TypeOK, Command
  <2> QED
    BY <1>13, <2>1, <2>2 DEF RemoveArchive, RemoveFails
<1>16. CASE \E n \in ArchiveNames, right \in BOOLEAN : BeginRestore(c, n, right)
  BY <1>3, <1>16, BeginRestoreEffect
<1>17. CASE BeginExtract(c)
  <2>1. Proceed(c, "extracting") /\ command[c].pc = "extract" /\ "extracting" \in CommandSteps
    BY <1>17 DEF BeginExtract, CommandSteps
  <2>2. command'[c].pc = "extracting"
    BY <2>1, ProceedEffect
  <2> QED
    BY <1>3, <2>1, <2>2
<1>18. CASE EndExtract(c) \/ ExtractFails(c)
  BY <1>5, <1>18 DEF EndExtract, ExtractFails
<1> QED
  BY <1>6, <1>7, <1>8, <1>9, <1>10, <1>11, <1>12, <1>14, <1>15, <1>16, <1>17, <1>18
     DEF CommandStep

LEMMA ProgramKept ==
  ASSUME TypeOK, UpdateInv, NEW c \in Commands, UpdateStep(c)
  PROVE  UpdateInv'
<1>0. command \in [Commands -> Command] /\ program \in File /\ download \in File
  BY DEF TypeOK, UpdateInv
<1>1. ASSUME ~meeting
      PROVE  /\ program.whole /\ program.executable
             /\ \A d, e \in Updating : d = e
             /\ \A d \in Updating :
                  /\ command[d].pc = "download" => command[d].held = "new"
                  /\ download.exists
                  /\ command[d].pc \in {"chmod", "rename"} => download.whole
                  /\ command[d].pc = "rename" => download.executable
  BY <1>1 DEF UpdateInv, Held
<1>2. NoFile \in File /\ Created \in File /\ Created.exists
  BY DEF NoFile, Created, File
\* An update alone that ends leaves none.
<1>3. ASSUME c \in Updating, ~meeting, c \notin Updating',
             \A d \in Commands \ {c} : command'[d].pc = command[d].pc
      PROVE  Updating' = {}
  <2>1. ASSUME NEW d \in Updating' PROVE FALSE
    <3>1. d \in Commands \ {c} /\ command'[d].pc = command[d].pc
      BY <1>3, <2>1 DEF Updating
    <3>2. d \in Updating
      BY <2>1, <3>1 DEF Updating
    <3> QED
      BY <1>1, <1>3, <3>1, <3>2
  <2> QED
    BY <2>1
<1>4. ASSUME c \in Updating, ~meeting, \A d \in Commands \ {c} : command'[d] = command[d]
      PROVE  Updating' \subseteq {c}
  <2>1. ASSUME NEW d \in Updating', d # c PROVE FALSE
    <3>1. d \in Updating
      BY <1>4, <2>1 DEF Updating
    <3> QED
      BY <1>1, <1>4, <2>1, <3>1
  <2> QED
    BY <2>1
<1>5. CASE NothingToInstall(c)
  BY <1>5 DEF NothingToInstall, updateVars, UpdateInv, Updating, Held
<1>6. CASE BeginUpdate(c)
  <2>1. /\ program' = program /\ meeting' = (meeting \/ Updating # {})
        /\ download' = IF download.exists THEN [download EXCEPT !.whole = FALSE] ELSE Created
    BY <1>6 DEF BeginUpdate
  <2>2. download' \in File /\ download'.exists
    BY <1>0, <1>2, <2>1 DEF File
  <2>3. SUFFICES ASSUME ~meeting'
                 PROVE  /\ \A d, e \in Updating' : d = e
                        /\ \A d \in Updating' : command'[d].pc = "download" /\ command'[d].held = "new"
    BY <1>0, <1>1, <2>1, <2>2, <2>3 DEF UpdateInv, Held
  <2>4. Updating' \subseteq {c} /\ command'[c].pc = "download" /\ command'[c].held = "new"
    <3>1. /\ \A d \in Commands \ {c} : command'[d] = command[d]
          /\ command'[c].pc = "download" /\ command'[c].held = "new"
      BY <1>6, BeginUpdateEffect
    <3>2. Updating = {}
      BY <2>1, <2>3
    <3> QED
      BY <3>1, <3>2 DEF Updating
  <2> QED
    BY <2>4
<1>7. CASE DownloadFails(c)
  <2>1. Finished(c) /\ command[c].pc = "download" /\ UNCHANGED <<program, download, meeting>>
    BY <1>7 DEF DownloadFails, AfterFailedDownload, updateVars
  <2>2. ASSUME ~meeting PROVE Updating' = {}
    <3>1. /\ c \in Updating /\ c \notin Updating'
          /\ \A d \in Commands \ {c} : command'[d].pc = command[d].pc
      BY <2>1, FinishedEffect DEF Updating
    <3> QED
      BY <1>3, <2>2, <3>1
  <2> QED
    BY <1>0, <1>1, <2>1, <2>2 DEF UpdateInv
<1>8. CASE EndDownload(c)
  <2>1. PICK whole \in {TRUE} \cup (IF meeting THEN {FALSE} ELSE {}) :
          /\ download' = IF Held(c) = "new" THEN [download EXCEPT !.whole = whole] ELSE download
          /\ program' = IF Held(c) = "self" THEN [program EXCEPT !.whole = whole] ELSE program
    BY <1>8 DEF EndDownload
  <2>2. /\ command[c].pc = "download" /\ Proceed(c, "chmod") /\ meeting' = meeting
        /\ "chmod" \in CommandSteps /\ c \in Updating
    BY <1>8 DEF EndDownload, CommandSteps, Updating
  <2>3. whole \in BOOLEAN
    BY <2>1
  <2>4. download' \in File /\ program' \in File
    BY <1>0, <2>1, <2>3 DEF File
  <2>5. ASSUME ~meeting
        PROVE  /\ download'.whole /\ download'.exists /\ program' = program
               /\ Updating' \subseteq {c} /\ command'[c].pc = "chmod"
    <3>1. Held(c) = "new" /\ download.exists
      BY <1>1, <2>2, <2>5 DEF Held
    <3>2. whole = TRUE
      BY <2>1, <2>5
    <3>3. download' = [download EXCEPT !.whole = TRUE] /\ program' = program
      BY <2>1, <3>1, <3>2
    <3>4. download'.whole /\ download'.exists
      BY <1>0, <3>1, <3>3 DEF File
    <3>5. command'[c].pc = "chmod" /\ \A d \in Commands \ {c} : command'[d] = command[d]
      BY <2>2, ProceedEffect
    <3> QED
      BY <1>4, <2>2, <2>5, <3>3, <3>4, <3>5
  <2>6. SUFFICES ASSUME ~meeting'
                 PROVE  /\ program'.whole /\ program'.executable
                        /\ \A d, e \in Updating' : d = e
                        /\ \A d \in Updating' :
                             command'[d].pc = "chmod" /\ download'.exists /\ download'.whole
    BY <2>4, <2>6 DEF UpdateInv
  <2> QED
    BY <1>1, <2>2, <2>5, <2>6
<1>9. CASE MakeExecutable(c)
  <2>1. /\ command[c].pc = "chmod" /\ Proceed(c, "rename") /\ UNCHANGED <<program, meeting>>
        /\ download.exists /\ download' = [download EXCEPT !.executable = TRUE]
        /\ "rename" \in CommandSteps /\ c \in Updating
    BY <1>9 DEF MakeExecutable, CommandSteps, Updating
  <2>2. /\ download' \in File /\ download'.executable /\ download'.exists
        /\ download'.whole = download.whole
    BY <1>0, <2>1 DEF File
  <2>3. ASSUME ~meeting
        PROVE  download'.whole /\ Updating' \subseteq {c} /\ command'[c].pc = "rename"
    <3>1. command'[c].pc = "rename" /\ \A d \in Commands \ {c} : command'[d] = command[d]
      BY <2>1, ProceedEffect
    <3> QED
      BY <1>1, <1>4, <2>1, <2>2, <2>3, <3>1
  <2>4. SUFFICES ASSUME ~meeting'
                 PROVE  /\ program'.whole /\ program'.executable
                        /\ \A d, e \in Updating' : d = e
                        /\ \A d \in Updating' :
                             /\ command'[d].pc = "rename" /\ download'.exists /\ download'.whole
                             /\ download'.executable
    BY <1>0, <2>1, <2>2, <2>4 DEF UpdateInv
  <2> QED
    BY <1>1, <2>1, <2>2, <2>3, <2>4
<1>10. CASE Replace(c)
  <2>1. /\ command[c].pc = "rename" /\ program' = download /\ download' = NoFile
        /\ Moved(c, "self") /\ meeting' = meeting /\ c \in Updating
    BY <1>10 DEF Replace, Updating
  <2>2. ASSUME ~meeting PROVE Updating' = {}
    <3>1. /\ command'[c] = NoCommand
          /\ \A d \in Commands \ {c} : command'[d].pc = command[d].pc
      BY <2>1, MovedEffect
    <3>2. c \notin Updating'
      BY <3>1, NoCommandIsCommand DEF Updating
    <3> QED
      BY <1>3, <2>1, <2>2, <3>1, <3>2
  <2>3. ASSUME ~meeting PROVE download.whole /\ download.executable
    BY <1>1, <2>1, <2>3
  <2> QED
    BY <1>0, <1>2, <2>1, <2>2, <2>3 DEF UpdateInv
<1>11. CASE InstallFails(c)
  <2>1. /\ command[c].pc \in {"chmod", "rename"} /\ program' = program /\ download' = NoFile
        /\ Moved(c, "none") /\ meeting' = meeting /\ c \in Updating
    BY <1>11 DEF InstallFails, Updating
  <2>2. ASSUME ~meeting PROVE Updating' = {}
    <3>1. /\ command'[c] = NoCommand
          /\ \A d \in Commands \ {c} : command'[d].pc = command[d].pc
      BY <2>1, MovedEffect
    <3>2. c \notin Updating'
      BY <3>1, NoCommandIsCommand DEF Updating
    <3> QED
      BY <1>3, <2>1, <2>2, <3>1, <3>2
  <2> QED
    BY <1>0, <1>1, <1>2, <2>1, <2>2 DEF UpdateInv
<1> QED
  BY <1>5, <1>6, <1>7, <1>8, <1>9, <1>10, <1>11 DEF UpdateStep

LEMMA UpdateKept ==
  ASSUME TypeOK, UpdateInv, [Next]_vars
  PROVE  UpdateInv'
<1>1. CASE \E f \in Forms : SubmitForm(f)
  BY <1>1 DEF SubmitForm, backupVars, updateVars, UpdateInv, Updating, Held
<1>2. CASE \E c \in Commands : RunCommand(c)
  <2>1. PICK c \in Commands : /\ (CommandStep(c) /\ UNCHANGED updateVars) \/ UpdateStep(c)
                              /\ UNCHANGED setupVars
    BY <1>2 DEF RunCommand
  <2>2. CASE CommandStep(c) /\ UNCHANGED updateVars
    <3>1. Updating' = Updating /\ \A d \in Updating : command'[d] = command[d]
      BY <2>1, <2>2, CommandIsNoUpdate
    <3>2. UNCHANGED <<program, download, meeting>>
      BY <2>2 DEF updateVars
    <3> QED
      BY <3>1, <3>2 DEF UpdateInv, Held
  <2> QED
    BY <2>1, <2>2, ProgramKept
<1>3. CASE Tick /\ UNCHANGED <<setupVars, updateVars, overtaken>>
  BY <1>3 DEF Tick, updateVars, UpdateInv, Updating, Held
<1>4. CASE Crash
  <2>1. UNCHANGED <<program, download, meeting>> /\ command' = [c \in Commands |-> NoCommand]
    BY <1>4 DEF Crash, updateVars
  <2>2. Updating' = {}
    BY <2>1, NoCommandIsCommand DEF Updating
  <2> QED
    BY <2>1, <2>2 DEF UpdateInv
<1>5. CASE UNCHANGED vars
  BY <1>5 DEF vars, backupVars, updateVars, UpdateInv, Updating, Held
<1>6. CASE LateStatement
  BY <1>6 DEF LateStatement, StatementLands, updateVars, UpdateInv, Updating, Held
<1> QED
  BY <1>1, <1>2, <1>3, <1>4, <1>5, <1>6 DEF Next
----------------------------------------------------------------------------
(***************************************************************************)
(* Rotation bounds the archives                                            *)
(***************************************************************************)
LEMMA NameCounts ==
  ASSUME NEW A \in SUBSET ArchiveNames
  PROVE  /\ IsFiniteSet(A) /\ Cardinality(A) \in Nat
         /\ \A B \in SUBSET A : Cardinality(B) \in Nat /\ Cardinality(B) <= Cardinality(A)
         /\ \A n \in ArchiveNames : /\ Cardinality(A \cup {n}) \in Nat
                                    /\ Cardinality(A \cup {n}) <= Cardinality(A) + 1
<1>1. IsFiniteSet(ArchiveNames)
  BY Constant
<1>2. IsFiniteSet(A)
  BY <1>1, FS_Subset
<1>3. Cardinality(A) \in Nat
  BY <1>2, FS_CardinalityType
<1>4. ASSUME NEW B \in SUBSET A
      PROVE  Cardinality(B) \in Nat /\ Cardinality(B) <= Cardinality(A)
  <2>1. IsFiniteSet(B) /\ Cardinality(B) <= Cardinality(A)
    BY <1>2, FS_Subset
  <2> QED
    BY <2>1, FS_CardinalityType
<1>5. ASSUME NEW n \in ArchiveNames
      PROVE  Cardinality(A \cup {n}) \in Nat /\ Cardinality(A \cup {n}) <= Cardinality(A) + 1
  <2>1. Cardinality(A \cup {n}) = IF n \in A THEN Cardinality(A) ELSE Cardinality(A) + 1
    BY <1>2, FS_AddElement
  <2> QED
    BY <1>3, <2>1
<1> QED
  BY <1>2, <1>3, <1>4, <1>5

LEMMA CommandCounts ==
  ASSUME NEW K \in SUBSET Commands, NEW c \in Commands
  PROVE  /\ IsFiniteSet(K) /\ Cardinality(K) \in Nat
         /\ Cardinality(K \cup {c}) = IF c \in K THEN Cardinality(K) ELSE Cardinality(K) + 1
         /\ Cardinality(K \ {c}) = IF c \in K THEN Cardinality(K) - 1 ELSE Cardinality(K)
         /\ Cardinality(K \ {c}) \in Nat
<1>1. IsFiniteSet(Commands)
  BY Constant
<1>2. IsFiniteSet(K)
  BY <1>1, FS_Subset
<1>3. IsFiniteSet(K \ {c}) /\ Cardinality(K \ {c}) = IF c \in K THEN Cardinality(K) - 1 ELSE Cardinality(K)
  BY <1>2, FS_RemoveElement
<1>4. Cardinality(K \cup {c}) = IF c \in K THEN Cardinality(K) ELSE Cardinality(K) + 1
  BY <1>2, FS_AddElement
<1> QED
  BY <1>2, <1>3, <1>4, FS_CardinalityType

\* What the step of one command does to the counts.
LEMMA SetsAfter ==
  ASSUME NEW c \in Commands, \A d \in Commands \ {c} : command'[d] = command[d]
  PROVE  /\ ToList' = IF command'[c].pc \in {"writing", "rotate"} THEN ToList \cup {c}
                      ELSE ToList \ {c}
         /\ Removing' = IF command'[c].pc = "remove" THEN Removing \cup {c} ELSE Removing \ {c}
         /\ \A d \in Removing \ {c} : command'[d].doomed = command[d].doomed
         /\ command[c].pc # "writing" /\ command'[c].pc # "writing" => Written' = Written
         /\ command[c].pc # "writing" /\ command'[c].pc = "writing"
              => Written' = Written \cup {command'[c].name}
         /\ command[c].pc = "writing" /\ command'[c].pc # "writing"
              => Written' \subseteq Written /\ command[c].name \in Written
<1>1. ToList' = IF command'[c].pc \in {"writing", "rotate"} THEN ToList \cup {c} ELSE ToList \ {c}
  BY DEF ToList
<1>2. Removing' = IF command'[c].pc = "remove" THEN Removing \cup {c} ELSE Removing \ {c}
  BY DEF Removing
<1>3. \A d \in Removing \ {c} : command'[d].doomed = command[d].doomed
  BY DEF Removing
<1>4. \A n : n \in Written <=> \E d \in Commands : command[d].pc = "writing" /\ command[d].name = n
  BY DEF Written
<1>5. \A n : n \in Written' <=> \E d \in Commands : command'[d].pc = "writing" /\ command'[d].name = n
  BY DEF Written
<1>6. ASSUME command[c].pc # "writing", command'[c].pc # "writing"
      PROVE  Written' = Written
  <2>1. \A d \in Commands : \/ command'[d] = command[d]
                            \/ command[d].pc # "writing" /\ command'[d].pc # "writing"
    BY <1>6
  <2>2. ASSUME NEW n PROVE n \in Written' <=> n \in Written
    BY <1>4, <1>5, <2>1
  <2> QED
    BY <2>2
<1>7. ASSUME command[c].pc # "writing", command'[c].pc = "writing"
      PROVE  Written' = Written \cup {command'[c].name}
  <2>1. ASSUME NEW n PROVE n \in Written' <=> n \in Written \cup {command'[c].name}
    BY <1>4, <1>5, <1>7
  <2> QED
    BY <2>1
<1>8. ASSUME command[c].pc = "writing", command'[c].pc # "writing"
      PROVE  Written' \subseteq Written /\ command[c].name \in Written
  BY <1>4, <1>5, <1>8
<1> QED
  BY <1>1, <1>2, <1>3, <1>6, <1>7, <1>8

LEMMA Subsets ==
  ASSUME TypeOK
  PROVE  Stored \in SUBSET ArchiveNames /\ Written \in SUBSET ArchiveNames
         /\ ToList \in SUBSET Commands /\ Removing \in SUBSET Commands /\ unrotated \in Nat
  BY DEF TypeOK, Stored, Written, ToList, Removing, Command

----------------------------------------------------------------------------
\* Names are totally ordered, so only MaxBackups of them have fewer before them.
LEMMA SortsIsTotal ==
  ASSUME NEW m \in ArchiveNames, NEW n \in ArchiveNames
  PROVE  /\ ~Sorts(n, n)
         /\ m # n => Sorts(m, n) \/ Sorts(n, m)
         /\ \A k \in ArchiveNames : Sorts(k, m) /\ Sorts(m, n) => Sorts(k, n)
<1>1. MaxTime \in Nat
  BY Constant
<1>2. \A k \in ArchiveNames : k[1] \in Int /\ k[2] \in BOOLEAN /\ k = <<k[1], k[2]>>
  BY <1>1 DEF ArchiveNames
<1>3. ~Sorts(n, n)
  BY <1>2 DEF Sorts
<1>4. m # n => Sorts(m, n) \/ Sorts(n, m)
  <2>1. m = <<m[1], m[2]>> /\ n = <<n[1], n[2]>>
    BY <1>2
  <2>2. ASSUME m[1] = n[1], m[2] = n[2] PROVE m = n
    BY <2>1, <2>2
  <2> QED
    BY <1>2, <2>2 DEF Sorts
<1>5. \A k \in ArchiveNames : Sorts(k, m) /\ Sorts(m, n) => Sorts(k, n)
  BY <1>2 DEF Sorts
<1> QED
  BY <1>3, <1>4, <1>5

LEMMA ListedLeavesLimit ==
  ASSUME Readable
  PROVE  Cardinality(Stored \ {n \in Stored : Beyond(n)}) <= MaxBackups
<1> DEFINE Before(n) == {m \in Stored : Sorts(m, n)}
           K == Stored \ {n \in Stored : Beyond(n)}
           rank == [n \in K |-> Cardinality(Before(n))]
           Ranks == 0 .. MaxBackups - 1
<1>1. MaxBackups \in Nat \ {0}
  BY Constant
<1>2. Stored \in SUBSET ArchiveNames
  BY DEF Stored
<1>3. \A n \in K : rank[n] \in Ranks
  <2>1. TAKE n \in K
  <2>2. Before(n) \in SUBSET ArchiveNames
    BY <1>2
  <2>3. Cardinality(Before(n)) \in Nat
    BY <2>2, NameCounts
  <2>4. ~(Cardinality(Before(n)) >= MaxBackups)
    BY DEF Beyond, maxBackups
  <2> QED
    BY <1>1, <2>3, <2>4
<1>4. ASSUME NEW m \in K, NEW n \in K, Sorts(m, n)
      PROVE  rank[m] # rank[n]
  <2>1. m \in ArchiveNames /\ n \in ArchiveNames /\ m \in Stored
    BY <1>2
  <2>2. Before(m) \in SUBSET Before(n)
    BY <1>2, <1>4, <2>1, SortsIsTotal
  <2>3. m \in Before(n) /\ m \notin Before(m)
    BY <1>4, <2>1, SortsIsTotal
  <2>4. Before(n) \in SUBSET ArchiveNames
    BY <1>2
  <2>5. IsFiniteSet(Before(n))
    BY <2>4, NameCounts
  <2>6. Cardinality(Before(n)) # Cardinality(Before(m))
    <3>1. Cardinality(Before(n)) = Cardinality(Before(m)) => Before(n) = Before(m)
      BY <2>2, <2>5, FS_Subset
    <3>2. Before(n) # Before(m)
      BY <2>3
    <3> HIDE DEF Before
    <3> QED
      BY <3>1, <3>2
  <2> QED
    BY <2>6
<1>5. ASSUME NEW m \in K, NEW n \in K, m # n
      PROVE  rank[m] # rank[n]
  <2>1. m \in ArchiveNames /\ n \in ArchiveNames
    BY <1>2
  <2>2. Sorts(m, n) \/ Sorts(n, m)
    BY <1>5, <2>1, SortsIsTotal
  <2> HIDE DEF K, rank
  <2> QED
    BY <1>4, <2>2
<1>6. rank \in Injection(K, Ranks)
  <2>1. rank \in [K -> Ranks]
    BY <1>3
  <2>2. \A m, n \in K : m # n => rank[m] # rank[n]
    BY <1>5
  <2> HIDE DEF K, rank, Ranks
  <2> QED
    BY <2>1, <2>2 DEF Injection, IsInjective
<1>7. IsFiniteSet(Ranks) /\ Cardinality(Ranks) = MaxBackups
  <2>1. 0 \in Int /\ MaxBackups - 1 \in Int
    BY <1>1
  <2>2. /\ IsFiniteSet(Ranks)
        /\ Cardinality(Ranks) = IF 0 > MaxBackups - 1 THEN 0 ELSE MaxBackups - 1 - 0 + 1
    BY <2>1, FS_Interval
  <2> QED
    BY <1>1, <2>2
<1>8. Cardinality(K) <= Cardinality(Ranks)
  <2> HIDE DEF K, rank, Ranks
  <2> QED
    BY <1>6, <1>7, FS_Injection
<1> QED
  BY <1>7, <1>8

\* A command that writes has yet to list.
LEMMA WrittenAreToList ==
  ASSUME NEW c \in Commands, command[c].pc # "writing"
  PROVE  Cardinality(Written) <= Cardinality(ToList \ {c})
<1> DEFINE Writers == {d \in Commands : command[d].pc = "writing"}
           f == [d \in Writers |-> command[d].name]
<1>1. f \in Surjection(Writers, Written)
  BY DEF Surjection, Written
<1>2. Writers \in SUBSET (ToList \ {c})
  BY DEF ToList
<1>3. IsFiniteSet(ToList \ {c})
  <2>1. ToList \ {c} \in SUBSET Commands
    BY DEF ToList
  <2> QED
    BY <2>1, CommandCounts
<1>4. /\ IsFiniteSet(Writers) /\ Cardinality(Writers) <= Cardinality(ToList \ {c})
  BY <1>2, <1>3, FS_Subset
<1>5. IsFiniteSet(Written) /\ Cardinality(Written) <= Cardinality(Writers)
  <2> HIDE DEF f, Writers
  <2> QED
    BY <1>1, <1>4, FS_Surjection
<1>6. /\ Cardinality(Written) \in Nat /\ Cardinality(Writers) \in Nat
      /\ Cardinality(ToList \ {c}) \in Nat
  <2> HIDE DEF Writers
  <2> QED
    BY <1>3, <1>4, <1>5, FS_CardinalityType
<1> HIDE DEF Writers
<1> QED
  BY <1>4, <1>5, <1>6
----------------------------------------------------------------------------
LEMMA RoomIsNat ==
  ASSUME TypeOK, NEW R
  PROVE  Room(R) \in Nat
<1>1. Removing \ R \in SUBSET Commands /\ ToList \in SUBSET Commands
  BY Subsets
<1>2. Cardinality(Removing \ R) \in Nat /\ Cardinality(ToList) \in Nat
  <2>1. IsFiniteSet(Commands)
    BY Constant
  <2>2. IsFiniteSet(Removing \ R) /\ IsFiniteSet(ToList)
    BY <1>1, <2>1, FS_Subset
  <2> QED
    BY <2>2, FS_CardinalityType
<1>3. MaxBackups \in Nat /\ unrotated \in Nat
  BY Constant DEF TypeOK
<1> QED
  BY <1>2, <1>3 DEF Room

LEMMA RoomStaysNat ==
  ASSUME TypeOK', NEW R
  PROVE  Room(R)' \in Nat
<1>1. Removing' \ R \in SUBSET Commands /\ ToList' \in SUBSET Commands
  BY DEF Removing, ToList
<1>2. Cardinality(Removing' \ R) \in Nat /\ Cardinality(ToList') \in Nat
  <2>1. IsFiniteSet(Commands)
    BY Constant
  <2>2. IsFiniteSet(Removing' \ R) /\ IsFiniteSet(ToList')
    BY <1>1, <2>1, FS_Subset
  <2> QED
    BY <2>2, FS_CardinalityType
<1>3. MaxBackups \in Nat /\ unrotated' \in Nat
  BY Constant DEF TypeOK
<1> QED
  BY <1>2, <1>3 DEF Room

\* A step that adds some names and as much room.
LEMMA RoomForMore ==
  ASSUME TypeOK, TypeOK', RotationInv, Removing' = Removing,
         NEW extra \in SUBSET ArchiveNames, NEW grow \in Nat,
         \A A \in SUBSET ArchiveNames :
           Cardinality(A \cup extra) \in Nat /\ Cardinality(A \cup extra) <= Cardinality(A) + grow,
         \A R \in SUBSET Removing : Room(R)' \in Nat /\ Room(R)' >= Room(R) + grow,
         Stored' \cup Written' \subseteq (Stored \cup Written) \cup extra,
         \A d \in Removing : (Stored' \ command'[d].doomed) \cup Written'
                               \subseteq ((Stored \ command[d].doomed) \cup Written) \cup extra
  PROVE  RotationInv'
<1>0. /\ Within(Stored, {})
      /\ \A R \in SUBSET Removing :
           R # {} => \E d \in R : Within(Stored \ command[d].doomed, R)
  BY DEF RotationInv
<1>1. ASSUME NEW A \in SUBSET ArchiveNames, NEW B, B \subseteq A \cup extra,
             NEW R \in SUBSET Removing, Cardinality(A) <= Room(R)
      PROVE  Cardinality(B) <= Room(R)'
  <2>1. Cardinality(A \cup extra) \in Nat /\ Cardinality(A \cup extra) <= Cardinality(A) + grow
    OBVIOUS
  <2>2. A \cup extra \in SUBSET ArchiveNames /\ B \in SUBSET (A \cup extra)
    BY <1>1
  <2>3. Cardinality(B) \in Nat /\ Cardinality(B) <= Cardinality(A \cup extra)
    BY <2>2, NameCounts
  <2>4. Cardinality(A) \in Nat
    BY NameCounts
  <2>5. Room(R) \in Nat /\ Room(R)' \in Nat /\ Room(R)' >= Room(R) + grow
    BY RoomIsNat
  <2> QED
    BY <1>1, <2>1, <2>3, <2>4, <2>5
<1>2. /\ Stored \cup Written \in SUBSET ArchiveNames
      /\ \A d \in Removing : (Stored \ command[d].doomed) \cup Written \in SUBSET ArchiveNames
  BY Subsets
<1>3. Cardinality(Stored' \cup Written') <= Room({})'
  <2>1. Cardinality(Stored \cup Written) <= Room({})
    BY <1>0 DEF Within
  <2> QED
    BY <1>1, <1>2, <2>1
<1>4. ASSUME NEW R \in SUBSET Removing, R # {}
      PROVE  \E d \in R : Cardinality((Stored' \ command'[d].doomed) \cup Written') <= Room(R)'
  <2>1. PICK d \in R : Cardinality((Stored \ command[d].doomed) \cup Written) <= Room(R)
    BY <1>0, <1>4 DEF Within
  <2>2. Cardinality((Stored' \ command'[d].doomed) \cup Written') <= Room(R)'
    BY <1>1, <1>2, <2>1
  <2> QED
    BY <2>2
<1> QED
  BY <1>3, <1>4 DEF RotationInv, Within

\* A step that touches neither the archives nor a backup.
LEMMA RotationUntouched ==
  ASSUME RotationInv, UNCHANGED <<archives, unrotated>>,
         Written' = Written, ToList' = ToList, Removing' = Removing,
         \A d \in Removing : command'[d].doomed = command[d].doomed
  PROVE  RotationInv'
<1>1. Stored' = Stored
  BY DEF Stored
<1>2. \A R : Room(R)' = Room(R)
  BY DEF Room
<1>3. /\ Within(Stored, {})
      /\ \A R \in SUBSET Removing :
           R # {} => \E d \in R : Within(Stored \ command[d].doomed, R)
  BY DEF RotationInv
<1>4. Cardinality(Stored' \cup Written') <= Room({})'
  BY <1>1, <1>2, <1>3 DEF Within
<1>5. ASSUME NEW R \in SUBSET Removing, R # {}
      PROVE  \E d \in R : Cardinality((Stored' \ command'[d].doomed) \cup Written') <= Room(R)'
  <2>1. PICK d \in R : Cardinality((Stored \ command[d].doomed) \cup Written) <= Room(R)
    BY <1>3, <1>5 DEF Within
  <2>2. command'[d].doomed = command[d].doomed
    OBVIOUS
  <2> QED
    BY <1>1, <1>2, <2>1, <2>2
<1> QED
  BY <1>4, <1>5 DEF RotationInv, Within
\* A new file adds a name, and the command has its listing before it.
LEMMA BeginWriteRotation ==
  ASSUME TypeOK, TypeOK', RotationInv, NEW c \in Commands, BeginWrite(c)
  PROVE  RotationInv'
<1> DEFINE n == command[c].name
<1>0. archives \in [ArchiveNames -> Content \cup {Torn, NoArchive, Cut}]
  BY DEF TypeOK
<1>1. /\ \A d \in Commands \ {c} : command'[d] = command[d]
      /\ command[c].pc = "write" /\ command'[c].pc = "writing" /\ command'[c].name = n
      /\ n \in ArchiveNames
  BY BeginWriteEffect
<1>2. archives' = [archives EXCEPT ![n] = Cut] /\ unrotated' = unrotated
  BY DEF BeginWrite
<1>3. /\ ToList' = ToList \cup {c} /\ c \notin ToList
      /\ Removing' = Removing /\ Written' = Written \cup {n}
      /\ \A d \in Removing : command'[d].doomed = command[d].doomed
  <2>1. c \notin ToList /\ c \notin Removing
    BY <1>1 DEF ToList, Removing
  <2>2. /\ ToList' = ToList \cup {c} /\ Removing' = Removing \ {c}
        /\ \A d \in Removing \ {c} : command'[d].doomed = command[d].doomed
    BY <1>1, SetsAfter
  <2>3. Written' = Written \cup {command'[c].name}
    BY <1>1, SetsAfter
  <2>4. Removing \ {c} = Removing
    BY <2>1
  <2> QED
    BY <1>1, <2>1, <2>2, <2>3, <2>4
<1>4. Stored' \subseteq Stored \cup {n}
  BY <1>0, <1>2 DEF Stored
<1>5. ASSUME NEW R \in SUBSET Removing
      PROVE  Room(R)' \in Nat /\ Room(R)' >= Room(R) + 1
  <2>1. Cardinality(ToList \cup {c}) = Cardinality(ToList) + 1
    <3>1. ToList \in SUBSET Commands
      BY Subsets
    <3> QED
      BY <1>3, <3>1, CommandCounts
  <2>2. Room(R)' = MaxBackups + unrotated + Cardinality(ToList \cup {c}) + Cardinality(Removing \ R)
    BY <1>2, <1>3 DEF Room
  <2>3. Cardinality(ToList) \in Nat /\ Cardinality(Removing \ R) \in Nat
    <3>1. ToList \in SUBSET Commands /\ Removing \ R \in SUBSET Commands
      BY Subsets
    <3> QED
      BY <3>1, CommandCounts
  <2>4. MaxBackups \in Nat /\ unrotated \in Nat
    BY Constant DEF TypeOK
  <2> QED
    BY <2>1, <2>2, <2>3, <2>4 DEF Room
<1>6. \A A \in SUBSET ArchiveNames : /\ Cardinality(A \cup {n}) \in Nat
                                     /\ Cardinality(A \cup {n}) <= Cardinality(A) + 1
  BY <1>1, NameCounts
<1>7. Stored' \cup Written' \subseteq (Stored \cup Written) \cup {n}
  BY <1>3, <1>4
<1>8. \A d \in Removing : (Stored' \ command'[d].doomed) \cup Written'
                            \subseteq ((Stored \ command[d].doomed) \cup Written) \cup {n}
  BY <1>3, <1>4
<1>9. 1 \in Nat /\ {n} \in SUBSET ArchiveNames
  BY <1>1
<1> HIDE DEF n
<1> QED
  BY <1>3, <1>5, <1>6, <1>7, <1>8, <1>9, RoomForMore

LEMMA EndWriteRotation ==
  ASSUME TypeOK, TypeOK', RotationInv, NEW c \in Commands, EndWrite(c)
  PROVE  RotationInv'
<1> DEFINE n == command[c].name
<1>0. archives \in [ArchiveNames -> Content \cup {Torn, NoArchive, Cut}]
  BY DEF TypeOK
<1>1. /\ \A d \in Commands \ {c} : command'[d] = command[d]
      /\ command[c].pc = "writing" /\ command'[c].pc = "rotate" /\ n \in ArchiveNames
  BY EndWriteEffect
<1>2. unrotated' = unrotated /\ \E a : archives' = [archives EXCEPT ![n] = a]
  BY DEF EndWrite
<1>3. /\ ToList' = ToList /\ Removing' = Removing /\ Written' \subseteq Written /\ n \in Written
      /\ \A d \in Removing : command'[d].doomed = command[d].doomed
  <2>1. c \in ToList /\ c \notin Removing
    BY <1>1 DEF ToList, Removing
  <2>2. /\ ToList' = ToList \cup {c} /\ Removing' = Removing \ {c}
        /\ \A d \in Removing \ {c} : command'[d].doomed = command[d].doomed
    BY <1>1, SetsAfter
  <2>3. Written' \subseteq Written /\ command[c].name \in Written
    BY <1>1, SetsAfter
  <2>4. Removing \ {c} = Removing /\ ToList \cup {c} = ToList
    BY <2>1
  <2> QED
    BY <2>2, <2>3, <2>4
<1>4. Stored' \subseteq Stored \cup {n}
  BY <1>0, <1>2 DEF Stored
<1>5. ASSUME NEW R \in SUBSET Removing
      PROVE  Room(R)' \in Nat /\ Room(R)' >= Room(R) + 0
  <2>1. Room(R)' = Room(R)
    BY <1>2, <1>3 DEF Room
  <2> QED
    BY <2>1, RoomIsNat
<1>6. \A A \in SUBSET ArchiveNames : /\ Cardinality(A \cup {}) \in Nat
                                     /\ Cardinality(A \cup {}) <= Cardinality(A) + 0
  <2>1. TAKE A \in SUBSET ArchiveNames
  <2>2. Cardinality(A) \in Nat /\ A \cup {} = A
    BY NameCounts
  <2> QED
    BY <2>2
<1>7. Stored' \cup Written' \subseteq (Stored \cup Written) \cup {}
  BY <1>3, <1>4
<1>8. \A d \in Removing : (Stored' \ command'[d].doomed) \cup Written'
                            \subseteq ((Stored \ command[d].doomed) \cup Written) \cup {}
  BY <1>3, <1>4
<1>9. 0 \in Nat /\ {} \in SUBSET ArchiveNames
  OBVIOUS
<1> QED
  BY <1>3, <1>5, <1>6, <1>7, <1>8, <1>9, RoomForMore

\* A backup that fails as it writes has left a file that no rotation follows.
LEMMA BackupFailsRotation ==
  ASSUME TypeOK, TypeOK', RotationInv, NEW c \in Commands, BackupFails(c)
  PROVE  RotationInv'
<1>1. /\ \A d \in Commands \ {c} : command'[d] = command[d]
      /\ command[c].pc \in {"copy", "copying", "write", "writing"} /\ command'[c].pc = "idle"
      /\ archives' = archives
      /\ unrotated' = IF command[c].pc = "writing" THEN unrotated + 1 ELSE unrotated
  <2>1. Finished(c)
    BY DEF BackupFails
  <2> QED
    BY <2>1, FinishedEffect DEF BackupFails
<1>2. c \notin Removing
  BY <1>1 DEF Removing
<1>3. /\ ToList' = ToList \ {c} /\ Removing' = Removing
      /\ \A d \in Removing : command'[d].doomed = command[d].doomed
  BY <1>1, <1>2, SetsAfter
<1>4. CASE command[c].pc # "writing"
  <2>1. c \notin ToList
    BY <1>1, <1>4 DEF ToList
  <2>2. Written' = Written
    BY <1>1, <1>4, SetsAfter
  <2> QED
    BY <1>1, <1>3, <1>4, <2>1, <2>2, RotationUntouched
<1>5. CASE command[c].pc = "writing"
  <2>1. c \in ToList
    BY <1>5 DEF ToList
  <2>2. Written' \subseteq Written
    BY <1>1, <1>5, SetsAfter
  <2>3. Stored' = Stored
    BY <1>1 DEF Stored
  <2>4. ASSUME NEW R \in SUBSET Removing
        PROVE  Room(R)' \in Nat /\ Room(R)' >= Room(R) + 0
    <3>1. Cardinality(ToList \ {c}) = Cardinality(ToList) - 1 /\ Cardinality(ToList) \in Nat
      <4>1. ToList \in SUBSET Commands
        BY Subsets
      <4> QED
        BY <2>1, <4>1, CommandCounts
    <3>2. Room(R)' = MaxBackups + (unrotated + 1) + Cardinality(ToList \ {c}) + Cardinality(Removing \ R)
      BY <1>1, <1>3, <1>5 DEF Room
    <3>3. Cardinality(Removing \ R) \in Nat
      <4>1. Removing \ R \in SUBSET Commands
        BY Subsets
      <4> QED
        BY <4>1, CommandCounts
    <3>4. MaxBackups \in Nat /\ unrotated \in Nat
      BY Constant DEF TypeOK
    <3> QED
      BY <3>1, <3>2, <3>3, <3>4 DEF Room
  <2>5. \A A \in SUBSET ArchiveNames : /\ Cardinality(A \cup {}) \in Nat
                                       /\ Cardinality(A \cup {}) <= Cardinality(A) + 0
    <3>1. TAKE A \in SUBSET ArchiveNames
    <3>2. Cardinality(A) \in Nat /\ A \cup {} = A
      BY NameCounts
    <3> QED
      BY <3>2
  <2>6. Stored' \cup Written' \subseteq (Stored \cup Written) \cup {}
    BY <2>2, <2>3
  <2>7. \A d \in Removing : (Stored' \ command'[d].doomed) \cup Written'
                              \subseteq ((Stored \ command[d].doomed) \cup Written) \cup {}
    BY <1>3, <2>2, <2>3
  <2>8. 0 \in Nat /\ {} \in SUBSET ArchiveNames
    OBVIOUS
  <2> QED
    BY <1>3, <2>4, <2>5, <2>6, <2>7, <2>8, RoomForMore
<1> QED
  BY <1>4, <1>5
\* Listing: what remains is within the limit, but for what others are writing,
\* who have their listing before them.
LEMMA ListRotation ==
  ASSUME TypeOK, TypeOK', RotationInv, NEW c \in Commands, ListForRotation(c)
  PROVE  RotationInv'
<1> DEFINE doomed == {n \in Stored : Beyond(n)}
<1>1. doomed \in SUBSET ArchiveNames
  BY DEF Stored
<1>2. /\ command[c].pc = "rotate" /\ GoOnRemoving(c, doomed) /\ archives' = archives
      /\ unrotated' = IF Readable THEN unrotated ELSE unrotated + 1
  BY DEF ListForRotation
<1>3. /\ \A d \in Commands \ {c} : command'[d] = command[d]
      /\ IF doomed = {} THEN command'[c].pc = "idle"
         ELSE command'[c].pc = "remove" /\ command'[c].doomed = doomed
  <2> HIDE DEF doomed
  <2> QED
    BY <1>1, <1>2, GoOnRemovingEffect
<1> HIDE DEF doomed
<1>4. c \in ToList /\ c \notin Removing
  BY <1>2 DEF ToList, Removing
<1>5. /\ ToList' = ToList \ {c} /\ Written' = Written /\ Stored' = Stored
      /\ Removing' = IF doomed = {} THEN Removing ELSE Removing \cup {c}
      /\ \A d \in Removing : command'[d].doomed = command[d].doomed
  <2>1. command'[c].pc \notin {"writing", "rotate"} /\ command[c].pc # "writing"
    BY <1>2, <1>3
  <2>2. ToList' = ToList \ {c} /\ Written' = Written
    BY <1>3, <2>1, SetsAfter
  <2>3. Removing' = IF doomed = {} THEN Removing ELSE Removing \cup {c}
    <3>1. Removing' = IF command'[c].pc = "remove" THEN Removing \cup {c} ELSE Removing \ {c}
      BY <1>3, SetsAfter
    <3>2. Removing \ {c} = Removing
      BY <1>4
    <3>3. (command'[c].pc = "remove") <=> (doomed # {})
      BY <1>3
    <3> QED
      BY <3>1, <3>2, <3>3
  <2>4. \A d \in Removing : command'[d].doomed = command[d].doomed
    BY <1>3, <1>4, SetsAfter
  <2>5. Stored' = Stored
    BY <1>2 DEF Stored
  <2> QED
    BY <2>2, <2>3, <2>4, <2>5
<1>6. /\ Within(Stored, {})
      /\ \A R \in SUBSET Removing :
           R # {} => \E d \in R : Within(Stored \ command[d].doomed, R)
  BY DEF RotationInv
<1>7. /\ MaxBackups \in Nat /\ unrotated \in Nat /\ unrotated' \in Nat
      /\ Cardinality(ToList) \in Nat /\ Cardinality(ToList \ {c}) = Cardinality(ToList) - 1
      /\ \A R : Cardinality(Removing \ R) \in Nat /\ Cardinality(Removing' \ R) \in Nat
  <2>1. MaxBackups \in Nat /\ unrotated \in Nat /\ unrotated' \in Nat
    BY Constant DEF TypeOK
  <2>2. ToList \in SUBSET Commands /\ Removing \in SUBSET Commands
    BY Subsets
  <2>3. Removing' \in SUBSET Commands
    BY <1>5, <2>2
  <2>4. Cardinality(ToList) \in Nat /\ Cardinality(ToList \ {c}) = Cardinality(ToList) - 1
    BY <1>4, <2>2, CommandCounts
  <2>5. ASSUME NEW R PROVE Cardinality(Removing \ R) \in Nat /\ Cardinality(Removing' \ R) \in Nat
    <3>1. Removing \ R \in SUBSET Commands /\ Removing' \ R \in SUBSET Commands
      BY <2>2, <2>3
    <3> QED
      BY <3>1, CommandCounts
  <2> QED
    BY <2>1, <2>4, <2>5
<1>8. \A R : Room(R)' = MaxBackups + unrotated' + (Cardinality(ToList) - 1) + Cardinality(Removing' \ R)
  BY <1>5, <1>7 DEF Room
<1>9. ASSUME NEW A \in SUBSET ArchiveNames, NEW B \in SUBSET A
      PROVE  /\ Cardinality(A) \in Nat /\ Cardinality(B) \in Nat
             /\ Cardinality(B) <= Cardinality(A)
  BY NameCounts
<1>10. Stored \in SUBSET ArchiveNames /\ Written \in SUBSET ArchiveNames
  BY Subsets
\* If the limit could be read, what is left fits it.
<1>11. ASSUME Readable
       PROVE  \A R : Cardinality((Stored \ doomed) \cup Written) <= Room(R)'
  <2>1. Cardinality(Stored \ doomed) <= MaxBackups
    BY <1>11, ListedLeavesLimit DEF doomed
  <2>2. Cardinality(Written) <= Cardinality(ToList) - 1
    BY <1>2, <1>7, WrittenAreToList
  <2>3. IsFiniteSet(Stored \ doomed) /\ IsFiniteSet(Written)
    <3>1. Stored \ doomed \in SUBSET ArchiveNames
      BY <1>10
    <3> QED
      BY <1>10, <3>1, NameCounts
  <2>4. /\ Cardinality((Stored \ doomed) \cup Written) =
             Cardinality(Stored \ doomed) + Cardinality(Written)
               - Cardinality((Stored \ doomed) \cap Written)
        /\ Cardinality(Stored \ doomed) \in Nat /\ Cardinality(Written) \in Nat
        /\ Cardinality((Stored \ doomed) \cap Written) \in Nat
    <3>1. Cardinality((Stored \ doomed) \cup Written) =
             Cardinality(Stored \ doomed) + Cardinality(Written)
               - Cardinality((Stored \ doomed) \cap Written)
      BY <2>3, FS_Union
    <3>2. (Stored \ doomed) \cap Written \in SUBSET Written
      OBVIOUS
    <3>3. IsFiniteSet((Stored \ doomed) \cap Written)
      BY <2>3, <3>2, FS_Subset
    <3> QED
      BY <2>3, <3>1, <3>3, FS_CardinalityType
  <2>5. TAKE R
  <2>6. Room(R)' = MaxBackups + unrotated' + (Cardinality(ToList) - 1) + Cardinality(Removing' \ R)
    BY <1>8
  <2>7. Cardinality(Removing' \ R) \in Nat
    BY <1>7
  <2> QED
    BY <1>7, <2>1, <2>2, <2>4, <2>6, <2>7
\* If not, what is left was there before.
<1>12. ASSUME ~Readable
       PROVE  \A R : Room(R)' = MaxBackups + unrotated + Cardinality(ToList) + Cardinality(Removing' \ R)
  <2>1. unrotated' = unrotated + 1
    BY <1>2, <1>12
  <2>2. TAKE R
  <2>3. Room(R)' = MaxBackups + unrotated' + (Cardinality(ToList) - 1) + Cardinality(Removing' \ R)
    BY <1>8
  <2>4. Cardinality(Removing' \ R) \in Nat
    BY <1>7
  <2> QED
    BY <1>7, <2>1, <2>3, <2>4
<1>13. Cardinality(Stored' \cup Written') <= Room({})'
  <2>1. CASE doomed = {}
    <3>1. CASE Readable
      <4>1. Stored \ doomed = Stored
        BY <2>1
      <4> QED
        BY <1>5, <1>11, <3>1, <4>1
    <3>2. CASE ~Readable
      <4>1. Room({})' = Room({})
        BY <1>5, <1>12, <2>1, <3>2 DEF Room
      <4> QED
        BY <1>5, <1>6, <4>1 DEF Within
    <3> QED
      BY <3>1, <3>2
  <2>2. CASE doomed # {}
    <3>1. Cardinality(Removing' \ {}) = Cardinality(Removing \ {}) + 1
      <4>1. Removing \in SUBSET Commands
        BY Subsets
      <4>2. Cardinality(Removing \cup {c}) = Cardinality(Removing) + 1
        BY <1>4, <4>1, CommandCounts
      <4>3. Removing' \ {} = Removing \cup {c} /\ Removing \ {} = Removing
        BY <1>5, <2>2
      <4> QED
        BY <4>2, <4>3
    <3>2. Room({})' = MaxBackups + unrotated' + (Cardinality(ToList) - 1) + (Cardinality(Removing \ {}) + 1)
      BY <1>8, <3>1
    <3>3. unrotated' >= unrotated
      BY <1>2, <1>7
    <3>4. Cardinality(Removing \ {}) \in Nat
      BY <1>7
    <3>5. Room({})' >= Room({}) /\ Room({})' \in Nat /\ Room({}) \in Nat
      BY <1>7, <3>2, <3>3, <3>4 DEF Room
    <3>6. Cardinality(Stored \cup Written) <= Room({}) /\ Cardinality(Stored \cup Written) \in Nat
      <4>1. Stored \cup Written \in SUBSET ArchiveNames
        BY <1>10
      <4> QED
        BY <1>6, <4>1, NameCounts DEF Within
    <3> QED
      BY <1>5, <3>5, <3>6
  <2> QED
    BY <2>1, <2>2
<1>14. ASSUME NEW R \in SUBSET Removing', R # {}
       PROVE  \E d \in R : Cardinality((Stored' \ command'[d].doomed) \cup Written') <= Room(R)'
  <2>1. CASE doomed = {}
    <3>1. Removing' = Removing
      BY <1>5, <2>1
    <3>2. CASE Readable
      <4>1. PICK d \in R : TRUE
        BY <1>14
      <4>2. (Stored' \ command'[d].doomed) \cup Written' \subseteq (Stored \ doomed) \cup Written
        BY <1>5, <2>1
      <4>3. (Stored \ doomed) \cup Written \in SUBSET ArchiveNames
        BY <1>10
      <4>4. Cardinality((Stored \ doomed) \cup Written) <= Room(R)' /\ Room(R)' \in Nat
        BY <1>11, <3>2, RoomStaysNat
      <4>5. /\ Cardinality((Stored' \ command'[d].doomed) \cup Written') \in Nat
            /\ Cardinality((Stored \ doomed) \cup Written) \in Nat
            /\ Cardinality((Stored' \ command'[d].doomed) \cup Written')
                 <= Cardinality((Stored \ doomed) \cup Written)
        BY <4>2, <4>3, NameCounts
      <4>6. Cardinality((Stored' \ command'[d].doomed) \cup Written') <= Room(R)'
        BY <4>4, <4>5
      <4> QED
        BY <4>6
    <3>3. CASE ~Readable
      <4>1. Room(R)' = Room(R)
        BY <1>12, <3>1, <3>3 DEF Room
      <4>2. PICK d \in R : Cardinality((Stored \ command[d].doomed) \cup Written) <= Room(R)
        BY <1>6, <1>14, <3>1 DEF Within
      <4> QED
        BY <1>5, <3>1, <4>1, <4>2
    <3> QED
      BY <3>2, <3>3
  <2>2. CASE doomed # {} /\ c \notin R
    <3>1. R \in SUBSET Removing
      BY <1>5, <2>2
    <3>2. Cardinality(Removing' \ R) = Cardinality(Removing \ R) + 1
      <4>1. Removing \ R \in SUBSET Commands /\ c \notin Removing \ R
        BY <1>4, Subsets
      <4>2. Cardinality((Removing \ R) \cup {c}) = Cardinality(Removing \ R) + 1
        BY <4>1, CommandCounts
      <4>3. Removing' \ R = (Removing \ R) \cup {c}
        BY <1>5, <2>2
      <4> QED
        BY <4>2, <4>3
    <3>3. Room(R)' >= Room(R) /\ Room(R)' \in Nat /\ Room(R) \in Nat
      <4>1. Room(R)' = MaxBackups + unrotated' + (Cardinality(ToList) - 1) + (Cardinality(Removing \ R) + 1)
        BY <1>8, <3>2
      <4>2. unrotated' >= unrotated
        BY <1>2, <1>7
      <4>3. Cardinality(Removing \ R) \in Nat
        BY <1>7
      <4> QED
        BY <1>7, <4>1, <4>2, <4>3 DEF Room
    <3>4. PICK d \in R : Cardinality((Stored \ command[d].doomed) \cup Written) <= Room(R)
      BY <1>6, <1>14, <3>1 DEF Within
    <3>5. Cardinality((Stored \ command[d].doomed) \cup Written) \in Nat
      <4>1. (Stored \ command[d].doomed) \cup Written \in SUBSET ArchiveNames
        BY <1>10
      <4> QED
        BY <4>1, NameCounts
    <3>6. (Stored' \ command'[d].doomed) \cup Written' = (Stored \ command[d].doomed) \cup Written
      BY <1>5, <3>1
    <3>7. Cardinality((Stored' \ command'[d].doomed) \cup Written') <= Room(R)'
      BY <3>3, <3>4, <3>5, <3>6
    <3> QED
      BY <3>7
  <2>3. CASE doomed # {} /\ c \in R
    <3>1. (Stored' \ command'[c].doomed) \cup Written' = (Stored \ doomed) \cup Written
      BY <1>3, <1>5, <2>3
    <3>2. CASE Readable
      BY <1>11, <2>3, <3>1, <3>2
    <3>3. CASE ~Readable
      <4> DEFINE Q == R \ {c}
      <4>1. Removing' \ R = Removing \ Q /\ Q \in SUBSET Removing
        BY <1>4, <1>5, <2>3
      <4>2. Room(R)' = Room(Q)
        BY <1>12, <3>3, <4>1 DEF Room
      <4>3. CASE Q = {}
        <5>1. Stored \cup Written \in SUBSET ArchiveNames
          BY <1>10
        <5>2. (Stored \ doomed) \cup Written \in SUBSET (Stored \cup Written)
          OBVIOUS
        <5>3. /\ Cardinality((Stored \ doomed) \cup Written) \in Nat
              /\ Cardinality(Stored \cup Written) \in Nat
              /\ Cardinality((Stored \ doomed) \cup Written) <= Cardinality(Stored \cup Written)
          BY <1>9, <5>1, <5>2
        <5>4. Cardinality(Stored \cup Written) <= Room(R)'
          BY <1>6, <4>2, <4>3 DEF Within
        <5>5. Room(R)' \in Nat
          BY <4>2, RoomIsNat
        <5>6. Cardinality((Stored \ doomed) \cup Written) <= Room(R)'
          BY <5>3, <5>4, <5>5
        <5>7. Cardinality((Stored' \ command'[c].doomed) \cup Written') <= Room(R)'
          BY <3>1, <5>6
        <5> QED
          BY <2>3, <5>7
      <4>4. CASE Q # {}
        <5>1. PICK d \in Q : Cardinality((Stored \ command[d].doomed) \cup Written) <= Room(Q)
          BY <1>6, <4>1, <4>4 DEF Within
        <5>2. d \in R /\ command'[d].doomed = command[d].doomed
          BY <1>5, <4>1
        <5> HIDE DEF Q
        <5> QED
          BY <1>5, <4>2, <5>1, <5>2
      <4> QED
        BY <4>3, <4>4
    <3> QED
      BY <3>2, <3>3
  <2> QED
    BY <2>1, <2>2, <2>3
<1> QED
  BY <1>13, <1>14 DEF RotationInv, Within
\* What has been removed is gone for every command.
LEMMA RemoveRotation ==
  ASSUME TypeOK, TypeOK', RotationInv, NEW c \in Commands, NEW n \in ArchiveNames,
         RemoveArchive(c, n)
  PROVE  RotationInv'
<1> DEFINE rest == command[c].doomed \ {n}
<1>0. /\ archives \in [ArchiveNames -> Content \cup {Torn, NoArchive, Cut}]
      /\ command[c] \in Command
  BY DEF TypeOK
<1>1. /\ command[c].pc = "remove" /\ n \in command[c].doomed /\ GoOnRemoving(c, rest)
      /\ archives' = [archives EXCEPT ![n] = NoArchive] /\ unrotated' = unrotated
  BY DEF RemoveArchive
<1>2. rest \in SUBSET ArchiveNames
  BY <1>0 DEF Command
<1>3. /\ \A d \in Commands \ {c} : command'[d] = command[d]
      /\ IF rest = {} THEN command'[c].pc = "idle"
         ELSE command'[c].pc = "remove" /\ command'[c].doomed = rest
  <2> HIDE DEF rest
  <2> QED
    BY <1>1, <1>2, GoOnRemovingEffect
<1>4. c \in Removing /\ c \notin ToList
  BY <1>1 DEF Removing, ToList
<1>5. Stored' = Stored \ {n}
  BY <1>0, <1>1 DEF Stored
<1>6. /\ ToList' = ToList /\ Written' = Written
      /\ Removing' = IF rest = {} THEN Removing \ {c} ELSE Removing
      /\ \A d \in Removing \ {c} : command'[d].doomed = command[d].doomed
  <2> HIDE DEF rest
  <2>1. command'[c].pc \in {"idle", "remove"}
    BY <1>3
  <2>2. ToList' = ToList \ {c} /\ Written' = Written
    BY <1>1, <1>3, <2>1, SetsAfter
  <2>3. Removing' = IF command'[c].pc = "remove" THEN Removing \cup {c} ELSE Removing \ {c}
    BY <1>3, SetsAfter
  <2>4. (command'[c].pc = "remove") <=> (rest # {})
    BY <1>3
  <2>5. ToList \ {c} = ToList /\ Removing \cup {c} = Removing
    BY <1>4
  <2>6. \A d \in Removing \ {c} : command'[d].doomed = command[d].doomed
    BY <1>3, SetsAfter
  <2> QED
    BY <2>2, <2>3, <2>4, <2>5, <2>6
<1>7. /\ Within(Stored, {})
      /\ \A R \in SUBSET Removing :
           R # {} => \E d \in R : Within(Stored \ command[d].doomed, R)
  BY DEF RotationInv
<1>8. ASSUME NEW A \in SUBSET ArchiveNames, NEW B, B \subseteq A, NEW r \in Nat, Cardinality(A) <= r
      PROVE  Cardinality(B) <= r
  <2>1. /\ Cardinality(A) \in Nat /\ Cardinality(B) \in Nat
        /\ Cardinality(B) <= Cardinality(A)
    BY <1>8, NameCounts
  <2> QED
    BY <1>8, <2>1
<1>9. Stored \in SUBSET ArchiveNames /\ Written \in SUBSET ArchiveNames
  BY Subsets
<1>10. CASE rest # {}
  <2>1. Removing' = Removing
    BY <1>6, <1>10
  <2>2. \A d \in Removing : (Stored' \ command'[d].doomed) \cup Written'
                              \subseteq ((Stored \ command[d].doomed) \cup Written) \cup {}
    <3>1. TAKE d \in Removing
    <3>2. CASE d = c
      BY <1>1, <1>3, <1>5, <1>6, <1>10, <3>2
    <3>3. CASE d # c
      BY <1>5, <1>6, <3>3
    <3> QED
      BY <3>2, <3>3
  <2>3. Stored' \cup Written' \subseteq (Stored \cup Written) \cup {}
    BY <1>5, <1>6
  <2>4. ASSUME NEW R \in SUBSET Removing
        PROVE  Room(R)' \in Nat /\ Room(R)' >= Room(R) + 0
    <3>1. Room(R)' = Room(R)
      BY <1>1, <1>6, <2>1 DEF Room
    <3> QED
      BY <3>1, RoomIsNat
  <2>5. \A A \in SUBSET ArchiveNames : /\ Cardinality(A \cup {}) \in Nat
                                       /\ Cardinality(A \cup {}) <= Cardinality(A) + 0
    <3>1. TAKE A \in SUBSET ArchiveNames
    <3>2. Cardinality(A) \in Nat /\ A \cup {} = A
      BY NameCounts
    <3> QED
      BY <3>2
  <2>6. 0 \in Nat /\ {} \in SUBSET ArchiveNames
    OBVIOUS
  <2> QED
    BY <2>1, <2>2, <2>3, <2>4, <2>5, <2>6, RoomForMore
<1>11. CASE rest = {}
  <2>1. Removing' = Removing \ {c} /\ command[c].doomed = {n}
    BY <1>1, <1>6, <1>11
  <2>2. \A R : Room(R)' = Room(R \cup {c})
    <3>1. \A R : Removing' \ R = Removing \ (R \cup {c})
      BY <2>1
    <3> QED
      BY <1>1, <1>6, <3>1 DEF Room
  <2>3. \A R : Room(R)' \in Nat
    BY RoomStaysNat
  <2>4. Cardinality(Stored' \cup Written') <= Room({})'
    <3>1. Within(Stored \ command[c].doomed, {c})
      <4>1. {c} \in SUBSET Removing /\ {c} # {}
        BY <1>4
      <4>2. \E d \in {c} : Within(Stored \ command[d].doomed, {c})
        BY <1>7, <4>1
      <4> QED
        BY <4>2
    <3>2. Cardinality((Stored \ {n}) \cup Written) <= Room({c})
      BY <2>1, <3>1 DEF Within
    <3>3. Room({})' = Room({c})
      <4>1. {} \cup {c} = {c}
        OBVIOUS
      <4> QED
        BY <2>2, <4>1
    <3> QED
      BY <1>5, <1>6, <3>2, <3>3
  <2>5. ASSUME NEW R \in SUBSET Removing', R # {}
        PROVE  \E d \in R : Cardinality((Stored' \ command'[d].doomed) \cup Written') <= Room(R)'
    <3>1. R \cup {c} \in SUBSET Removing /\ R \cup {c} # {}
      BY <1>4, <2>1
    <3>2. PICK d \in R \cup {c} : Within(Stored \ command[d].doomed, R \cup {c})
      BY <1>7, <3>1
    <3>3. Cardinality((Stored \ command[d].doomed) \cup Written) <= Room(R)'
      BY <2>2, <3>2 DEF Within
    <3>4. (Stored \ command[d].doomed) \cup Written \in SUBSET ArchiveNames
      BY <1>9
    <3>5. CASE d = c
      <4>1. PICK e \in R : TRUE
        BY <2>5
      <4>2. (Stored' \ command'[e].doomed) \cup Written' \subseteq (Stored \ command[d].doomed) \cup Written
        BY <1>5, <1>6, <2>1, <3>5
      <4>3. Cardinality((Stored' \ command'[e].doomed) \cup Written') <= Room(R)'
        BY <1>8, <2>3, <3>3, <3>4, <4>2
      <4> QED
        BY <4>3
    <3>6. CASE d # c
      <4>1. d \in R /\ d \in Removing \ {c}
        BY <2>1, <3>6
      <4>2. (Stored' \ command'[d].doomed) \cup Written' \subseteq (Stored \ command[d].doomed) \cup Written
        BY <1>5, <1>6, <4>1
      <4>3. Cardinality((Stored' \ command'[d].doomed) \cup Written') <= Room(R)'
        BY <1>8, <2>3, <3>3, <3>4, <4>2
      <4> QED
        BY <4>1, <4>3
    <3> QED
      BY <3>5, <3>6
  <2> QED
    BY <2>4, <2>5 DEF RotationInv, Within
<1> QED
  BY <1>10, <1>11

\* What cannot be removed stays, and is counted.
LEMMA RemoveFailsRotation ==
  ASSUME TypeOK, TypeOK', RotationInv, NEW c \in Commands, NEW n \in ArchiveNames,
         RemoveFails(c, n)
  PROVE  RotationInv'
<1> DEFINE rest == command[c].doomed \ {n}
<1>0. command[c] \in Command
  BY DEF TypeOK
<1>1. /\ command[c].pc = "remove" /\ n \in command[c].doomed /\ GoOnRemoving(c, rest)
      /\ archives' = archives /\ unrotated' = unrotated + 1
  BY DEF RemoveFails
<1>2. rest \in SUBSET ArchiveNames
  BY <1>0 DEF Command
<1>3. /\ \A d \in Commands \ {c} : command'[d] = command[d]
      /\ IF rest = {} THEN command'[c].pc = "idle"
         ELSE command'[c].pc = "remove" /\ command'[c].doomed = rest
  <2> HIDE DEF rest
  <2> QED
    BY <1>1, <1>2, GoOnRemovingEffect
<1>4. c \in Removing /\ c \notin ToList
  BY <1>1 DEF Removing, ToList
<1>5. Stored' = Stored
  BY <1>1 DEF Stored
<1>6. /\ ToList' = ToList /\ Written' = Written
      /\ Removing' = IF rest = {} THEN Removing \ {c} ELSE Removing
      /\ \A d \in Removing \ {c} : command'[d].doomed = command[d].doomed
  <2> HIDE DEF rest
  <2>1. command'[c].pc \in {"idle", "remove"}
    BY <1>3
  <2>2. ToList' = ToList \ {c} /\ Written' = Written
    BY <1>1, <1>3, <2>1, SetsAfter
  <2>3. Removing' = IF command'[c].pc = "remove" THEN Removing \cup {c} ELSE Removing \ {c}
    BY <1>3, SetsAfter
  <2>4. (command'[c].pc = "remove") <=> (rest # {})
    BY <1>3
  <2>5. ToList \ {c} = ToList /\ Removing \cup {c} = Removing
    BY <1>4
  <2>6. \A d \in Removing \ {c} : command'[d].doomed = command[d].doomed
    BY <1>3, SetsAfter
  <2> QED
    BY <2>2, <2>3, <2>4, <2>5, <2>6
<1>7. MaxBackups \in Nat /\ unrotated \in Nat /\ Cardinality(ToList) \in Nat
  <2>1. ToList \in SUBSET Commands
    BY Subsets
  <2>2. Cardinality(ToList) \in Nat
    BY <2>1, CommandCounts
  <2> QED
    BY <2>2, Constant DEF TypeOK
<1>8. CASE rest # {}
  <2>1. Removing' = Removing
    BY <1>6, <1>8
  <2>2. \A d \in Removing : (Stored' \ command'[d].doomed) \cup Written'
                              \subseteq ((Stored \ command[d].doomed) \cup Written) \cup {n}
    <3>1. TAKE d \in Removing
    <3>2. CASE d = c
      BY <1>3, <1>5, <1>6, <1>8, <3>2
    <3>3. CASE d # c
      BY <1>5, <1>6, <3>3
    <3> QED
      BY <3>2, <3>3
  <2>3. Stored' \cup Written' \subseteq (Stored \cup Written) \cup {n}
    BY <1>5, <1>6
  <2>4. ASSUME NEW R \in SUBSET Removing
        PROVE  Room(R)' \in Nat /\ Room(R)' >= Room(R) + 1
    <3>1. Room(R)' = MaxBackups + (unrotated + 1) + Cardinality(ToList) + Cardinality(Removing \ R)
      BY <1>1, <1>6, <2>1 DEF Room
    <3>2. Cardinality(Removing \ R) \in Nat
      <4>1. Removing \ R \in SUBSET Commands
        BY Subsets
      <4> QED
        BY <4>1, CommandCounts
    <3> QED
      BY <1>7, <3>1, <3>2 DEF Room
  <2>5. \A A \in SUBSET ArchiveNames : /\ Cardinality(A \cup {n}) \in Nat
                                       /\ Cardinality(A \cup {n}) <= Cardinality(A) + 1
    BY NameCounts
  <2>6. 1 \in Nat /\ {n} \in SUBSET ArchiveNames
    OBVIOUS
  <2> QED
    BY <2>1, <2>2, <2>3, <2>4, <2>5, <2>6, RoomForMore
<1>9. CASE rest = {}
  <2>1. Removing' = Removing \ {c}
    BY <1>6, <1>9
  <2>2. ASSUME NEW R, c \notin R PROVE Room(R)' = Room(R)
    <3>1. Cardinality((Removing \ R) \ {c}) = Cardinality(Removing \ R) - 1
          /\ Cardinality(Removing \ R) \in Nat
      <4>1. Removing \ R \in SUBSET Commands /\ c \in Removing \ R
        BY <1>4, <2>2, Subsets
      <4> QED
        BY <4>1, CommandCounts
    <3>2. Removing' \ R = (Removing \ R) \ {c}
      BY <2>1
    <3>3. Room(R)' = MaxBackups + (unrotated + 1) + Cardinality(ToList) + (Cardinality(Removing \ R) - 1)
      BY <1>1, <1>6, <3>1, <3>2 DEF Room
    <3> QED
      BY <1>7, <3>1, <3>3 DEF Room
  <2>3. Cardinality(Stored' \cup Written') <= Room({})'
    <3>1. Room({})' = Room({})
      BY <2>2
    <3>2. Cardinality(Stored \cup Written) <= Room({})
      BY DEF RotationInv, Within
    <3> QED
      BY <1>5, <1>6, <3>1, <3>2
  <2>4. ASSUME NEW R \in SUBSET Removing', R # {}
        PROVE  \E d \in R : Cardinality((Stored' \ command'[d].doomed) \cup Written') <= Room(R)'
    <3>1. R \in SUBSET Removing /\ c \notin R
      BY <2>1
    <3>2. PICK d \in R : Cardinality((Stored \ command[d].doomed) \cup Written) <= Room(R)
      BY <2>4, <3>1 DEF RotationInv, Within
    <3>3. command'[d].doomed = command[d].doomed
      BY <1>6, <3>1
    <3>4. Room(R)' = Room(R)
      BY <2>2, <3>1
    <3> QED
      BY <1>5, <1>6, <3>2, <3>3, <3>4
  <2> QED
    BY <2>3, <2>4 DEF RotationInv, Within
<1> QED
  BY <1>8, <1>9
\* The commands whose backup is not rotated yet.
Busy == {c \in Commands : command[c].pc \in {"writing", "rotate", "remove"}}

LEMMA BusyCount ==
  ASSUME TypeOK
  PROVE  /\ Cardinality(Busy) = Cardinality(ToList) + Cardinality(Removing \ {})
         /\ Cardinality(Busy) \in Nat
<1>1. ToList \in SUBSET Commands /\ Removing \in SUBSET Commands /\ Removing \ {} = Removing
  BY Subsets
<1>2. IsFiniteSet(ToList) /\ IsFiniteSet(Removing)
  <2>1. IsFiniteSet(Commands)
    BY Constant
  <2> QED
    BY <1>1, <2>1, FS_Subset
<1>3. Busy = ToList \cup Removing /\ ToList \cap Removing = {}
  BY DEF Busy, ToList, Removing
<1>4. Cardinality(ToList \cup Removing) =
        Cardinality(ToList) + Cardinality(Removing) - Cardinality(ToList \cap Removing)
  BY <1>2, FS_Union
<1>5. Cardinality(ToList \cap Removing) = 0
  BY <1>3, FS_EmptySet
<1>6. Cardinality(ToList) \in Nat /\ Cardinality(Removing) \in Nat
  BY <1>2, FS_CardinalityType
<1>7. Cardinality(Busy) = Cardinality(ToList) + Cardinality(Removing)
  BY <1>3, <1>4, <1>5, <1>6
<1> QED
  BY <1>1, <1>6, <1>7

\* A crash ends them all.
LEMMA CrashRotation ==
  ASSUME TypeOK, TypeOK', RotationInv, Crash
  PROVE  RotationInv'
<1>1. /\ archives' = archives /\ unrotated' = unrotated + Cardinality(Busy)
      /\ command' = [c \in Commands |-> NoCommand]
  BY DEF Crash, Busy
<1>2. Written' = {} /\ ToList' = {} /\ Removing' = {} /\ Stored' = Stored
  <2>1. \A c \in Commands : command'[c].pc = "idle"
    BY <1>1, NoCommandIsCommand
  <2> QED
    BY <1>1, <2>1 DEF Written, ToList, Removing, Stored
<1>3. Room({})' = MaxBackups + (unrotated + Cardinality(Busy))
  <2>1. Removing' \ {} = {} /\ Cardinality({}) = 0
    BY <1>2, FS_EmptySet
  <2>2. Room({})' = MaxBackups + unrotated' + 0 + 0
    BY <1>2, <2>1 DEF Room
  <2>3. MaxBackups \in Nat /\ unrotated' \in Nat
    BY Constant DEF TypeOK
  <2> QED
    BY <1>1, <2>2, <2>3
<1>4. Room({})' = Room({})
  <2>1. /\ Cardinality(Busy) = Cardinality(ToList) + Cardinality(Removing \ {})
        /\ Cardinality(ToList) \in Nat /\ Cardinality(Removing \ {}) \in Nat
    <3>1. ToList \in SUBSET Commands /\ Removing \ {} \in SUBSET Commands
      BY Subsets
    <3>2. IsFiniteSet(Commands)
      BY Constant
    <3>3. IsFiniteSet(ToList) /\ IsFiniteSet(Removing \ {})
      BY <3>1, <3>2, FS_Subset
    <3> QED
      BY <3>3, BusyCount, FS_CardinalityType
  <2>2. MaxBackups \in Nat /\ unrotated \in Nat
    BY Constant DEF TypeOK
  <2> QED
    BY <1>3, <2>1, <2>2 DEF Room
<1>5. /\ Cardinality(Stored) \in Nat /\ Cardinality(Stored \cup Written) \in Nat
      /\ Cardinality(Stored) <= Cardinality(Stored \cup Written)
  <2>1. Stored \cup Written \in SUBSET ArchiveNames /\ Stored \in SUBSET (Stored \cup Written)
    BY Subsets
  <2> QED
    BY <2>1, NameCounts
<1>6. Cardinality(Stored \cup Written) <= Room({})
  BY DEF RotationInv, Within
<1>7. Cardinality(Stored) <= Room({})'
  BY <1>4, <1>5, <1>6, RoomIsNat
<1>8. Cardinality(Stored' \cup Written') <= Room({})'
  <2>1. Stored' \cup Written' = Stored
    BY <1>2
  <2> QED
    BY <1>7, <2>1
<1>9. \A R \in SUBSET Removing' : R = {}
  BY <1>2
<1> QED
  BY <1>8, <1>9 DEF RotationInv, Within

LEMMA RotationKept ==
  ASSUME TypeOK, RotationInv, [Next]_vars
  PROVE  RotationInv'
<1>0. TypeOK'
  BY TypesKept
<1>1. CASE \E f \in Forms : SubmitForm(f)
  <2>1. UNCHANGED <<archives, command, unrotated>>
    BY <1>1 DEF SubmitForm, backupVars
  <2> QED
    BY <2>1, RotationUntouched DEF Written, ToList, Removing
<1>2. CASE \E c \in Commands : RunCommand(c)
  <2>1. PICK c \in Commands : CommandStep(c) \/ UpdateStep(c)
    BY <1>2 DEF RunCommand
  <2>2. UNCHANGED setupVars
    BY <1>2 DEF RunCommand
  <2>3. CASE UpdateStep(c)
    <3>1. /\ UNCHANGED <<archives, unrotated>>
          /\ \A d \in Commands :
               \/ command'[d] = command[d]
               \/ command[d].pc \in UpdateSteps /\ command'[d].pc \in UpdateSteps
      BY <2>2, <2>3, UpdateTypes
    <3>2. ToList' = ToList /\ Removing' = Removing
      BY <3>1 DEF ToList, Removing, UpdateSteps
    <3>3. \A d \in Removing : command'[d].doomed = command[d].doomed
      BY <3>1 DEF Removing, UpdateSteps
    <3>4. Written' = Written
      <4>1. \A n : n \in Written <=> \E d \in Commands : command[d].pc = "writing" /\ command[d].name = n
        BY DEF Written
      <4>2. \A n : n \in Written' <=> \E d \in Commands : command'[d].pc = "writing" /\ command'[d].name = n
        BY DEF Written
      <4>3. \A d \in Commands : \/ command'[d] = command[d]
                                \/ command[d].pc # "writing" /\ command'[d].pc # "writing"
        BY <3>1 DEF UpdateSteps
      <4>4. ASSUME NEW n PROVE n \in Written' <=> n \in Written
        BY <4>1, <4>2, <4>3
      <4> QED
        BY <4>4
    <3> QED
      BY <3>1, <3>2, <3>3, <3>4, RotationUntouched
  <2>4. CASE CommandStep(c)
    <3>0. \A d \in Commands \ {c} : command'[d] = command[d]
      BY <2>2, <2>4, BackupTypes
    \* The steps before a backup is written, those of a restore, and the mode.
    <3>1. ASSUME command[c].pc \notin {"writing", "rotate", "remove"},
                 command'[c].pc \notin {"writing", "rotate", "remove"},
                 UNCHANGED <<archives, unrotated>>
          PROVE  RotationInv'
      <4>1. c \notin ToList /\ c \notin Removing
        BY <3>1 DEF ToList, Removing
      <4>2. /\ ToList' = ToList \ {c} /\ Removing' = Removing \ {c}
            /\ \A d \in Removing \ {c} : command'[d].doomed = command[d].doomed
        BY <3>0, <3>1, SetsAfter
      <4>3. Written' = Written
        BY <3>0, <3>1, SetsAfter
      <4>4. ToList \ {c} = ToList /\ Removing \ {c} = Removing
        BY <4>1
      <4> QED
        BY <3>1, <4>2, <4>3, <4>4, RotationUntouched
    <3>2. CASE \E b \in BOOLEAN : BeginBackup(c, b)
      <4>1. PICK b \in BOOLEAN : BeginBackup(c, b)
        BY <3>2
      <4>2. command[c].pc = "idle" /\ (command'[c] = command[c] \/ command'[c].pc = "copy")
        BY <4>1, BeginBackupEffect
      <4> QED
        BY <3>1, <4>1, <4>2 DEF BeginBackup
    <3>3. CASE \E b \in BOOLEAN : SetMode(c, b)
      BY <3>1, <3>3 DEF SetMode, Begin
    <3>4. CASE BeginCopy(c)
      <4>1. command[c].pc = "copy" /\ command'[c].pc = "copying"
        BY <3>4, BeginCopyEffect
      <4> QED
        BY <3>1, <3>4, <4>1 DEF BeginCopy
    <3>5. CASE EndCopy(c)
      <4>1. command[c].pc = "copying" /\ command'[c].pc \in {"write", "idle"}
        BY <3>5, EndCopyEffect
      <4> QED
        BY <3>1, <3>5, <4>1 DEF EndCopy
    <3>6. CASE BeginWrite(c) \/ EndWrite(c) \/ BackupFails(c) \/ ListForRotation(c)
      BY <1>0, <3>6, BeginWriteRotation, EndWriteRotation, BackupFailsRotation, ListRotation
    <3>7. CASE \E n \in ArchiveNames : RemoveArchive(c, n) \/ RemoveFails(c, n)
      BY <1>0, <3>7, RemoveRotation, RemoveFailsRotation
    <3>8. CASE \E n \in ArchiveNames, right \in BOOLEAN : BeginRestore(c, n, right)
      <4>1. PICK n \in ArchiveNames, right \in BOOLEAN : BeginRestore(c, n, right)
        BY <3>8
      <4>2. command[c].pc = "idle" /\ (command'[c] = command[c] \/ command'[c].pc = "extract")
        BY <4>1, BeginRestoreEffect
      <4> QED
        BY <3>1, <4>1, <4>2 DEF BeginRestore
    <3>9. CASE BeginExtract(c)
      <4>1. Proceed(c, "extracting") /\ command[c].pc = "extract" /\ "extracting" \in CommandSteps
        BY <3>9 DEF BeginExtract, CommandSteps
      <4>2. command'[c].pc = "extracting"
        BY <4>1, ProceedEffect
      <4> QED
        BY <3>1, <3>9, <4>1, <4>2 DEF BeginExtract
    <3>10. CASE EndExtract(c) \/ ExtractFails(c)
      <4>1. Finished(c) /\ command[c].pc \in {"extract", "extracting"}
        BY <3>10 DEF EndExtract, ExtractFails
      <4>2. command'[c].pc = "idle"
        BY <4>1, FinishedEffect
      <4> QED
        BY <3>1, <3>10, <4>1, <4>2 DEF EndExtract, ExtractFails
    <3> QED
      BY <2>4, <3>2, <3>3, <3>4, <3>5, <3>6, <3>7, <3>8, <3>9, <3>10 DEF CommandStep
  <2> QED
    BY <2>1, <2>3, <2>4
<1>3. CASE Tick /\ UNCHANGED <<setupVars, updateVars, overtaken>>
  <2>1. UNCHANGED <<archives, command, unrotated>>
    BY <1>3 DEF Tick
  <2> QED
    BY <2>1, RotationUntouched DEF Written, ToList, Removing
<1>4. CASE Crash
  BY <1>0, <1>4, CrashRotation
<1>5. CASE UNCHANGED vars
  <2>1. UNCHANGED <<archives, command, unrotated>>
    BY <1>5 DEF vars, backupVars
  <2> QED
    BY <2>1, RotationUntouched DEF Written, ToList, Removing
<1>6. CASE LateStatement
  <2>1. UNCHANGED <<archives, command, unrotated>>
    BY <1>6 DEF LateStatement, StatementLands
  <2> QED
    BY <2>1, RotationUntouched DEF Written, ToList, Removing
<1> QED
  BY <1>1, <1>2, <1>3, <1>4, <1>5, <1>6 DEF Next

----------------------------------------------------------------------------
(***************************************************************************)
(* The theorems                                                            *)
(***************************************************************************)
LEMMA InitHolds ==
  ASSUME Init
  PROVE  InstallationInv
<1>0. /\ form = [f \in Forms |-> NoForm] /\ clock = 0
      /\ archives = [n \in ArchiveNames |-> NoArchive]
      /\ command = [c \in Commands |-> NoCommand] /\ tearing = FALSE /\ unrotated = 0
      /\ program = [whole |-> TRUE, executable |-> TRUE, exists |-> TRUE]
      /\ download = NoFile
  BY DEF Init, SetupInit, BackupInit, UpdateInit
<1>1. PICK on \in SUBSET {"backup_compliance_enabled"} : db = [admins |-> {}, users |-> {}, on |-> on]
  BY DEF Init, DatabaseInit
<1>2. db \in Content /\ "initialized" \notin db.on
  BY <1>1 DEF Content, Flags
<1>3. NoForm \in Form /\ NoForm.pc = "idle"
  BY DEF NoForm, Form, FormSteps
<1>4. \A c \in Commands : command[c].pc = "idle" /\ command[c] \in Command
  BY <1>0, NoCommandIsCommand
<1>5. TypeOK
  <2>1. MaxTime \in Nat
    BY Constant
  <2>2. clock \in 0 .. MaxTime /\ unrotated \in Nat
    BY <1>0, <2>1
  <2>3. form \in [Forms -> Form] /\ \A f \in Forms : form[f].pc = "idle"
    BY <1>0, <1>3
  <2>4. command \in [Commands -> Command]
    BY <1>0, NoCommandIsCommand
  <2> QED
    BY <1>0, <1>2, <1>4, <2>2, <2>3, <2>4 DEF TypeOK
<1>6. AdminInv
  <2>1. Sound(db)
    BY <1>2 DEF Sound
  <2>2. \A n \in ArchiveNames : archives[n] \notin Content
    BY <1>0, Constant
  <2>3. HalfDone = {}
    BY <1>0, <1>3 DEF HalfDone
  <2> QED
    BY <1>4, <2>1, <2>2, <2>3 DEF AdminInv
<1>7. WholeUnlessInterrupted
  BY <1>2, Constant DEF WholeUnlessInterrupted, Readable
<1>8. RotationInv
  <2>1. Stored = {} /\ Written = {} /\ ToList = {} /\ Removing = {}
    BY <1>0, <1>4 DEF Stored, Written, ToList, Removing
  <2>2. Stored \cup Written = {} /\ Cardinality({}) = 0
    BY <2>1, FS_EmptySet
  <2>3. Room({}) \in Nat
    BY <1>5, RoomIsNat
  <2>4. Within(Stored, {})
    BY <2>2, <2>3 DEF Within
  <2> QED
    BY <2>1, <2>4 DEF RotationInv
<1>9. UpdateInv
  <2>1. Updating = {}
    BY <1>4 DEF Updating
  <2>2. NoFile \in File
    BY DEF NoFile, File
  <2> QED
    BY <1>0, <2>1, <2>2 DEF UpdateInv, File
<1> QED
  BY <1>5, <1>6, <1>7, <1>8, <1>9 DEF InstallationInv

\* The invariant of forms, commands and crashes, for any number of them.
THEOREM InstallationIsInvariant == Spec => []InstallationInv
<1>1. Init => InstallationInv
  BY InitHolds
<1>2. InstallationInv /\ [Next]_vars => InstallationInv'
  BY TypesKept, AdminKept, WholeKept, RotationKept, UpdateKept DEF InstallationInv
<1> QED
  BY <1>1, <1>2, PTL DEF Spec

\* A site that says it is set up (setup.go writes initialized last) has an
\* administrator in both tables, unless a restore ran in the middle of a form.
THEOREM AdminWhenInitialized == Spec => []InitializedHasAdmin
<1>1. InstallationInv => InitializedHasAdmin
  BY DEF InstallationInv, AdminInv, InitializedHasAdmin, IsOn, Sound
<1> QED
  BY <1>1, InstallationIsInvariant, PTL

\* The database file is unusable only while a restore runs, after one that was
\* cut short or met another or a statement, or after that of a torn copy: what
\* verification refuses never reaches it (backup.go).
THEOREM DatabaseIsWhole == Spec => []WholeUnlessInterrupted
<1>1. InstallationInv => WholeUnlessInterrupted
  BY DEF InstallationInv
<1> QED
  BY <1>1, InstallationIsInvariant, PTL

\* Rotation (rotateBackups) holds the archives at the limit, but for backups under
\* way and those whose rotation failed, however many run at once.
THEOREM RotationBoundsArchives == Spec => []ArchivesBounded
<1>1. InstallationInv => ArchivesBounded
  <2>1. SUFFICES ASSUME InstallationInv PROVE ArchivesBounded
    OBVIOUS
  <2>2. TypeOK /\ Cardinality(Stored \cup Written) <= Room({})
    BY <2>1 DEF InstallationInv, RotationInv, Within
  <2>3. /\ Cardinality(Stored) \in Nat /\ Cardinality(Stored \cup Written) \in Nat
        /\ Cardinality(Stored) <= Cardinality(Stored \cup Written)
    <3>1. Stored \cup Written \in SUBSET ArchiveNames /\ Stored \in SUBSET (Stored \cup Written)
      BY <2>2, Subsets
    <3> QED
      BY <3>1, NameCounts
  <2>4. Room({}) = MaxBackups + unrotated + Cardinality(Busy) /\ Room({}) \in Nat
    <3>1. Cardinality(Busy) = Cardinality(ToList) + Cardinality(Removing \ {})
      BY <2>2, BusyCount
    <3>2. Cardinality(ToList) \in Nat /\ Cardinality(Removing \ {}) \in Nat
      <4>1. ToList \in SUBSET Commands /\ Removing \ {} \in SUBSET Commands /\ IsFiniteSet(Commands)
        BY <2>2, Subsets, Constant
      <4>2. IsFiniteSet(ToList) /\ IsFiniteSet(Removing \ {})
        BY <4>1, FS_Subset
      <4> QED
        BY <4>2, FS_CardinalityType
    <3>3. MaxBackups \in Nat /\ unrotated \in Nat
      BY <2>2, Constant DEF TypeOK
    <3> QED
      BY <2>2, <3>1, <3>2, <3>3, RoomIsNat DEF Room
  <2>5. Cardinality(Stored) <= MaxBackups + unrotated + Cardinality(Busy)
    BY <2>2, <2>3, <2>4
  <2> QED
    BY <2>5 DEF ArchivesBounded, Busy
<1> QED
  BY <1>1, InstallationIsInvariant, PTL

\* The program that is started is whole and executable wherever an update breaks
\* off (runUpdateInstall), unless two updates met.
THEOREM ProgramIsWhole == Spec => []ProgramWhole
<1>1. InstallationInv => ProgramWhole
  BY DEF InstallationInv, UpdateInv, ProgramWhole
<1> QED
  BY <1>1, InstallationIsInvariant, PTL
=============================================================================

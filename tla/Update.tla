------------------------------- MODULE Update -------------------------------
(***************************************************************************)
(* --update yes (runUpdateInstall and downloadFile in src/src/cli_ops.go): *)
(* the latest release is downloaded beside the program and renamed over    *)
(* it.  Every update downloads to the same name.                           *)
(*                                                                         *)
(* A process that downloads holds an open file, which moves with its name  *)
(* when another process renames it and stays writable when it has none.    *)
(***************************************************************************)
EXTENDS Backup

VARIABLES
  program,   \* the file that is started: [whole, executable]
  download,  \* self + ".new"; NoFile if there is none
  meeting    \* ghost: did two updates run at the same time?

updateVars == <<program, download, meeting>>

NoFile == [whole |-> FALSE, executable |-> FALSE, exists |-> FALSE]

Created == [NoFile EXCEPT !.exists = TRUE]

UpdateInit ==
  /\ program = [whole |-> TRUE, executable |-> TRUE, exists |-> TRUE]
  /\ download = NoFile
  /\ meeting = FALSE

Updating == {c \in Commands : command[c].pc \in {"download", "chmod", "rename"}}

\* Which file c has open: the one to install, the installed one, or neither.
Held(c) == command[c].held

HeldBy(f) == {c \in Commands : command[c].pc = "download" /\ Held(c) = f}

\* No answer from GitHub, no release, or none for this platform.
NothingToInstall(c) ==
  /\ Begin(c)
  /\ UNCHANGED <<db, failures, clock, archives, command, astride, tearing, unrotated, updateVars>>

\* A release with a file for this platform is found, and os.Create empties the
\* file of this name.
BeginUpdate(c) ==
  /\ Begin(c)
  /\ command' = [command EXCEPT ![c] = [NoCommand EXCEPT !.pc = "download", !.held = "new"]]
  /\ download' = IF download.exists THEN [download EXCEPT !.whole = FALSE] ELSE Created
  /\ meeting' = (meeting \/ Updating # {})
  /\ UNCHANGED <<db, failures, clock, archives, astride, tearing, unrotated, program>>

\* Mutant: what io.Copy returns is not looked at.
AfterFailedDownloadInstall(c) == Proceed(c, "chmod")

\* A file that is cut off stays where it is; the next update empties it.
AfterFailedDownload(c) == Finished(c)

\* The answer is not 200, the connection breaks, the disk is full.
DownloadFails(c) ==
  /\ command[c].pc = "download"
  /\ Fail
  /\ AfterFailedDownload(c)
  /\ UNCHANGED <<db, clock, archives, given, astride, tearing, unrotated, updateVars>>

\* All bytes are written, to whichever file it is by now.  One that another
\* process emptied or fills has holes, or parts of two releases.
EndDownload(c) ==
  /\ command[c].pc = "download"
  /\ \E whole \in {TRUE} \cup (IF meeting THEN {FALSE} ELSE {}) :
       /\ download' = IF Held(c) = "new" THEN [download EXCEPT !.whole = whole] ELSE download
       /\ program' = IF Held(c) = "self" THEN [program EXCEPT !.whole = whole] ELSE program
  /\ Proceed(c, "chmod")
  /\ UNCHANGED <<db, failures, clock, archives, given, astride, tearing, unrotated, meeting>>

\* os.Chmod on the name; without a file there it fails.
MakeExecutable(c) ==
  /\ command[c].pc = "chmod"
  /\ download.exists
  /\ download' = [download EXCEPT !.executable = TRUE]
  /\ Proceed(c, "rename")
  /\ UNCHANGED <<db, failures, clock, archives, given, astride, tearing, unrotated, program,
                 meeting>>

\* Where the open files are when the name is renamed or removed.
Moved(c, to) ==
  command' = [d \in Commands |->
    CASE d = c -> NoCommand
      [] d \in HeldBy("new") -> [command[d] EXCEPT !.held = to]
      [] d \in HeldBy("self") /\ to = "self" -> [command[d] EXCEPT !.held = "none"]
      [] OTHER -> command[d]]

\* "Replace binary atomically"
Replace(c) ==
  /\ command[c].pc = "rename"
  /\ download.exists
  /\ program' = download
  /\ download' = NoFile
  /\ Moved(c, "self")
  /\ UNCHANGED <<db, failures, clock, archives, given, astride, tearing, unrotated, meeting>>

\* chmod or rename fails, and the file, whoever made it, is removed.
InstallFails(c) ==
  /\ command[c].pc \in {"chmod", "rename"}
  /\ IF download.exists THEN Fail ELSE UNCHANGED failures
  /\ download' = NoFile
  /\ Moved(c, "none")
  /\ UNCHANGED <<db, clock, archives, given, astride, tearing, unrotated, program, meeting>>

UpdateStep(c) ==
  \/ NothingToInstall(c) \/ BeginUpdate(c)
  \/ DownloadFails(c) \/ EndDownload(c)
  \/ MakeExecutable(c) \/ Replace(c) \/ InstallFails(c)

----------------------------------------------------------------------------
\* Wherever a download breaks off, a command fails or the machine stops, the file
\* that is started is a whole, executable release; unless two updates met, whose
\* downloads have one name.
ProgramWhole == meeting \/ (program.whole /\ program.executable)
=============================================================================

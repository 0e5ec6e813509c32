------------------------------ MODULE Transfer ------------------------------
(***************************************************************************)
(* Import and export of profiles                                           *)
(* (src/src/server/service/{import,export}_service.go and                  *)
(* src/src/server/handler/import_export.go).                               *)
(*                                                                         *)
(* An import runs inside its request, and is recorded in import_jobs; a    *)
(* file that cannot be parsed fails the job.  An export reads a profile    *)
(* and then its links.  An export as JSON can be imported again.           *)
(***************************************************************************)
EXTENDS Services

CONSTANTS Documents   \* the files that users upload

\* A link in a file: may Create take it, is it http(s) and new, and the
\* "order" that only Linkstack writes.
ItemType == [valid : BOOLEAN, web : BOOLEAN, order : Nat]

ASSUME TransferAssumption ==
  \A d \in Documents :
    /\ d.source \in {"linktree", "linkstack", "carrd", "aboutme", "csv", "json"}
    /\ d.readable \in BOOLEAN
    /\ d.links \in Seq(ItemType)

VARIABLES
  jobs,        \* import_jobs, oldest first
  downloads,   \* files that exports have made
  added        \* ghost: per job, whether it created a profile and how many links

importVars == <<jobs, downloads, added>>

transferVars == <<job, served, now, failures, serviceVars, importVars>>

TransferInit == ServingInit /\ ServicesInit /\ jobs = <<>> /\ downloads = {} /\ added = <<>>

----------------------------------------------------------------------------
(***************************************************************************)
(* What each format makes of a file: a slug, and links with the positions  *)
(* they are to have.                                                       *)
(***************************************************************************)
Plan(d, slug, items) ==
  [slug |-> slug, name |-> d.name, links |-> items, counted |-> FALSE, numbered |-> TRUE]

Numbered(items) ==
  [k \in DOMAIN items |-> [valid |-> items[k].valid, position |-> k]]

\* "imported-%d", the second of the day
ImportedSlug == Slug("imported", "own", now)

importFromLinktree(d) == Plan(d, d.slug, Numbered(d.links))

\* The positions of the file; an order of 0 is left to Create.
importFromLinkstack(d) ==
  LET items == [k \in DOMAIN d.links |->
                  [valid |-> d.links[k].valid, position |-> d.links[k].order]]
  IN [Plan(d, d.slug, items) EXCEPT !.numbered = FALSE]

\* The links of a file that are http(s) and new, in their order.
WebLinks(d) ==
  LET web == {k \in DOMAIN d.links : d.links[k].web}
      nth(n) == CHOOSE k \in web : Cardinality({i \in web : i <= k}) = n
  IN [n \in 1..Cardinality(web) |-> d.links[nth(n)]]

\* The slug comes from the title; links that are not http(s), or that were
\* there before, are dropped before the others are numbered.
importFromCarrd(d) == Plan(d, Slug(d.name, "own", 0), Numbered(WebLinks(d)))

importFromAboutMe(d) == Plan(d, d.slug, Numbered(d.links))

\* Positions count the links that were stored.
importFromCSV(d) == [Plan(d, ImportedSlug, Numbered(d.links)) EXCEPT !.counted = TRUE]

importFromJSON(d) ==
  Plan(d, IF d.slug = NoSlug THEN ImportedSlug ELSE d.slug, Numbered(d.links))

PlanOf(d) ==
  CASE d.source = "linktree"  -> importFromLinktree(d)
    [] d.source = "linkstack" -> importFromLinkstack(d)
    [] d.source = "carrd"     -> importFromCarrd(d)
    [] d.source = "aboutme"   -> importFromAboutMe(d)
    [] d.source = "csv"       -> importFromCSV(d)
    [] d.source = "json"      -> importFromJSON(d)

----------------------------------------------------------------------------
(***************************************************************************)
(* HandleImport and ImportData                                             *)
(***************************************************************************)
createImportJob(r, u, d) ==
  /\ Receive(r, [pc |-> "pending", user |-> u, file |-> d, import |-> Len(jobs) + 1])
  /\ jobs' = Append(jobs, [owner |-> u, status |-> "pending", imported |-> 0])
  /\ added' = Append(added, [profile |-> FALSE, links |-> 0])
  /\ UNCHANGED <<downloads, serviceVars>>

\* The job is not stored, or a file that cannot be read at all is refused.
TurnedAway(r) == Arrive(r, Idle) /\ Fails /\ UNCHANGED <<importVars, serviceVars>>

SetStatus(j, status, imported) ==
  jobs' = [jobs EXCEPT ![j].status = status, ![j].imported = imported]

\* The status is stored and the file parsed.
StartProcessing(r) ==
  LET j == job[r]
      create == [pc |-> "count profiles", task |-> "import", import |-> j.import, user |-> j.user,
                 tries |-> 0, plan |-> PlanOf(j.file)]
  IN /\ At(r, "pending")
     /\ \/ /\ Works
           /\ SetStatus(j.import, "processing", 0)
           /\ GoOn(r, IF j.file.readable THEN create ELSE AfterRefusal([task |-> "import", import |-> j.import]))
        \/ Fails /\ Finish(r) /\ UNCHANGED jobs
     /\ UNCHANGED <<downloads, added, serviceVars>>

\* The error of this update is dropped.
MarkFailed(r) ==
  /\ At(r, "failure")
  /\ \/ Works /\ SetStatus(job[r].import, "failed", 0)
     \/ Fails /\ UNCHANGED jobs
  /\ Finish(r)
  /\ UNCHANGED <<downloads, added, serviceVars>>

MarkCompleted(r) ==
  /\ At(r, "result")
  /\ \/ Works /\ SetStatus(job[r].import, "completed", job[r].imported)
     \/ Fails /\ UNCHANGED jobs
  /\ Finish(r)
  /\ UNCHANGED <<downloads, added, serviceVars>>

\* GetImportJob, after an import and from HandleImportStatus.  A job that is
\* pending has no result and is "not found".
ReadImportJob(r) == At(r, "idle") /\ UNCHANGED transferVars

----------------------------------------------------------------------------
(***************************************************************************)
(* HandleExport and ExportProfile                                          *)
(***************************************************************************)

\* A profile that cannot be read, is another's, or an unknown format: refused.
HandleExport(r, u, p, format) ==
  /\ \E row \in GetByID(p) :
       /\ row.owner = u
       /\ Receive(r, [pc |-> "export", profile |-> p, slug |-> row.slug, format |-> format])
  /\ UNCHANGED <<importVars, serviceVars>>

\* SELECT * FROM links WHERE profile_id = ? ORDER BY position ASC.  In a file all
\* links look alike, so the order of the rows is left out.
GetByProfileID(p) == LinksOf(p)

File(j, source, rows, readable) ==
  [source |-> source, slug |-> j.slug, name |-> j.slug.name, readable |-> readable,
   links |-> [k \in 1..Cardinality(rows) |-> [valid |-> TRUE, web |-> TRUE, order |-> 0]]]

\* All the links; that some are inactive is lost when the file is imported.
exportToJSON(j, rows) == {File(j, "json", rows, TRUE)}

\* The header "Title,URL,..." is not the "title,url" that the import expects.
exportToCSV(j, rows) == {File(j, "csv", rows, FALSE)}

\* Pages and cards with the active links, which no import reads.
exportToHTML(j, rows) == {}

ExportLinks(r) ==
  LET j == job[r]
      rows == GetByProfileID(j.profile)
  IN /\ At(r, "export")
     /\ \/ /\ Works
           /\ downloads' = downloads \cup (CASE j.format = "json" -> exportToJSON(j, rows)
                                             [] j.format = "csv"  -> exportToCSV(j, rows)
                                             [] OTHER             -> exportToHTML(j, rows))
        \/ Fails /\ UNCHANGED downloads
     /\ Finish(r)
     /\ UNCHANGED <<jobs, added, serviceVars>>

----------------------------------------------------------------------------
TransferStep(r) ==
  \/ \E u \in Users, d \in Documents \cup downloads : createImportJob(r, u, d)
  \/ TurnedAway(r) \/ StartProcessing(r)
  \/ MarkFailed(r) \/ MarkCompleted(r) \/ ReadImportJob(r)
  \/ \E u \in Users, p \in 1..inserted.profiles, format \in {"json", "csv", "html"} :
       HandleExport(r, u, p, format)
  \/ ExportLinks(r)

\* What the services insert for a job.
Account(r) ==
  added' = IF job[r].pc \in {"insert profile", "insert link"} /\ job[r].import # 0
           THEN [added EXCEPT ![job[r].import] =
                   [profile |-> @.profile \/ inserted'.profiles # inserted.profiles,
                    links |-> @.links + inserted'.links - inserted.links]]
           ELSE added

TransferNext ==
  \/ \E r \in Requests : TransferStep(r)
  \/ \E r \in Requests : ServiceStep(r) /\ Account(r) /\ UNCHANGED <<jobs, downloads>>
  \/ (Tick \/ Die) /\ UNCHANGED <<serviceVars, importVars>>

TransferSpec == TransferInit /\ [][TransferNext]_transferVars

----------------------------------------------------------------------------
Runs(j) == \E r \in Requests : "import" \in DOMAIN job[r] /\ job[r].import = j

\* A completed job created its profile and reports exactly the links it stored;
\* a failed job created nothing; and a job that is neither, though its request is
\* gone, has lost a statement or the process.
JobsAccountFor ==
  /\ \A j \in DOMAIN jobs :
       /\ jobs[j].status = "completed" => added[j] = [profile |-> TRUE, links |-> jobs[j].imported]
       /\ jobs[j].status = "failed" => added[j] = [profile |-> FALSE, links |-> 0]
  /\ Cardinality({j \in DOMAIN jobs : jobs[j].status \in {"pending", "processing"} /\ ~Runs(j)})
       <= failures

\* Creations and duplications implement the abstract quota of any one user.
ProfileQuota(u) ==
  INSTANCE Quota WITH Rows <- 1..(MaxServed + 1), Limit <- MaxProfiles, blind <- blind[u],
    rows <- {p.id : p \in ProfilesOf(u)},
    pending <- {r \in Requests : job[r].pc \in {"name", "slug", "insert profile"}
                                    /\ job[r].user = u}

\* However imports, duplications and deletions interleave, every step is a step
\* of the quota: a profile is inserted only by a request that had found room, or
\* that had not been able to read the limit.
ProfileQuotaKept ==
  [][\A u \in Users : [ProfileQuota(u)!Next]_(ProfileQuota(u)!vars)]_transferVars
============================================================================

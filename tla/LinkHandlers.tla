---------------------------- MODULE LinkHandlers ----------------------------
(***************************************************************************)
(* The link editing endpoints of src/src/server/handler/link_handlers.go.  *)
(* net/http runs every request in a goroutine of its own, so the requests  *)
(* in flight interleave between any two of their SQL statements.           *)
(*                                                                         *)
(* A job is what one request remembers from one statement to the next.     *)
(* Ghosts (stale, blind, calm) are never read by an action's guard except  *)
(* blind, which MaxBlind bounds.                                           *)
(***************************************************************************)
EXTENDS Tables

CONSTANTS
  Requests,     \* requests that can be in flight together
  MaxLinks,     \* setting max_links_per_profile (default 100)
  MaxReorder,   \* bound: longest link_ids list a client sends
  Watched       \* any profile: the one whose limit LinkQuota follows

ASSUME LinkAssumption ==
  /\ IsFiniteSet(Requests)
  /\ Requests # {}
  /\ MaxLinks \in Nat \ {0}
  /\ MaxReorder \in Nat
  /\ MaxBlind \in Nat
  /\ NoProfile \notin ProfileIds
  /\ Watched \in ProfileIds

VARIABLES
  job,          \* what each request is doing
  stale,        \* ghost: requests whose last read another write has overtaken
  blind,        \* ghost: creations let through by a failed COUNT, by profile
  calm          \* ghost: no stale write, lost write or partial list so far

jobVars == <<job, stale, blind, calm>>
owners == <<users, profiles>>
linkVars == <<owners, links, jobVars>>

\* "update" writes back the is_active it read, "set" the one it was asked for.
Steps == {"idle", "count", "position", "insert", "toggle", "update", "set",
          "delete", "select", "renumber", "reorder"}

Job == [pc : Steps, profile : ProfileIds \cup {NoProfile},
        ids : Seq(LinkIds), pos : Nat, active : BOOLEAN]

Idle == [pc |-> "idle", profile |-> NoProfile, ids |-> <<>>, pos |-> 0,
         active |-> FALSE]

\* The handler is at step pc.
At(r, pc) == job[r].pc = pc

\* Requests that handle profile p and are at one of the given steps.
JobsAt(p, pcs) == {r \in Requests : job[r].profile = p /\ job[r].pc \in pcs}

\* The requests that hold data read from the order of p's links.
OrderReaders(p) == JobsAt(p, {"insert", "renumber", "reorder"})

\* The requests that hold a copy of link l's columns.
CopyHolders(l) ==
  {r \in Requests : job[r].pc \in {"toggle", "update", "set"} /\ job[r].ids = <<l>>}

Finish(r) == job' = [job EXCEPT ![r] = Idle]

\* An idle handler takes a request about profile p and goes to step pc.
Receive(r, pc, p, ids, active) ==
  /\ At(r, "idle")
  /\ job' = [job EXCEPT ![r] = [pc |-> pc, profile |-> p, ids |-> ids, pos |-> 0,
                                active |-> active]]

\* The handler goes on at step pc with these link ids and this position.
GoOn(r, pc, ids, pos) ==
  job' = [job EXCEPT ![r] = [pc |-> pc, profile |-> job[r].profile, ids |-> ids,
                             pos |-> pos, active |-> job[r].active]]

LinkInit ==
  /\ links = [l \in LinkIds |-> Unused]
  /\ job = [r \in Requests |-> Idle]
  /\ stale = {}
  /\ blind = [p \in ProfileIds |-> 0]
  /\ calm = TRUE

----------------------------------------------------------------------------
(***************************************************************************)
(* POST /api/profiles/{id}/links                                           *)
(***************************************************************************)

\* The ownership check passes.
ReceiveCreate(r, u, p) ==
  /\ userOwnsProfile(u, p)
  /\ Receive(r, "count", p, <<>>, FALSE)
  /\ UNCHANGED <<owners, links, stale, blind, calm>>

\* Mutant: one link too many.
LimitReachedOffByOne(p) == Cardinality(LinksOf(p)) > MaxLinks

\* Mutant: links switched off are not counted.
LimitReachedByActive(p) == Cardinality({l \in LinksOf(p) : links[l].active}) >= MaxLinks

\* Does the count refuse one more link?  (A setting that cannot be read is taken
\* for 100, the value it is seeded with.)
LimitReached(p) == Cardinality(LinksOf(p)) >= MaxLinks

CountLinks(r) ==
  /\ At(r, "count")
  /\ IF LimitReached(job[r].profile)
     THEN Finish(r)
     ELSE GoOn(r, "position", <<>>, 0)
  /\ UNCHANGED <<owners, links, stale, blind, calm>>

\* currentCount, _ := getLinkCount: an error reads as no links at all.
CountLinksFails(r) ==
  LET p == job[r].profile IN
  /\ At(r, "count")
  /\ blind[p] < MaxBlind
  /\ GoOn(r, "position", <<>>, 0)
  /\ blind' = [blind EXCEPT ![p] = @ + 1]
  /\ UNCHANGED <<owners, links, stale, calm>>

\* Mutant: the number of links instead of the position after the last.
NextPositionByCount(p) == {Cardinality(LinksOf(p))}

\* SELECT COALESCE(MAX(position), -1), plus one; a set with one element.
NextPosition(p) ==
  IF LinksOf(p) = {} THEN {0}
  ELSE {links[l].position + 1 :
          l \in {k \in LinksOf(p) : \A j \in LinksOf(p) : links[j].position <= links[k].position}}

ReadNextPosition(r) ==
  /\ At(r, "position")
  /\ \E n \in NextPosition(job[r].profile) : GoOn(r, "insert", <<>>, n)
  /\ stale' = stale \ {r}
  /\ UNCHANGED <<owners, links, blind, calm>>

\* The error is dropped: maxPosition stays 0 and the link goes to position 1.
ReadNextPositionFails(r) ==
  /\ At(r, "position")
  /\ GoOn(r, "insert", <<>>, 1)
  /\ stale' = stale \cup {r}
  /\ UNCHANGED <<owners, links, blind, calm>>

\* Other requests that read the order of p's links have now old data.
OvertakeOrder(r, p) == stale' = (stale \cup OrderReaders(p)) \ {r}

InsertLink(r, l) ==
  LET p == job[r].profile IN
  /\ At(r, "insert")
  /\ links[l] = Unused
  /\ links' = [links EXCEPT ![l] = [profile |-> p, position |-> job[r].pos,
                                    active |-> TRUE]]
  /\ Finish(r)
  /\ OvertakeOrder(r, p)
  /\ calm' = (calm /\ r \notin stale)
  /\ UNCHANGED <<owners, blind>>

\* The link is invalid (400) or the INSERT fails (500).
CreateRefused(r) ==
  /\ At(r, "insert")
  /\ Finish(r)
  /\ stale' = stale \ {r}
  /\ UNCHANGED <<owners, links, blind, calm>>

----------------------------------------------------------------------------
(***************************************************************************)
(* POST /api/links/{id}/toggle and PUT /api/links/{id}: read the row,      *)
(* change the copy, write the columns back.                                *)
(***************************************************************************)

\* Mutant: the owner is not looked at.
AnyLink(u, l) == LinkExists(l)

\* getLinkByID and userOwnsProfile.  A link never changes its profile and ids
\* are never reused, so the two reads are one step.
OwnedLink(u, l) == LinkExists(l) /\ userOwnsProfile(u, links[l].profile)

\* Mutant: the copy is not inverted.
ToggledCopyKept(l) == links[l].active

\* link.Toggle() on the copy.
ToggledCopy(l) == ~links[l].active

ReceiveToggle(r, u, l) ==
  /\ OwnedLink(u, l)
  /\ Receive(r, "toggle", links[l].profile, <<l>>, ToggledCopy(l))
  /\ UNCHANGED <<owners, links, stale, blind, calm>>

\* is_active is absent from the body: the copy keeps the flag it was read with.
ReceiveUpdate(r, u, l) ==
  /\ OwnedLink(u, l)
  /\ Receive(r, "update", links[l].profile, <<l>>, links[l].active)
  /\ UNCHANGED <<owners, links, stale, blind, calm>>

\* is_active is in the body.
ReceiveSet(r, u, l, asked) ==
  /\ OwnedLink(u, l)
  /\ Receive(r, "set", links[l].profile, <<l>>, asked)
  /\ UNCHANGED <<owners, links, stale, blind, calm>>

\* UPDATE links SET ..., is_active = ? WHERE id = ?: nothing if the row is gone.
WriteCopy(r) ==
  LET l == Head(job[r].ids) IN
  /\ job[r].pc \in {"toggle", "update", "set"}
  /\ links' = IF LinkExists(l) THEN [links EXCEPT ![l].active = job[r].active] ELSE links
  /\ Finish(r)
  /\ stale' = (IF LinkExists(l) THEN stale \cup CopyHolders(l) ELSE stale) \ {r}
  /\ UNCHANGED <<owners, blind, calm>>

\* The copy is invalid, or the UPDATE fails: nothing is written.
CopyRefused(r) ==
  /\ job[r].pc \in {"toggle", "update", "set"}
  /\ Finish(r)
  /\ stale' = stale \ {r}
  /\ UNCHANGED <<owners, links, blind, calm>>

----------------------------------------------------------------------------
(***************************************************************************)
(* DELETE /api/links/{id}: delete the row, then reorderLinks numbers the   *)
(* remaining links 0, 1, 2, ... with one UPDATE for each.                  *)
(***************************************************************************)

ReceiveDelete(r, u, l) ==
  /\ OwnedLink(u, l)
  /\ Receive(r, "delete", links[l].profile, <<l>>, FALSE)
  /\ UNCHANGED <<owners, links, stale, blind, calm>>

\* DELETE of a row that is already gone is no error.
DeleteLinkRow(r) ==
  LET l == Head(job[r].ids) IN
  /\ At(r, "delete")
  /\ links' = [links EXCEPT ![l] = IF LinkExists(l) THEN Deleted ELSE @]
  /\ GoOn(r, "select", <<>>, 0)
  /\ IF LinkExists(l) THEN OvertakeOrder(r, job[r].profile) ELSE UNCHANGED stale
  /\ UNCHANGED <<owners, blind, calm>>

DeleteRefused(r) ==
  /\ At(r, "delete")
  /\ Finish(r)
  /\ UNCHANGED <<owners, links, stale, blind, calm>>

\* Mutant: the ORDER BY is missing.
InNoOrder(p) ==
  {s \in [1 .. Cardinality(LinksOf(p)) -> LinksOf(p)] :
     \A i, j \in DOMAIN s : i < j => s[i] # s[j]}

\* ORDER BY position: every order that agrees with the positions.
InOrder(p) ==
  {s \in [1 .. Cardinality(LinksOf(p)) -> LinksOf(p)] :
     \A i, j \in DOMAIN s : i < j => /\ s[i] # s[j]
                                     /\ links[s[i]].position <= links[s[j]].position}

SelectForRenumber(r) ==
  /\ At(r, "select")
  /\ \E s \in InOrder(job[r].profile) :
       IF s = <<>> THEN Finish(r) ELSE GoOn(r, "renumber", s, 0)
  /\ stale' = stale \ {r}
  /\ UNCHANGED <<owners, links, blind, calm>>

\* reorderLinks returns without a word when the SELECT fails.
SelectFails(r) ==
  /\ At(r, "select")
  /\ Finish(r)
  /\ UNCHANGED <<owners, links, stale, blind, calm>>

\* UPDATE links SET position = ? WHERE id = ?
MoveLink(r) ==
  LET l == Head(job[r].ids) IN
  links' = IF LinkExists(l) THEN [links EXCEPT ![l].position = job[r].pos] ELSE links

\* The rest of the loop; the request ends after its last id.
NextId(r) ==
  IF Len(job[r].ids) = 1 THEN Finish(r)
  ELSE GoOn(r, job[r].pc, Tail(job[r].ids), job[r].pos + 1)

\* Did the row the loop is at still exist, in the profile it was listed for?
MovedProfile(r) ==
  LET l == Head(job[r].ids) IN
  IF LinkExists(l) THEN links[l].profile ELSE job[r].profile

Renumber(r) ==
  /\ At(r, "renumber")
  /\ MoveLink(r)
  /\ NextId(r)
  /\ stale' = (stale \cup (OrderReaders(MovedProfile(r)) \ {r}))
                \ (IF Len(job[r].ids) = 1 THEN {r} ELSE {})
  /\ calm' = (calm /\ r \notin stale)
  /\ UNCHANGED <<owners, blind>>

\* The error of this UPDATE is dropped, and the loop goes on.
RenumberFails(r) ==
  /\ At(r, "renumber")
  /\ NextId(r)
  /\ stale' = IF Len(job[r].ids) = 1 THEN stale \ {r} ELSE stale \cup {r}
  /\ calm' = FALSE
  /\ UNCHANGED <<owners, links, blind>>

----------------------------------------------------------------------------
(***************************************************************************)
(* POST /api/links/reorder: only the first id decides which profile the    *)
(* request is about; every id is then written with its index.              *)
(***************************************************************************)

\* The lists a client sends, at most MaxReorder ids long.
LinkIdLists == UNION {[1 .. n -> LinkIds] : n \in 1 .. MaxReorder}

\* The list names each of the links once.
Lists(ids, L) ==
  /\ {ids[i] : i \in DOMAIN ids} = L
  /\ \A i, j \in DOMAIN ids : i # j => ids[i] # ids[j]

ReceiveReorder(r, u, ids) ==
  LET p == links[ids[1]].profile IN
  /\ OwnedLink(u, ids[1])
  /\ Receive(r, "reorder", p, ids, FALSE)
  /\ calm' = (calm /\ Lists(ids, LinksOf(p)))
  /\ UNCHANGED <<owners, links, stale, blind>>

WriteReorder(r) ==
  /\ At(r, "reorder")
  /\ MoveLink(r)
  /\ NextId(r)
  /\ stale' = (stale \cup (OrderReaders(MovedProfile(r)) \ {r}))
                \ (IF Len(job[r].ids) = 1 THEN {r} ELSE {})
  /\ calm' = (calm /\ r \notin stale)
  /\ UNCHANGED <<owners, blind>>

\* An UPDATE fails: 500, and the positions written so far stay written.
ReorderRefused(r) ==
  /\ At(r, "reorder")
  /\ Finish(r)
  /\ stale' = stale \ {r}
  /\ calm' = FALSE
  /\ UNCHANGED <<owners, links, blind>>

----------------------------------------------------------------------------
\* The process dies: every request in flight is lost, the tables stay.
LinkCrash ==
  /\ \E r \in Requests : ~At(r, "idle")
  /\ job' = [r \in Requests |-> Idle]
  /\ stale' = {}
  /\ calm' = (calm /\ \A r \in Requests : job[r].pc \notin {"renumber", "reorder"})
  /\ UNCHANGED <<owners, links, blind>>

LinkStep(r) ==
  \/ \E u \in Users, p \in ProfileIds : ReceiveCreate(r, u, p)
  \/ CountLinks(r) \/ CountLinksFails(r)
  \/ ReadNextPosition(r) \/ ReadNextPositionFails(r)
  \/ \E l \in LinkIds : InsertLink(r, l)
  \/ CreateRefused(r)
  \/ \E u \in Users, l \in LinkIds :
       \/ ReceiveToggle(r, u, l)
       \/ ReceiveUpdate(r, u, l)
       \/ \E asked \in BOOLEAN : ReceiveSet(r, u, l, asked)
       \/ ReceiveDelete(r, u, l)
  \/ WriteCopy(r) \/ CopyRefused(r)
  \/ DeleteLinkRow(r) \/ DeleteRefused(r)
  \/ SelectForRenumber(r) \/ SelectFails(r)
  \/ Renumber(r) \/ RenumberFails(r)
  \/ \E u \in Users, ids \in LinkIdLists : ReceiveReorder(r, u, ids)
  \/ WriteReorder(r) \/ ReorderRefused(r)

LinkNext == (\E r \in Requests : LinkStep(r)) \/ LinkCrash

----------------------------------------------------------------------------
(***************************************************************************)
(* The component on its own: the profiles do not change.                   *)
(***************************************************************************)
LinkAlone ==
  /\ LinkInit
  /\ users = Users
  /\ profiles \in [ProfileIds -> [owner : Users]]

LinkSpec == LinkAlone /\ [][LinkNext]_linkVars

----------------------------------------------------------------------------
\* The types of the links table and of the jobs.
TypeOK ==
  /\ links \in [LinkIds -> LinkRow \cup NoRow]
  /\ job \in [Requests -> Job]
  /\ stale \in SUBSET Requests
  /\ blind \in [ProfileIds -> Nat]
  /\ calm \in BOOLEAN

\* CreateLink (lines 131-194) may overshoot max_links_per_profile, but only by
\* the creations that run at the same moment and those whose COUNT failed.
LinkLimitOvershootBounded ==
  \A p \in ProfileIds :
    Cardinality(LinksOf(p)) + Cardinality(JobsAt(p, {"position", "insert"}))
      <= MaxLinks + (Cardinality(Requests) - 1) + blind[p]

\* CreateLink's check-then-insert implements the abstract limit check, whatever
\* deletes, crashes and failed statements run beside it.
LinkQuota ==
  INSTANCE Quota WITH Rows <- LinkIds, Limit <- MaxLinks,
    rows <- LinksOf(Watched), pending <- JobsAt(Watched, {"position", "insert"}),
    blind <- blind[Watched]

LinkQuotaImplemented == LinkQuota!Spec

\* As long as no request wrote over data it had not seen, no write was lost
\* and every reorder named each of the profile's links once, no two links of a
\* profile share a position, except while a reorder is running.
PositionsDistinctWhenCalm ==
  calm => \A k, l \in LinkIds :
    /\ LinkExists(k) /\ LinkExists(l) /\ k # l
    /\ links[k].profile = links[l].profile
    /\ JobsAt(links[k].profile, {"reorder"}) = {}
    => links[k].position # links[l].position

\* A renumbering that nothing overtakes takes the links in the order of their
\* positions, and when it ends the positions are exactly 0 .. n-1.
RenumberIsDense ==
  [][\A r \in Requests : (Renumber(r) /\ r \notin stale) =>
       LET ids == job[r].ids
           p == job[r].profile
       IN /\ \A i \in DOMAIN ids :
               LinkExists(ids[i]) => links[ids[1]].position <= links[ids[i]].position
          /\ Len(ids) = 1 => {links'[l].position : l \in LinksOf(p)}
                               = 0 .. (Cardinality(LinksOf(p)) - 1)]_linkVars

\* A toggle whose copy is not stale inverts the stored flag, and an update that
\* did not ask for is_active leaves it as it is: no change is lost unless
\* another write fell between the handler's read and its write.
NoLostUpdateWhenFresh ==
  [][\A r \in Requests : \A l \in LinkIds :
       (WriteCopy(r) /\ job[r].ids = <<l>> /\ LinkExists(l) /\ r \notin stale)
         => /\ job[r].pc = "toggle" => links'[l].active = ~links[l].active
            /\ job[r].pc = "update" => links'[l].active = links[l].active]_linkVars
============================================================================

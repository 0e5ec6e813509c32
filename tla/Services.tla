------------------------------ MODULE Services ------------------------------
(***************************************************************************)
(* ProfileService and LinkService                                          *)
(* (src/src/server/service/{profile,link}_service.go).  The empty          *)
(* service_id of every link made here refers to no row, and nothing        *)
(* enforces that it should.                                                *)
(*                                                                         *)
(* Only the import and the export use these services, and only Create and  *)
(* the reads; the pages edit through handlers of their own (LinkHandlers,  *)
(* ProfileHandlers).  The other operations are modelled as a caller would  *)
(* run them.                                                               *)
(***************************************************************************)
EXTENDS Serving, FiniteSetsExt, Sequences

CONSTANTS
  Names,         \* slugs and display names that people choose
  InvalidSlug,   \* a slug of a length or with characters that are refused
  NoSlug,        \* no slug was given
  MaxProfiles,   \* setting max_profiles_per_user
  MaxLinks       \* setting max_links_per_profile

ASSUME ServicesAssumption ==
  /\ MaxProfiles \in Nat \ {0} /\ MaxLinks \in Nat \ {0}
  /\ {InvalidSlug, NoSlug} \cap Names = {}

VARIABLES
  profiles,    \* the rows of profiles
  links,       \* the rows of links
  inserted,    \* how many rows of each table were ever inserted; numbers the ids
  crossed,     \* ghost: profiles whose links two requests moved at once, or whose
               \*   positions a caller chose
  reordered,   \* ghost: profiles whose links were put in another order
  blind        \* ghost: by user, creations let through because the limit was not read

serviceVars == <<profiles, links, inserted, crossed, reordered, blind>>

\* A slug that was chosen, or the n-th that was derived from a name.
Slug(name, kind, n) == [name |-> name, kind |-> kind, n |-> n]

ServicesInit ==
  \E u \in Users, name \in Names, full \in BOOLEAN, k \in {0, 2} :
    /\ profiles = {[id |-> 1, owner |-> u, slug |-> Slug(name, "own", 0), full |-> full]}
    /\ links = {[id |-> i, profile |-> 1, position |-> i, active |-> TRUE,
                 item |-> 0, job |-> 0] : i \in 1..k}
    /\ inserted = [profiles |-> 1, links |-> k]
    /\ crossed = {} /\ reordered = {} /\ blind = [v \in Users |-> 0]

ProfilesOf(u) == {p \in profiles : p.owner = u}

LinksOf(p) == {l \in links : l.profile = p}

ById(p) == {row \in profiles : row.id = p}

\* SELECT * into strings: a row that the create page inserted leaves columns
\* NULL and cannot be read.
GetByID(p) == {row \in ById(p) : row.full}

\* Requests that are moving the links of profile p.
Movers(p) ==
  {r \in Requests : /\ job[r].pc \in {"count links", "next position", "insert link",
                                      "delete link", "shift links", "update link"}
                    /\ job[r].profile = p}

\* Another request begins to move the links of profile p.
MoveBegins(p) ==
  crossed' = IF Movers(p) = {} THEN crossed ELSE crossed \cup {p}

----------------------------------------------------------------------------
(***************************************************************************)
(* ProfileService.Create, for a request that goes on as AfterCreate says   *)
(* or as AfterRefusal says.                                                *)
(***************************************************************************)
AfterRefusal(j) ==
  IF j.task = "import" THEN [pc |-> "failure", import |-> j.import] ELSE Idle

Refuse(r) == GoOn(r, AfterRefusal(job[r])) /\ UNCHANGED serviceVars

\* Mutant: one profile too many.
LimitReachedOffByOne(u) == Cardinality(ProfilesOf(u)) > MaxProfiles

ProfileLimitReached(u) == Cardinality(ProfilesOf(u)) >= MaxProfiles

\* The limit is a setting, and when it cannot be read it is this one.
DefaultMaxProfiles == 5

CountByUserID(r) ==
  LET next == [job[r] EXCEPT !.pc = IF job[r].plan.slug = NoSlug THEN "name" ELSE "slug"]
  IN /\ At(r, "count profiles")
     /\ \/ /\ Works /\ ~ProfileLimitReached(job[r].user)
           /\ GoOn(r, next)
           /\ UNCHANGED serviceVars
        \/ /\ Fails /\ Cardinality(ProfilesOf(job[r].user)) < DefaultMaxProfiles
           /\ GoOn(r, next)
           /\ blind' = [blind EXCEPT ![job[r].user] = @ + 1]
           /\ UNCHANGED <<profiles, links, inserted, crossed, reordered>>
        \/ /\ (Works /\ ProfileLimitReached(job[r].user)) \/ Fails
           /\ Refuse(r)

SlugExists(slug) == \E p \in profiles : p.slug = slug

\* generateSlug: the name, then name-1, name-2, ... until one is free.
generateSlug(r) ==
  LET slug == Slug(job[r].plan.name, "own", job[r].tries)
  IN /\ At(r, "name")
     /\ \/ /\ Works
           /\ GoOn(r, IF SlugExists(slug) THEN [job[r] EXCEPT !.tries = @ + 1]
                      ELSE [job[r] EXCEPT !.pc = "slug", !.plan.slug = slug])
           /\ UNCHANGED serviceVars
        \/ Fails /\ Refuse(r)

\* Is the slug well-formed?
isValidSlug(slug) == slug # InvalidSlug

CheckSlug(r) ==
  /\ At(r, "slug")
  /\ \/ /\ Works /\ isValidSlug(job[r].plan.slug) /\ ~SlugExists(job[r].plan.slug)
        /\ GoOn(r, [job[r] EXCEPT !.pc = "insert profile"])
        /\ UNCHANGED serviceVars
     \/ /\ \/ Works /\ (~isValidSlug(job[r].plan.slug) \/ SlugExists(job[r].plan.slug))
           \/ Fails
        /\ Refuse(r)

\* Where a request stands whose plan has k - 1 links behind it.
LinkStage(plan, k, last) == IF k > Len(plan.links) THEN last ELSE "count links"

AfterCreate(j, id) ==
  IF j.task = "import"
  THEN [pc |-> LinkStage(j.plan, 1, "result"), task |-> "import", import |-> j.import,
        plan |-> j.plan, profile |-> id, k |-> 1, position |-> 0, imported |-> 0]
  ELSE Idle

\* slug is UNIQUE.  The row has all its columns.
InsertProfile(r) ==
  LET id == inserted.profiles + 1
  IN /\ At(r, "insert profile")
     /\ ~SlugExists(job[r].plan.slug)
     /\ profiles' = profiles \cup {[id |-> id, owner |-> job[r].user,
                                    slug |-> job[r].plan.slug, full |-> TRUE]}
     /\ inserted' = [inserted EXCEPT !.profiles = id]
     /\ crossed' = IF job[r].plan.numbered THEN crossed ELSE crossed \cup {id}
     /\ GoOn(r, AfterCreate(job[r], id))
     /\ Works
     /\ UNCHANGED <<links, reordered, blind>>

InsertProfileFails(r) ==
  /\ At(r, "insert profile")
  /\ (Works /\ SlugExists(job[r].plan.slug)) \/ Fails
  /\ Refuse(r)

----------------------------------------------------------------------------
(***************************************************************************)
(* The other operations of ProfileService                                  *)
(***************************************************************************)

\* Duplicate reads the original, then looks for a free "-copy" slug; an error
\* there reads as "free".  The copy has no links.
Duplicate(r, u, p) ==
  /\ \E row \in GetByID(p) :
       /\ row.owner = u
       /\ Receive(r, [pc |-> "copy", task |-> "duplicate", user |-> u, import |-> 0, tries |-> 0,
                      plan |-> [slug |-> NoSlug, name |-> row.slug.name, numbered |-> TRUE]])
  /\ UNCHANGED serviceVars

generateUniqueSlug(r) ==
  LET slug == Slug(job[r].plan.name, "copy", job[r].tries)
      taken == [job[r] EXCEPT !.pc = "count profiles", !.plan.slug = slug]
  IN /\ At(r, "copy")
     /\ \/ Works /\ GoOn(r, IF SlugExists(slug) THEN [job[r] EXCEPT !.tries = @ + 1] ELSE taken)
        \/ Fails /\ GoOn(r, taken)
     /\ UNCHANGED serviceVars

\* Update reads the row for its old slug and looks the new one up; without a
\* new slug it writes columns that nothing here depends on.
UpdateProfile(r, p, slug) ==
  /\ GetByID(p) # {}
  /\ Receive(r, [pc |-> "new slug", profile |-> p, slug |-> slug])
  /\ UNCHANGED serviceVars

CheckNewSlug(r) ==
  /\ At(r, "new slug")
  /\ \/ Works /\ ~SlugExists(job[r].slug) /\ GoOn(r, [job[r] EXCEPT !.pc = "update profile"])
     \/ /\ (Works /\ SlugExists(job[r].slug)) \/ Fails
        /\ Finish(r)
  /\ UNCHANGED serviceVars

StoreProfile(r) ==
  LET rows == ById(job[r].profile)
  IN /\ At(r, "update profile")
     /\ \/ /\ Works /\ ~SlugExists(job[r].slug)
           /\ profiles' = (profiles \ rows) \cup {[p EXCEPT !.slug = job[r].slug, !.full = TRUE] :
                                                    p \in rows}
        \/ /\ (Works /\ SlugExists(job[r].slug)) \/ Fails
           /\ UNCHANGED profiles
     /\ Finish(r)
     /\ UNCHANGED <<links, inserted, crossed, reordered, blind>>

\* Delete: the links stay.
DeleteProfile(r, p) ==
  /\ ById(p) # {}
  /\ Receive(r, Idle)
  /\ profiles' = profiles \ ById(p)
  /\ UNCHANGED <<links, inserted, crossed, reordered, blind>>

----------------------------------------------------------------------------
(***************************************************************************)
(* LinkService.Create, once for each link of the request's plan            *)
(***************************************************************************)
Entry(j) == j.plan.links[j.k]

\* Mutant: counted before it is stored.
ImportedAlways(j, stored) == j.imported + 1

\* "if err := s.linkService.Create(link); err != nil { continue }"
Imported(j, stored) == IF stored THEN j.imported + 1 ELSE j.imported

NextLink(j, stored) ==
  IF j.task = "import"
  THEN [j EXCEPT !.pc = LinkStage(j.plan, j.k + 1, "result"), !.k = @ + 1,
                 !.imported = Imported(j, stored)]
  ELSE Idle

LinkRefused(r) == GoOn(r, NextLink(job[r], FALSE)) /\ UNCHANGED serviceVars

\* A link without a position, added by the profile's owner.
AddLink(r, p) ==
  /\ Receive(r, [pc |-> "count links", task |-> "add", profile |-> p, import |-> 0,
                 k |-> 1, position |-> 0,
                 plan |-> [links |-> <<[valid |-> TRUE, position |-> 0]>>, counted |-> FALSE]])
  /\ MoveBegins(p)
  /\ UNCHANGED <<profiles, links, inserted, reordered, blind>>

\* The position that the import chose; 0 if it leaves the choice to Create.
PositionOf(j) == IF j.plan.counted THEN j.imported + 1 ELSE Entry(j).position

LinkLimitReached(p) == Cardinality(LinksOf(p)) >= MaxLinks

\* Here, too.
DefaultMaxLinks == 100

CountByProfileID(r) ==
  LET valid == Entry(job[r]).valid
      refused == LinkLimitReached(job[r].profile) \/ ~valid
      position == PositionOf(job[r])
  IN /\ At(r, "count links")
     /\ \/ /\ \/ Works /\ ~refused
              \/ Fails /\ valid /\ Cardinality(LinksOf(job[r].profile)) < DefaultMaxLinks
           /\ GoOn(r, [job[r] EXCEPT !.position = position,
                          !.pc = IF position = 0 THEN "next position" ELSE "insert link"])
           /\ UNCHANGED serviceVars
        \/ /\ (Works /\ refused) \/ Fails
           /\ LinkRefused(r)

\* Mutant: one more than there are links.
NextPositionByCount(p) == Cardinality(LinksOf(p)) + 1

\* COALESCE(MAX(position), 0) + 1
NextPosition(p) ==
  Max({l.position : l \in LinksOf(p)} \cup {0}) + 1

getNextPosition(r) ==
  /\ At(r, "next position")
  /\ \/ /\ Works
        /\ GoOn(r, [job[r] EXCEPT !.pc = "insert link", !.position = NextPosition(job[r].profile)])
        /\ UNCHANGED serviceVars
     \/ Fails /\ LinkRefused(r)

\* SQLite does not ask whether the profile is still there.
InsertLink(r) ==
  LET j == job[r]
      id == inserted.links + 1
  IN /\ At(r, "insert link")
     /\ \/ /\ Works
           /\ links' = links \cup {[id |-> id, profile |-> j.profile, position |-> j.position,
                                   active |-> TRUE, item |-> j.k, job |-> j.import]}
           /\ inserted' = [inserted EXCEPT !.links = id]
           /\ GoOn(r, NextLink(j, TRUE))
           /\ UNCHANGED <<profiles, crossed, reordered, blind>>
        \/ Fails /\ LinkRefused(r)

----------------------------------------------------------------------------
(***************************************************************************)
(* The other operations of LinkService                                     *)
(***************************************************************************)

\* Delete reads the link, deletes it and moves up those that were behind the
\* position it read.
DeleteLink(r, l) ==
  /\ l \in links
  /\ Receive(r, [pc |-> "delete link", id |-> l.id, profile |-> l.profile,
                 position |-> l.position])
  /\ MoveBegins(l.profile)
  /\ UNCHANGED <<profiles, links, inserted, reordered, blind>>

RemoveLink(r) ==
  LET row == {l \in links : l.id = job[r].id}
  IN /\ At(r, "delete link")
     /\ \/ /\ Works /\ row # {}
           /\ links' = links \ row
           /\ GoOn(r, [job[r] EXCEPT !.pc = "shift links"])
        \/ /\ (Works /\ row = {}) \/ Fails
           /\ UNCHANGED links
           /\ Finish(r)
     /\ UNCHANGED <<profiles, inserted, crossed, reordered, blind>>

reorderAfterDelete(r) ==
  /\ At(r, "shift links")
  /\ \/ /\ Works
        /\ links' = {IF l.profile = job[r].profile /\ l.position > job[r].position
                     THEN [l EXCEPT !.position = @ - 1] ELSE l : l \in links}
     \/ Fails /\ UNCHANGED links
  /\ Finish(r)
  /\ UNCHANGED <<profiles, inserted, crossed, reordered, blind>>

\* One statement.
Toggle(r, l) ==
  /\ l \in links
  /\ Receive(r, Idle)
  /\ links' = (links \ {l}) \cup {[l EXCEPT !.active = ~@]}
  /\ UNCHANGED <<profiles, inserted, crossed, reordered, blind>>

\* A caller changes other columns of a row it has read; Update writes the
\* position and the flag of that copy back.
ReadLink(r, l) ==
  /\ l \in links
  /\ Receive(r, [pc |-> "update link", id |-> l.id, profile |-> l.profile,
                 position |-> l.position, active |-> l.active])
  /\ MoveBegins(l.profile)
  /\ UNCHANGED <<profiles, links, inserted, reordered, blind>>

UpdateLink(r) ==
  /\ At(r, "update link")
  /\ \/ /\ Works
        /\ links' = {IF l.id = job[r].id
                     THEN [l EXCEPT !.position = job[r].position, !.active = job[r].active]
                     ELSE l : l \in links}
     \/ Fails /\ UNCHANGED links
  /\ Finish(r)
  /\ UNCHANGED <<profiles, inserted, crossed, reordered, blind>>

\* One transaction gives the listed links the positions 1, 2, ...; the caller
\* may not list them all.
Reorder(r, p, order) ==
  LET listed == {order[i] : i \in DOMAIN order}
      place(l) == CHOOSE i \in DOMAIN order : order[i] = l.id
  IN /\ Receive(r, Idle)
     /\ links' = {IF l.profile = p /\ l.id \in listed THEN [l EXCEPT !.position = place(l)] ELSE l :
                    l \in links}
     /\ crossed' = IF Movers(p) = {} /\ {l.id : l \in LinksOf(p)} = listed
                   THEN crossed ELSE crossed \cup {p}
     /\ reordered' = reordered \cup {p}
     /\ UNCHANGED <<profiles, inserted, blind>>

\* The orders a caller may ask for.
Orders(p) ==
  LET ids == {l.id : l \in LinksOf(p)}
  IN UNION {{s \in [1..n -> ids] : \A i, j \in 1..n : i # j => s[i] # s[j]} :
              n \in 1..Cardinality(ids)}

ServiceStep(r) ==
  \/ CountByUserID(r) \/ generateSlug(r) \/ CheckSlug(r)
  \/ InsertProfile(r) \/ InsertProfileFails(r)
  \/ generateUniqueSlug(r)
  \/ CheckNewSlug(r) \/ StoreProfile(r)
  \/ CountByProfileID(r) \/ getNextPosition(r) \/ InsertLink(r)
  \/ RemoveLink(r) \/ reorderAfterDelete(r) \/ UpdateLink(r)
  \/ \E p \in 1..inserted.profiles :
       \/ AddLink(r, p) \/ DeleteProfile(r, p)
       \/ \E u \in Users : Duplicate(r, u, p)
       \/ \E name \in Names : UpdateProfile(r, p, Slug(name, "own", 0))
       \/ \E order \in Orders(p) : Reorder(r, p, order)
  \/ \E l \in links : DeleteLink(r, l) \/ Toggle(r, l) \/ ReadLink(r, l)

----------------------------------------------------------------------------
\* Whatever imports, additions, deletions and reorders follow one another, and
\* whatever statements are lost, no two links of a profile share a position and
\* the links of an import stand in the order of the file until they are
\* reordered; unless two requests moved the links at the same time, or a caller
\* chose the positions.
PositionsApart ==
  \A k, l \in links :
    k # l /\ k.profile = l.profile /\ k.profile \notin crossed =>
      /\ k.position # l.position
      /\ k.job # 0 /\ k.job = l.job /\ k.item < l.item /\ k.profile \notin reordered =>
           k.position < l.position
============================================================================

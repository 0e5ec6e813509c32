------------------------------- MODULE Quota -------------------------------
(***************************************************************************)
(* What a "count, then insert" limit can promise when requests overlap.    *)
(*                                                                         *)
(* CreateLink, CreateProfile and DuplicateProfile all read COUNT( * ) in   *)
(* one statement, compare it with a limit, and insert in a later one.  No  *)
(* transaction spans the two, and the error of the COUNT is dropped, so a  *)
(* failed count reads as zero.  This module is the abstract contract of    *)
(* that pattern; LinkHandlers and ProfileHandlers are shown to implement   *)
(* it, once for each profile and once for each user.                       *)
(***************************************************************************)
EXTENDS Naturals, FiniteSets

CONSTANTS
  Rows,       \* every row identifier that can ever be inserted
  Requests,   \* the requests that can be in flight together
  Limit       \* the configured maximum

\* What the theorems assume of the constants.
QuotaAssumption ==
  /\ Limit \in Nat \ {0}
  /\ IsFiniteSet(Requests)
  /\ Requests # {}

VARIABLES
  rows,       \* the rows now stored for one owner
  pending,    \* requests that passed the check and have not yet inserted
  blind       \* how many requests passed because their count failed

vars == <<rows, pending, blind>>

Init ==
  /\ rows = {}
  /\ pending = {}
  /\ blind = 0

HasRoom == Cardinality(rows) < Limit

\* A request counts the rows and finds room.
Check(r) ==
  /\ r \notin pending
  /\ HasRoom
  /\ pending' = pending \cup {r}
  /\ UNCHANGED <<rows, blind>>

\* The count itself fails, reads as zero, and the request goes on.
BlindCheck(r) ==
  /\ r \notin pending
  /\ pending' = pending \cup {r}
  /\ blind' = blind + 1
  /\ UNCHANGED rows

\* A request that passed the check inserts a row, whatever happened since.
Insert(r, x) ==
  /\ r \in pending
  /\ x \notin rows
  /\ rows' = rows \cup {x}
  /\ pending' = pending \ {r}
  /\ UNCHANGED blind

\* Requests give up between the check and the insert (error, crash).
Abandon(R) ==
  /\ pending' = pending \ R
  /\ UNCHANGED <<rows, blind>>

\* Rows go away, one or several at once.
Remove(X) ==
  /\ rows' = rows \ X
  /\ UNCHANGED <<pending, blind>>

Next ==
  \/ \E r \in Requests : Check(r) \/ BlindCheck(r)
  \/ \E r \in Requests, x \in Rows : Insert(r, x)
  \/ \E R \in SUBSET Requests : Abandon(R)
  \/ \E X \in SUBSET Rows : Remove(X)

Spec == Init /\ [][Next]_vars

----------------------------------------------------------------------------
TypeOK ==
  /\ rows \in SUBSET Rows
  /\ IsFiniteSet(rows)
  /\ pending \in SUBSET Requests
  /\ blind \in Nat

\* The limit can be overshot, but never by more than the other requests in
\* flight plus the requests whose count failed.  The pending requests are part
\* of the sum: that is what makes the bound inductive.
OvershootBounded ==
  Cardinality(rows) + Cardinality(pending)
    <= Limit + (Cardinality(Requests) - 1) + blind
============================================================================

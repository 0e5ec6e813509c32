------------------------------- MODULE Serving ------------------------------
(***************************************************************************)
(* Requests in flight: net/http runs each handler in a goroutine of its    *)
(* own, and a handler is a sequence of SQL statements with nothing that    *)
(* holds them together.  job[r] is where the handler of request r stands   *)
(* and what it has read so far.                                            *)
(***************************************************************************)
EXTENDS Naturals, FiniteSets

CONSTANTS
  Users,        \* user ids
  Requests,     \* requests that can be in flight together
  MaxServed,    \* bound: how many requests arrive
  MaxTime,      \* bound: the last moment
  MaxFailures   \* bound: how many statements fail or processes die

ASSUME ServingAssumption ==
  IsFiniteSet(Requests) /\ MaxServed \in Nat /\ MaxTime \in Nat /\ MaxFailures \in Nat

VARIABLES
  job,
  served,     \* how many requests have arrived
  now,        \* the time
  failures    \* how many statements failed, or never ran because the process died

Idle == [pc |-> "idle"]

Busy == {r \in Requests : job[r].pc # "idle"}

At(r, pc) == job[r].pc = pc

ServingInit ==
  /\ job = [r \in Requests |-> Idle]
  /\ served = 0 /\ now = 0 /\ failures = 0

Works == UNCHANGED failures

Fails == failures < MaxFailures /\ failures' = failures + 1

\* A request arrives, and goes on as j.
Arrive(r, j) ==
  /\ At(r, "idle")
  /\ served < MaxServed
  /\ served' = served + 1
  /\ job' = [job EXCEPT ![r] = j]
  /\ UNCHANGED now

Receive(r, j) == Arrive(r, j) /\ Works

GoOn(r, j) == job' = [job EXCEPT ![r] = j] /\ UNCHANGED <<served, now>>

Finish(r) == GoOn(r, Idle)

Tick == now < MaxTime /\ now' = now + 1 /\ UNCHANGED <<job, served, failures>>

\* The process dies, and every request with it.
Die ==
  /\ failures < MaxFailures
  /\ Busy # {}
  /\ failures' = failures + Cardinality(Busy)
  /\ job' = [r \in Requests |-> Idle]
  /\ UNCHANGED <<served, now>>
============================================================================

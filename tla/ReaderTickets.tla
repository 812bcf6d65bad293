--------------------------- MODULE ReaderTickets ---------------------------
(***************************************************************************)
(* What the reader gate promises to its callers: every sync takes a ticket *)
(* when it arrives, and goes in when those that arrived before it at the   *)
(* same reader have left.  Nothing is said of how many are inside at once  *)
(* over all readers.                                                       *)
(***************************************************************************)
EXTENDS Naturals

CONSTANTS
  Sync,         \* syncs
  Place         \* the reader each sync is for

VARIABLES
  issued,       \* tickets given so far
  ticket,       \* ticket of each sync, 0 before it arrives
  inside,       \* syncs that talk to their reader
  gone          \* syncs that are over

ticketVars == <<issued, ticket, inside, gone>>

TicketInit ==
  /\ issued = 0
  /\ ticket = [t \in Sync |-> 0]
  /\ inside = {}
  /\ gone = {}

Arrive(t) ==
  /\ ticket[t] = 0
  /\ issued' = issued + 1
  /\ ticket' = [ticket EXCEPT ![t] = issued + 1]
  /\ UNCHANGED <<inside, gone>>

\* Its turn has come: everyone before it at its reader has left.
Enter(t) ==
  /\ ticket[t] > 0 /\ t \notin inside \cup gone
  /\ \A u \in Sync : Place[u] = Place[t] /\ ticket[u] \in 1..(ticket[t] - 1) => u \in gone
  /\ inside' = inside \cup {t}
  /\ UNCHANGED <<issued, ticket, gone>>

Leave(t) ==
  /\ t \in inside
  /\ inside' = inside \ {t}
  /\ gone' = gone \cup {t}
  /\ UNCHANGED <<issued, ticket>>

TicketNext == \E t \in Sync : Arrive(t) \/ Enter(t) \/ Leave(t)

TicketSpec == TicketInit /\ [][TicketNext]_ticketVars
=============================================================================

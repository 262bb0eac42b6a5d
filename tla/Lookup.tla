------------------------------- MODULE Lookup -------------------------------
(***************************************************************************)
(* What the code that waits for a one-shot query relies on: the query acts *)
(* as if the relay had been read at one moment between the call and its    *)
(* end.  What it finds was signed by then; it finds nothing only if there  *)
(* was nothing when it was called, or if it gave up; and a query for the   *)
(* latest event finds none older than what there was at the call.  How     *)
(* events, EOSE, timers and reconnections race is the business of          *)
(* RelayQuery.                                                             *)
(***************************************************************************)
EXTENDS Integers

CONSTANTS
    Call,
    Latest,          \* the calls that ask for the latest event
    Filter,          \* what is asked for, for each call
    Event,
    Stamp,           \* created_at
    None             \* what is found when nothing is

VARIABLES
    posted,          \* the events signed so far, for each filter
    status,          \* where each call is
    before,          \* what had been signed when the call was made
    answer           \* what a call that is over found

lookupVars == <<posted, status, before, answer>>

LookupInit ==
    /\ posted = [t \in {Filter[q] : q \in Call} |-> {}]
    /\ status = [q \in Call |-> "idle"]
    /\ before = [q \in Call |-> {}]
    /\ answer = [q \in Call |-> None]

Post(t, v) ==
    /\ v \notin posted[t]
    /\ posted' = [posted EXCEPT ![t] = posted[t] \cup {v}]
    /\ UNCHANGED <<status, before, answer>>

Ask(q) ==
    /\ status[q] = "idle"
    /\ status' = [status EXCEPT ![q] = "waiting"]
    /\ before' = [before EXCEPT ![q] = posted[Filter[q]]]
    /\ UNCHANGED <<posted, answer>>

Ends(q, how, v) ==
    /\ status[q] = "waiting"
    /\ status' = [status EXCEPT ![q] = how]
    /\ answer' = [answer EXCEPT ![q] = v]
    /\ UNCHANGED <<posted, before>>

Find(q, v) ==
    /\ v \in posted[Filter[q]]
    /\ q \in Latest => \A w \in before[q] : Stamp[w] <= Stamp[v]
    /\ Ends(q, "answered", v)

FindNothing(q) ==
    /\ before[q] = {}
    /\ Ends(q, "answered", None)

GiveUp(q) == Ends(q, "timedOut", None)

LookupNext ==
    \/ \E t \in DOMAIN posted, v \in Event : Post(t, v)
    \/ \E q \in Call :
          \/ Ask(q)
          \/ \E v \in Event : Find(q, v)
          \/ FindNothing(q)
          \/ GiveUp(q)

LookupSpec == LookupInit /\ [][LookupNext]_lookupVars
=============================================================================

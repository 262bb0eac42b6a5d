------------------------------ MODULE ZapCall ------------------------------
(***************************************************************************)
(* What a caller of runZapFlow may know of it: an execution is called at   *)
(* most once, may insert the row of its source event into the zaps table   *)
(* later, and source_event_id being UNIQUE, only one of them ever does.    *)
(* ZapFlow implements this interface; the triggers are modelled on top.    *)
(***************************************************************************)
EXTENDS Executions

VARIABLES
    called,          \* executions of runZapFlow that have started
    rows             \* executions that have inserted a row

callVars == <<called, rows>>

CallInit ==
    /\ called = {}
    /\ rows = {}

HasRow(s) == \E g \in rows : Src(g) = s

Call(f) ==
    /\ f \notin called
    /\ called' = called \cup {f}
    /\ UNCHANGED rows

InsertRow(f) ==
    /\ f \in called
    /\ ~HasRow(Src(f))
    /\ rows' = rows \cup {f}
    /\ UNCHANGED called

CallNext == \E f \in Flow : Call(f) \/ InsertRow(f)

CallSpec == CallInit /\ [][CallNext]_callVars
=============================================================================

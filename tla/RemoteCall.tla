------------------------------ MODULE RemoteCall ------------------------------
(***************************************************************************)
(* What Sales may rely on when it calls Inventory once: the call is        *)
(* carried out at most once, perhaps after its caller has given up, and a  *)
(* definite answer says what was done.  InventoryCalls is shown to         *)
(* implement it; the messages of OrdersService obey the same rules.        *)
(***************************************************************************)
CONSTANT Calls

VARIABLES
    effect,         \* what Inventory did: "none" so far, "done" or "refused"
    known           \* what the caller knows: "idle", "waiting", then its answer

callVars == <<effect, known>>

CallInit ==
    /\ effect = [c \in Calls |-> "none"]
    /\ known = [c \in Calls |-> "idle"]

Send(c) ==
    /\ known[c] = "idle"
    /\ known' = [known EXCEPT ![c] = "waiting"]
    /\ UNCHANGED effect

\* A call that could not even be sent.
NeverSent(c) ==
    /\ known[c] = "idle"
    /\ known' = [known EXCEPT ![c] = "unknown"]
    /\ UNCHANGED effect

Execute(c) ==
    /\ known[c] # "idle"
    /\ effect[c] = "none"
    /\ \E e \in {"done", "refused"} : effect' = [effect EXCEPT ![c] = e]
    /\ UNCHANGED known

\* An answer that is not "unknown" is what Inventory did.
Learn(c) ==
    /\ known[c] = "waiting"
    /\ \E k \in {"unknown", effect[c]} \ {"none"} : known' = [known EXCEPT ![c] = k]
    /\ UNCHANGED effect

CallNext == \E c \in Calls : Send(c) \/ NeverSent(c) \/ Execute(c) \/ Learn(c)

CallSpec == CallInit /\ [][CallNext]_callVars
=============================================================================

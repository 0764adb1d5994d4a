--------------------------- MODULE DialogRegistry ---------------------------
(***************************************************************************)
(* The dialogs an endpoint knows, by id (dialog_layer.rs): creation for an *)
(* incoming request, get-or-create for outgoing subscriptions and          *)
(* publications, restore, look-up, removal and take.                       *)
(*                                                                         *)
(* Each map operation is atomic.  The get and the insert of a              *)
(* get-or-create are two: another thread may come between them, another    *)
(* task of a cooperative executor may not.                                 *)
(***************************************************************************)
EXTENDS Naturals

CONSTANTS Tasks,         \* tasks of the application and the endpoint
          Ids,           \* dialog ids
          MaxDialogs,    \* bound on the dialogs made
          Threads        \* tasks run on several threads

ASSUME RegistryAssumption == MaxDialogs \in Nat

VARIABLES
    registry,   \* DialogLayerInner.dialogs: the dialog of each id, 0 for none
    made,       \* dialogs made so far; a dialog is the number of its creation
    cancelled,  \* dialogs whose cancel token is cancelled
    task        \* per task: where it is, the id and the dialog it works on

registryVars == <<registry, made, cancelled, task>>

Dialogs == 1 .. MaxDialogs

RegistryTypeOK ==
    /\ registry \in [Ids -> Dialogs \cup {0}]
    /\ made \in 0 .. MaxDialogs
    /\ cancelled \subseteq Dialogs
    /\ task \in [Tasks -> [at : {"idle", "absent", "holding", "done"}, id : Ids \cup {"none"},
                           dialog : Dialogs \cup {0}]]

RegistryInit ==
    /\ registry = [i \in Ids |-> 0] /\ made = 0 /\ cancelled = {}
    /\ task = [t \in Tasks |-> [at |-> "idle", id |-> "none", dialog |-> 0]]

Becomes(t, at, id, dialog) ==
    task' = [task EXCEPT ![t] = [at |-> at, id |-> id, dialog |-> dialog]]

Idles(t) ==
    /\ task[t].at = "idle"
    /\ Threads \/ \A u \in Tasks : task[u].at # "absent"

Adds(i) ==
    /\ made < MaxDialogs
    /\ made' = made + 1
    /\ registry' = [registry EXCEPT ![i] = made + 1]

(***************************************************************************)
(* get_or_create_server_invite, _subscription and _publication: a request  *)
(* with a To tag gets the dialog of that id and that kind or an error; one *)
(* without gets a new dialog under a tag no dialog has.                    *)
(***************************************************************************)
CreatesForRequest(t, i) ==
    /\ Idles(t) /\ \A u \in Tasks : task[u].id # i
    /\ Adds(i)
    /\ Becomes(t, "holding", i, made + 1)
    /\ UNCHANGED cancelled

(* match_dialog, get_dialog and the to-tag branch above.                   *)
LooksUp(t, i) ==
    /\ Idles(t)
    /\ Becomes(t, IF registry[i] = 0 THEN "done" ELSE "holding", i, registry[i])
    /\ UNCHANGED <<registry, made, cancelled>>

(***************************************************************************)
(* get_or_create_client_subscription, _publication and                     *)
(* restore_from_snapshot: look first, insert if there was none.            *)
(***************************************************************************)
\* Faulty variant: the look-up is not used.
AbsentAlways(i) == TRUE
Absent(i) == registry[i] = 0

LooksFirst(t, i) ==
    /\ Idles(t)
    /\ IF Absent(i) THEN Becomes(t, "absent", i, 0) ELSE Becomes(t, "holding", i, registry[i])
    /\ UNCHANGED <<registry, made, cancelled>>

Inserts(t) ==
    /\ task[t].at = "absent"
    /\ Adds(task[t].id)
    /\ Becomes(t, "holding", task[t].id, made + 1)
    /\ UNCHANGED cancelled

(***************************************************************************)
(* remove_dialog, of a dialog that is over, and take_dialog, whose caller  *)
(* tears it down: both cancel the dialog's token.                          *)
(***************************************************************************)
Leaves(i) ==
    /\ cancelled' = cancelled \cup ({registry[i]} \ {0})
    /\ registry' = [registry EXCEPT ![i] = 0]

Removes(t, i) ==
    /\ Idles(t)
    /\ Leaves(i)
    /\ Becomes(t, "done", i, 0)
    /\ UNCHANGED made

Takes(t, i) ==
    /\ Idles(t)
    /\ Leaves(i)
    /\ Becomes(t, "done", i, registry[i])
    /\ UNCHANGED made

RegistryNext ==
    \/ \E t \in Tasks, i \in Ids :
          \/ CreatesForRequest(t, i) \/ LooksUp(t, i) \/ LooksFirst(t, i)
          \/ Removes(t, i) \/ Takes(t, i)
    \/ \E t \in Tasks : Inserts(t)

RegistrySpec == RegistryInit /\ [][RegistryNext]_registryVars

-----------------------------------------------------------------------------
(***************************************************************************)
(* A dialog a task was given stays reachable under its id until it is      *)
(* removed or taken, which cancels it: no second get-or-create or restore  *)
(* replaces it.  On one thread; two threads may both find the id absent.   *)
(***************************************************************************)
NoneIsReplaced ==
    ~Threads => \A t \in Tasks :
        task[t].at = "holding" =>
            registry[task[t].id] = task[t].dialog \/ task[t].dialog \in cancelled
=============================================================================

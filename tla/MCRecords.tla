------------------------------- MODULE MCRecords -------------------------------
(***************************************************************************)
(* What is kept and shown, each on a small instance: the threat log, the   *)
(* audit trail, the accounts, the inventory cache, and the lists of the    *)
(* console's pages.  They share no state, so one of them, focus, moves in  *)
(* a behaviour.                                                            *)
(***************************************************************************)
EXTENDS ThreatLog, AuditLog, Accounts, Inventory, ConsolePages, TLC

CONSTANT MaxCalls   \* calls to the threat log

VARIABLES calls, focus

recordVars == <<logVars, calls, vars, accountVars, inventoryVars, pageVars, focus>>

\* The same two values stand for the threads of each module and the tabs.
Symmetric == Permutations(Thread) \cup Permutations(Key) \cup Permutations(Item)

\* Inodes are interchangeable, and pages that do not move are not loaded.
MCInit ==
    /\ focus \in {"threats", "audit", "accounts", "inventory", "pages"}
    /\ LogInit /\ calls = 0
    /\ Init /\ AccountsInit /\ InventoryInit /\ PagesInit
    /\ auditName = CHOOSE f \in Inode : TRUE
    /\ focus # "pages" => \A t \in Tab : behind[t] = Page

\* The calls to the threat log, which the module leaves unbounded.
LogCalls ==
    \/ /\ calls < MaxCalls
       /\ calls' = calls + 1
       /\ \E w \in Writer :
             \/ \E k \in Key : RecordDetection(w, k)
             \/ \E k \in Key, a \in Incidents : LogIncident(w, k, a)
             \/ ClearThreatLog(w)
    \/ /\ UNCHANGED calls
       /\ LogRestart \/ \E w \in Writer : LogStep(w)

MCNext ==
    /\ UNCHANGED focus
    /\ \/ /\ focus = "threats" /\ LogCalls
          /\ UNCHANGED <<vars, accountVars, inventoryVars, pageVars>>
       \/ /\ focus = "audit" /\ Next
          /\ UNCHANGED <<logVars, calls, accountVars, inventoryVars, pageVars>>
       \/ /\ focus = "accounts" /\ AccountsNext
          /\ UNCHANGED <<logVars, calls, vars, inventoryVars, pageVars>>
       \/ /\ focus = "inventory" /\ InventoryNext
          /\ UNCHANGED <<logVars, calls, vars, accountVars, pageVars>>
       \/ /\ focus = "pages" /\ PagesNext
          /\ UNCHANGED <<logVars, calls, vars, accountVars, inventoryVars>>

MCSpec == MCInit /\ [][MCNext]_recordVars

=============================================================================

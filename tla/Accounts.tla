------------------------------- MODULE Accounts -------------------------------
(***************************************************************************)
(* UserDatabase of core/security.py, and the handlers of api/endpoints.py  *)
(* and api/auth.py that change it.                                         *)
(*                                                                         *)
(* The async handlers run on the event loop, one after the other; the      *)
(* others run in threads beside it.  No lock is held: an account is looked *)
(* up, a password hashed, the dictionary changed, and the whole store      *)
(* written to the file that every save opens anew.  A save that fails is   *)
(* logged, and the call reports success all the same.  A process that      *)
(* starts puts what the file has over the seeded accounts.                 *)
(***************************************************************************)
EXTENDS Naturals, FiniteSets

CONSTANTS EventLoop, Pool,   \* the event loop, and the threads beside it
          Account,           \* user names
          Seeded,            \* the accounts that __init__ makes
          Boss,              \* the one of them that is an admin
          MaxAccountCalls, MaxSaveFailures, MaxCrashes

Handler == {EventLoop} \cup Pool

ASSUME AccountsAssumption ==
    /\ EventLoop \notin Pool
    /\ Boss \in Seeded /\ Seeded \subseteq Account
    /\ MaxAccountCalls \in Nat /\ MaxSaveFailures \in Nat /\ MaxCrashes \in Nat

VARIABLES users,      \* users[n]: the account of that name; NoAccount without one
          store,      \* the file: its accounts, and whether it can be parsed
          handler,    \* handler[h]: the call that h carries out
          tangled,    \* history: two saves overlapped, or one was cut off, since the last good one
          unsaved,    \* history: a save failed since the last good one, or the last start
          replaced,   \* history: a create found another account in its place
          accountCalls, saveFailures, crashes

accountVars == <<users, store, handler, tangled, unsaved, replaced,
                 accountCalls, saveFailures, crashes>>

\* An account is its role and its password, told apart by the call that set it; born tells
\* an object from a later one of the same name.
Stamp == 0..MaxAccountCalls
NoAccount == [role |-> "none", secret |-> 0, born |-> 0]
AccountType == [role : {"admin", "viewer", "none"}, secret : Stamp, born : Stamp]

SeededUsers == [n \in Account |->
                  [NoAccount EXCEPT !.role = IF n = Boss THEN "admin"
                                             ELSE IF n \in Seeded THEN "viewer" ELSE "none"]]

AccountCall == [at : {"free", "hash", "open", "dump"}, kind : {"create", "password"},
                name : Account, role : {"admin", "viewer"}, stamp : Stamp, born : Stamp,
                shared : BOOLEAN]
Free == [at |-> "free", kind |-> "create", name |-> Boss, role |-> "viewer",
         stamp |-> 0, born |-> 0, shared |-> FALSE]

AccountsTypeOK ==
    /\ users \in [Account -> AccountType]
    /\ store \in [users : [Account -> AccountType], whole : BOOLEAN]
    /\ handler \in [Handler -> AccountCall]
    /\ tangled \in BOOLEAN /\ unsaved \in BOOLEAN /\ replaced \in BOOLEAN
    /\ accountCalls \in Stamp
    /\ saveFailures \in 0..MaxSaveFailures
    /\ crashes \in 0..MaxCrashes

\* No file is as good as one without an account.
AccountsInit ==
    /\ users = SeededUsers
    /\ store = [users |-> [n \in Account |-> NoAccount], whole |-> TRUE]
    /\ handler = [h \in Handler |-> Free]
    /\ tangled = FALSE
    /\ unsaved = FALSE
    /\ replaced = FALSE
    /\ accountCalls = 0
    /\ saveFailures = 0
    /\ crashes = 0

Exists(n) == users[n].role # "none"
Admins == {n \in Account : users[n].role = "admin"}
Saving(h) == handler[h].at = "dump"

\* A call of h begins; the bound counts the calls.
CallBegins(h) ==
    /\ handler[h].at = "free"
    /\ accountCalls < MaxAccountCalls
    /\ accountCalls' = accountCalls + 1

\* create_user: the name is free; what is refused changes nothing.
CreateUser(h, n, role) ==
    /\ CallBegins(h)
    /\ ~Exists(n)
    /\ handler' = [handler EXCEPT ![h] = [Free EXCEPT !.at = "hash", !.name = n, !.role = role,
                                                     !.stamp = accountCalls + 1]]
    /\ UNCHANGED <<users, store, tangled, unsaved, replaced, saveFailures, crashes>>

\* change_password, in a thread, and admin_set_password, on the loop: the account is looked
\* up, and its object held while the password is hashed.
SetPassword(h, n) ==
    /\ CallBegins(h)
    /\ Exists(n)
    /\ handler' = [handler EXCEPT ![h] = [Free EXCEPT !.at = "hash", !.kind = "password",
                                                     !.name = n, !.stamp = accountCalls + 1,
                                                     !.born = users[n].born]]
    /\ UNCHANGED <<users, store, tangled, unsaved, replaced, saveFailures, crashes>>

\* The password is hashed, and the dictionary, or the object that was looked up, changed.
Hashed(h) ==
    /\ handler[h].at = "hash"
    /\ LET c == handler[h]
       IN  /\ users' =
                IF c.kind = "create"
                THEN [users EXCEPT ![c.name] =
                        [role |-> c.role, secret |-> c.stamp, born |-> c.stamp]]
                ELSE IF Exists(c.name) /\ users[c.name].born = c.born
                THEN [users EXCEPT ![c.name].secret = c.stamp]
                ELSE users
           /\ replaced' = (replaced \/ (c.kind = "create" /\ Exists(c.name)))
    /\ handler' = [handler EXCEPT ![h].at = "open"]
    /\ UNCHANGED <<store, tangled, unsaved, accountCalls, saveFailures, crashes>>

\* A bug: the number of admins is compared with zero, and not with one.
DeleteUserOffByOne(n) ==
    /\ CallBegins(EventLoop)
    /\ Exists(n)
    /\ Admins # {}
    /\ users' = [users EXCEPT ![n] = NoAccount]
    /\ handler' = [handler EXCEPT ![EventLoop] = [Free EXCEPT !.at = "open", !.name = n]]
    /\ UNCHANGED <<store, tangled, unsaved, replaced, saveFailures, crashes>>

\* delete_user, on the loop: the last admin stays.
DeleteUser(n) ==
    /\ CallBegins(EventLoop)
    /\ Exists(n)
    /\ Admins # {n}
    /\ users' = [users EXCEPT ![n] = NoAccount]
    /\ handler' = [handler EXCEPT ![EventLoop] = [Free EXCEPT !.at = "open", !.name = n]]
    /\ UNCHANGED <<store, tangled, unsaved, replaced, saveFailures, crashes>>

\* _save_users: the file is opened, and emptied; a save that is under way shares it.
OpenStore(h) ==
    /\ handler[h].at = "open"
    /\ store' = [store EXCEPT !.whole = FALSE]
    /\ LET others == {g \in Handler : Saving(g)}
       IN  handler' = [g \in Handler |->
              CASE g = h -> [handler[g] EXCEPT !.at = "dump", !.shared = others # {}]
                [] g \in others -> [handler[g] EXCEPT !.shared = TRUE]
                [] OTHER -> handler[g]]
    /\ UNCHANGED <<users, tangled, unsaved, replaced, accountCalls, saveFailures, crashes>>

\* The store is written.  With another save on the file, or an account added or removed
\* while the dictionary is walked through, what is in the file need not be whole.
DumpStore(h) ==
    /\ Saving(h)
    /\ LET alone == /\ ~handler[h].shared
                    /\ \A g \in Handler \ {h} : handler[g].at = "free"
       IN  /\ \/ store' = [users |-> users, whole |-> TRUE]
              \/ ~alone /\ \E whole \in {FALSE, store.whole} : store' = [store EXCEPT !.whole = whole]
           /\ tangled' = ~alone
           /\ unsaved' = (unsaved /\ ~alone)
    /\ handler' = [handler EXCEPT ![h] = Free]
    /\ UNCHANGED <<users, replaced, accountCalls, saveFailures, crashes>>

\* _save_users, when the directory cannot be made, the file not opened, or not written to its
\* end: the OSError is logged, and the call returns as if the change had been kept.  What a
\* dump that failed leaves in the file need not be whole, and a save under way may have been
\* past the account that changed.
SaveFails(h) ==
    /\ handler[h].at \in {"open", "dump"}
    /\ saveFailures < MaxSaveFailures
    /\ saveFailures' = saveFailures + 1
    /\ \/ UNCHANGED store
       \/ Saving(h) /\ store' = [store EXCEPT !.whole = FALSE]
    /\ handler' = [g \in Handler |->
          IF g = h THEN Free ELSE [handler[g] EXCEPT !.shared = @ \/ Saving(g)]]
    /\ unsaved' = TRUE
    /\ UNCHANGED <<users, tangled, replaced, accountCalls, crashes>>

\* A bug: the seeded accounts win over the saved ones.
LoadUsersSeeded ==
    [n \in Account |-> IF store.whole /\ n \notin Seeded THEN store.users[n] ELSE SeededUsers[n]]

\* _load_users: the saved accounts win; a file that cannot be parsed counts for nothing.
LoadUsers ==
    [n \in Account |-> IF store.whole /\ store.users[n].role # "none"
                       THEN store.users[n] ELSE SeededUsers[n]]

\* The process ends, at any point, and a new one starts.
AccountsRestart ==
    /\ crashes < MaxCrashes
    /\ crashes' = crashes + 1
    /\ users' = LoadUsers
    /\ handler' = [h \in Handler |-> Free]
    /\ tangled' = (tangled \/ \E h \in Handler : Saving(h))
    /\ unsaved' = FALSE
    /\ UNCHANGED <<store, replaced, accountCalls, saveFailures>>

AccountsNext ==
    \/ \E n \in Account :
          \/ \E h \in Handler, role \in {"admin", "viewer"} : CreateUser(h, n, role)
          \/ \E h \in Handler : SetPassword(h, n)
          \/ DeleteUser(n)
    \/ \E h \in Handler : Hashed(h) \/ OpenStore(h) \/ DumpStore(h) \/ SaveFails(h)
    \/ AccountsRestart

AccountsSpec == AccountsInit /\ [][AccountsNext]_accountVars

-----------------------------------------------------------------------------

\* A restart would load what there is: every account with its role and its password, and no
\* other that was created.  (A seeded account that was deleted comes back.)
AccountsKept == \A n \in Account : (Exists(n) \/ n \notin Seeded) => LoadUsers[n] = users[n]

BetweenCalls == \A h \in Handler : handler[h].at = "free"

\* Between calls, a restart would load what there is, if the last save that failed was
\* followed by a good one: the next save makes up for a lost one.  Two saves that overlapped,
\* or one that was cut off, may have left less, and so may one that failed, which
\* _save_users logs and does not report (AccountsSurvive is what that breaks).
RestartKeepsAccounts == (BetweenCalls /\ ~tangled /\ ~unsaved) => AccountsKept

\* "accounts and password changes SURVIVE a backend restart", by the comment in __init__ of
\* UserDatabase: between calls, without saves that overlapped or were cut off, a restart
\* would load what there is.  It does not, when a save failed and the call reported success.
AccountsSurvive == (BetweenCalls /\ ~tangled) => AccountsKept

\* Some account is an admin, now and after a restart at this very moment, whatever is
\* created, deleted and saved together, and whichever saves fail, unless two creates of one
\* name passed their check together and the second put its role over the first.
AdminRemains ==
    ~replaced => /\ Admins # {}
                 /\ \E n \in Account : LoadUsers[n].role = "admin"

=============================================================================

------------------------------- MODULE Inventory -------------------------------
(***************************************************************************)
(* NetboxInventory.get_all_devices of inventory/netbox_client.py: the      *)
(* device list of NetBox, read by the threads that need it through one     *)
(* cache that they share.                                                  *)
(*                                                                         *)
(* The lock is held to look into the cache and to fill it, never while     *)
(* NetBox is read, so several threads read at once and the last to end     *)
(* leaves its list.  Time is counted in ticks; the inventory is a version, *)
(* which every edit in NetBox makes anew.                                  *)
(***************************************************************************)
EXTENDS Integers

CONSTANTS Reader,      \* threads that read the inventory
          Ttl,         \* NETBOX_CACHE_SECONDS, in ticks; 0 is without a cache
          ReadTime,    \* what one read may last, in ticks: every call is bounded by NETBOX_TIMEOUT
          NoDevices,   \* the empty list that a failed read answers
          MaxEdits, MaxOutages, LastTick

ASSUME InventoryAssumption ==
    /\ Ttl \in Nat /\ ReadTime \in Nat
    /\ MaxEdits \in Nat /\ MaxOutages \in Nat /\ LastTick \in Nat
    /\ NoDevices \notin Nat

VARIABLES now,        \* the clock
          netbox,     \* the version of the inventory
          overtaken,  \* history: overtaken[v] is when version v was edited
          up,         \* NetBox can be reached
          cache,      \* _cached_devices and _cached_at; NoDevices before the first read
          reader,     \* reader[r]: where thread r stands, and what it has read since when
          answer,     \* answer[r]: the last answer of get_all_devices to thread r
          outages     \* outages so far

inventoryVars == <<now, netbox, overtaken, up, cache, reader, answer, outages>>

Edition == 0..MaxEdits
Devices == Edition \cup {NoDevices}
Tick == 0..LastTick

\* error: last_error is set; late: for how long the list had been out of date.
NoAnswerGiven == [devices |-> NoDevices, error |-> TRUE, late |-> 0]
NotReading == [at |-> "idle", got |-> NoDevices, since |-> 0]

InventoryTypeOK ==
    /\ now \in Tick
    /\ netbox \in Edition
    /\ overtaken \in [Edition -> Tick]
    /\ up \in BOOLEAN
    /\ cache \in [devices : Devices, at : Tick]
    /\ reader \in [Reader -> [at : {"idle", "fetch", "store"}, got : Devices, since : Tick]]
    /\ answer \in [Reader -> [devices : Devices, error : BOOLEAN, late : Tick]]
    /\ outages \in 0..MaxOutages

InventoryInit ==
    /\ now = 0
    /\ netbox = 0
    /\ overtaken = [v \in Edition |-> 0]
    /\ up = TRUE
    /\ cache = [devices |-> NoDevices, at |-> 0]
    /\ reader = [r \in Reader |-> NotReading]
    /\ answer = [r \in Reader |-> NoAnswerGiven]
    /\ outages = 0

Late(d) == IF d \in Edition \ {netbox} THEN now - overtaken[d] ELSE 0

Answers(r, d, failed) ==
    answer' = [answer EXCEPT ![r] = [devices |-> d, error |-> failed, late |-> Late(d)]]

Fresh == cache.devices # NoDevices /\ now - cache.at < Ttl

\* A bug: every hit makes the list young again.
ReadCacheRenewed(r) ==
    /\ reader[r].at = "idle"
    /\ Fresh
    /\ Answers(r, cache.devices, FALSE)
    /\ cache' = [cache EXCEPT !.at = now]
    /\ UNCHANGED <<now, netbox, overtaken, up, reader, outages>>

\* A fresh list is answered from the cache, and last_error cleared.
ReadCache(r) ==
    /\ reader[r].at = "idle"
    /\ Fresh
    /\ Answers(r, cache.devices, FALSE)
    /\ UNCHANGED <<now, netbox, overtaken, up, cache, reader, outages>>

BeginRead(r) ==
    /\ reader[r].at = "idle"
    /\ ~Fresh
    /\ reader' = [reader EXCEPT ![r] = [NotReading EXCEPT !.at = "fetch", !.since = now]]
    /\ UNCHANGED <<now, netbox, overtaken, up, cache, answer, outages>>

\* NetBox answers the list.  (Of the lookups of MAC addresses that follow, one that
\* fails leaves its address out and the list as good as another.)
Fetch(r) ==
    /\ reader[r].at = "fetch"
    /\ up
    /\ reader' = [reader EXCEPT ![r].at = "store", ![r].got = netbox]
    /\ UNCHANGED <<now, netbox, overtaken, up, cache, answer, outages>>

\* The list becomes the cache's, whatever another thread has put there, and the answer.
Store(r) ==
    /\ reader[r].at = "store"
    /\ cache' = IF Ttl > 0 THEN [devices |-> reader[r].got, at |-> now] ELSE cache
    /\ Answers(r, reader[r].got, FALSE)
    /\ reader' = [reader EXCEPT ![r] = NotReading]
    /\ UNCHANGED <<now, netbox, overtaken, up, outages>>

\* A call times out or fails, before the list or after it: an empty list, with last_error.
ReadFails(r) ==
    /\ reader[r].at # "idle"
    /\ ~up
    /\ Answers(r, NoDevices, TRUE)
    /\ reader' = [reader EXCEPT ![r] = NotReading]
    /\ UNCHANGED <<now, netbox, overtaken, up, cache, outages>>

\* invalidate_device_cache, which nothing calls, is left out.

EditInventory ==
    /\ netbox < MaxEdits
    /\ netbox' = netbox + 1
    /\ overtaken' = [overtaken EXCEPT ![netbox] = now]
    /\ UNCHANGED <<now, up, cache, reader, answer, outages>>

GoDown ==
    /\ up /\ outages < MaxOutages
    /\ up' = FALSE
    /\ outages' = outages + 1
    /\ UNCHANGED <<now, netbox, overtaken, cache, reader, answer>>

ComeUp ==
    /\ ~up
    /\ up' = TRUE
    /\ UNCHANGED <<now, netbox, overtaken, cache, reader, answer, outages>>

\* Time passes, and no read lasts longer than its calls may.
TimePasses ==
    /\ now < LastTick
    /\ \A r \in Reader : reader[r].at # "idle" => now - reader[r].since < ReadTime
    /\ now' = now + 1
    /\ UNCHANGED <<netbox, overtaken, up, cache, reader, answer, outages>>

ReadStep(r) == ReadCache(r) \/ BeginRead(r) \/ Fetch(r) \/ Store(r) \/ ReadFails(r)

InventoryNext ==
    \/ \E r \in Reader : ReadStep(r)
    \/ EditInventory \/ GoDown \/ ComeUp \/ TimePasses

InventorySpec == InventoryInit /\ [][InventoryNext]_inventoryVars

-----------------------------------------------------------------------------

\* "picking up genuine inventory edits within seconds": what is answered without an error
\* is a list that NetBox had, and had less than a read and a cache's life ago, also when a
\* slow read put an older list over a newer one.
AnswersAreRecent ==
    \A r \in Reader : ~answer[r].error =>
        /\ answer[r].devices # NoDevices
        /\ answer[r].late <= ReadTime \/ answer[r].late < Ttl + ReadTime

=============================================================================

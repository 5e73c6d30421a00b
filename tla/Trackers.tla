------------------------------ MODULE Trackers ------------------------------
(***************************************************************************)
(* The client trackers of several entries and their rows in the entity     *)
(* registry: device_tracker.py creates one per client its router lists,    *)
(* __init__.py migrates the rows of older versions at setup, and the       *)
(* clean-up (helpers.py, called by a service for every entry and by a      *)
(* button for its own) removes those of clients that are gone.             *)
(***************************************************************************)
EXTENDS Naturals

CONSTANTS
  Entries,   \* config entries of the integration
  Macs,      \* clients, which more than one router may list
  Bare       \* scope of a unique id that is the MAC alone

ASSUME TrackersAssumption == Bare \notin Entries

VARIABLES
  rows,      \* the registry: unique ids and the entries that own them
  loaded,    \* entries that are set up
  payload,   \* per entry: clients in the data published last, none before
  tracked,   \* per entry: the closure's tracked_macs
  adding,    \* per entry: entities handed to Home Assistant, without a row yet
  swept      \* history, per entry: clients removed, as gone, since its setup

trackerVars == <<rows, loaded, payload, tracked, adding, swept>>

Uids == [scope : Entries \cup {Bare}, mac : Macs]
Rows == [entry : Entries, uid : Uids]

UidBare(e, m) == [scope |-> Bare, mac |-> m]   \* mutant: `ScannerEntity.unique_id`
Uid(e, m) == [scope |-> e, mac |-> m]
Row(e, m) == [entry |-> e, uid |-> Uid(e, m)]
RowsOf(e, m) == {r \in rows : r.entry = e /\ r.uid.mac = m}

(* Older versions left bare rows, of which the registry holds one a MAC.   *)
Legacy(r) == r.uid.scope \in {Bare, r.entry}
Distinct(r, s) == r.uid # s.uid /\ (r.entry = s.entry => r.uid.mac # s.uid.mac)

TrackersInit ==
  /\ rows \in SUBSET Rows
  /\ \A r \in rows : Legacy(r)
  /\ \A r \in rows, s \in rows : r # s => Distinct(r, s)
  /\ loaded = {}
  /\ payload = [e \in Entries |-> {}]
  /\ tracked = [e \in Entries |-> {}]
  /\ adding = [e \in Entries |-> {}]
  /\ swept = [e \in Entries |-> {}]

-----------------------------------------------------------------------------
(* `_async_migrate_tracker_unique_ids`, on the rows of one entry.          *)
Migrated(e) == {IF r.entry = e THEN Row(e, r.uid.mac) ELSE r : r \in rows}

(* `async_setup_entry`: a coordinator without data, rows migrated, then    *)
(* the platform, which finds no client yet.                                *)
Setup(e) ==
  /\ e \notin loaded /\ loaded' = loaded \cup {e}
  /\ rows' = Migrated(e)
  /\ swept' = [swept EXCEPT ![e] = {}]
  /\ UNCHANGED <<payload, tracked, adding>>

(* The platform, the closure and the additions under way go with it.       *)
Unload(e) ==
  /\ e \in loaded /\ loaded' = loaded \ {e}
  /\ payload' = [payload EXCEPT ![e] = {}]
  /\ tracked' = [tracked EXCEPT ![e] = {}]
  /\ adding' = [adding EXCEPT ![e] = {}]
  /\ UNCHANGED <<rows, swept>>

(* A served poll publishes and calls the listener; a host list that could  *)
(* not be read lists nobody.                                               *)
Poll(e) ==
  /\ e \in loaded
  /\ \E hosts \in SUBSET Macs :
       /\ payload' = [payload EXCEPT ![e] = hosts]
       /\ adding' = [adding EXCEPT ![e] = @ \cup (hosts \ tracked[e])]
       /\ tracked' = [tracked EXCEPT ![e] = @ \cup hosts]
  /\ UNCHANGED <<rows, loaded, swept>>

(* Home Assistant adds one, after the refresh `update_before_add` awaits:  *)
(* a row that has its id is taken up, another entry's id is refused.       *)
Added(e, m) ==
  /\ m \in adding[e]
  /\ adding' = [adding EXCEPT ![e] = @ \ {m}]
  /\ rows' = IF \E r \in rows : r.uid = Uid(e, m) THEN rows ELSE rows \cup {Row(e, m)}
  /\ UNCHANGED <<loaded, payload, tracked, swept>>

-----------------------------------------------------------------------------
(* `_stale_tracker_entities`.                                              *)
Stale(e) ==
  {r \in rows : r.entry = e /\ payload[e] # {} /\ r.uid.scope = e
                /\ r.uid.mac \notin payload[e]}

(* The rows and their entities; `tracked_macs` still names the clients.    *)
RemoveStale(targets) ==
  /\ rows' = rows \ UNION {Stale(e) : e \in targets}
  /\ swept' = [e \in Entries |->
       IF e \in targets /\ payload[e] # {}
       THEN swept[e] \cup {m \in Macs \ payload[e] : RowsOf(e, m) # {}}
       ELSE swept[e]]
  /\ UNCHANGED <<loaded, payload, tracked, adding>>

(* The service, unless it is a dry run: every entry with `runtime_data`.   *)
CleanUp == RemoveStale(loaded)

(* `HuaweiCleanupButton`.                                                  *)
Press(e) == e \in loaded /\ RemoveStale({e})

-----------------------------------------------------------------------------
TrackersNext ==
  \/ CleanUp
  \/ \E e \in Entries :
       Setup(e) \/ Unload(e) \/ Poll(e) \/ Press(e) \/ \E m \in Macs : Added(e, m)

TrackersSpec == TrackersInit /\ [][TrackersNext]_trackerVars

-----------------------------------------------------------------------------
TrackersTypeOK ==
  /\ rows \subseteq Rows /\ loaded \subseteq Entries
  /\ payload \in [Entries -> SUBSET Macs]
  /\ tracked \in [Entries -> SUBSET Macs]
  /\ adding \in [Entries -> SUBSET Macs]
  /\ swept \in [Entries -> SUBSET Macs]

(* "One entity per client the router has seen" (device_tracker.py:89): a   *)
(* client an entry lists has one row under that entry, whatever another    *)
(* router lists, older versions left, or a clean-up or outage did, unless  *)
(* it was removed as gone since the entry was set up.                      *)
Listed(e) == payload[e] \ (adding[e] \cup swept[e])

OneTracker ==
  \A e \in Entries :
    /\ \A r \in rows, s \in rows :
         (r.entry = e /\ s.entry = e /\ r.uid.mac = s.uid.mac) => r = s
    /\ \A m \in Listed(e) : RowsOf(e, m) # {}
=============================================================================

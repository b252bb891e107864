------------------------------ MODULE AuthRecords ------------------------------
(***************************************************************************)
(* The auth files that CPA keeps for the plugin's API keys, and the two    *)
(* writers the plugin has: a lifecycle call materializes a file for every  *)
(* key of its configuration that has none (plugin.go), and a quota refresh *)
(* rewrites a file with the subscriber's email (quota.go).  Lifecycle      *)
(* calls come one at a time, under lifeMu; quota refreshes run beside them *)
(* and beside each other, and nothing keeps CPA and its user from writing  *)
(* the files meanwhile.                                                    *)
(*                                                                         *)
(* Every list, read and save is a host callback of its own.  A callback    *)
(* whose time is up goes on in the host (HostBridge): a save that was      *)
(* given up may still be carried out, at any later time.                   *)
(***************************************************************************)
EXTENDS Naturals, FiniteSets

CONSTANTS
  Keys,      \* API keys; the name of a file is the digest of its key
  Emails,    \* what the Console may call the subscriber
  NoEmail,
  NoKey,
  Fetches,   \* quota refreshes
  Lifecycle, \* who saves for a lifecycle call
  Nobody,    \* who waits for a save that was given up
  MaxEdits,  \* bound on the writes of CPA and its user
  MaxSaves   \* bound on the saves under way at a time

ASSUME NothingAssumption == NoEmail \notin Emails /\ NoKey \notin Keys
ASSUME CallersAssumption == Lifecycle \notin Fetches /\ Nobody \notin Fetches \cup {Lifecycle}
ASSUME BoundsAssumption == MaxEdits \in Nat /\ MaxSaves \in Nat

VARIABLES
  records,    \* the files: at most one record per key
  edits,      \* writes of CPA and its user so far
  removed,    \* keys whose file was removed, and not written since
  installed,  \* the keys of the configuration in force
  cycle,      \* the lifecycle call under way
  fetch,      \* the quota refreshes
  saves       \* saves that the host has not carried out

vars == <<records, edits, removed, installed, cycle, fetch, saves>>

\* The api key is the one the name stands for; note is everything in the
\* file that the plugin does not write: CPA's metadata, the user's settings.
Record == [email : Emails \cup {NoEmail}, note : 0..MaxEdits, disabled : BOOLEAN]

\* The files of one key: none, or one.
File == {{}} \cup {{r} : r \in Record}

\* base is the file as the saver knew it, number tells apart saves that look
\* the same.
Save == [number : 1..MaxSaves, by : Fetches \cup {Lifecycle, Nobody}, key : Keys,
         record : Record, base : File]

Idle == [pc |-> "idle", keys |-> {}, todo |-> {}, listed |-> [k \in Keys |-> {}]]
Resting == [pc |-> "idle", key |-> NoKey, email |-> NoEmail]
Refresh == {Resting} \cup [pc : {"list", "get", "wait"}, key : Keys, email : Emails]

Init ==
  /\ records = [k \in Keys |-> {}]
  /\ edits = 0 /\ removed = {} /\ installed = {}
  /\ cycle = Idle
  /\ fetch = [f \in Fetches |-> Resting]
  /\ saves = {}

-----------------------------------------------------------------------------
(* Callbacks.                                                              *)

Pending(caller) == {s \in saves : s.by = caller}

\* caller sends a save and waits for it.
Sends(caller, key, record, base) ==
  \E n \in 1..MaxSaves :
    /\ \A s \in saves : s.number # n
    /\ \A m \in 1..n - 1 : \E s \in saves : s.number = m
    /\ saves' = saves \cup {[number |-> n, by |-> caller, key |-> key,
                             record |-> record, base |-> base]}

\* The host writes the file, whether anybody waits for it or not.
Lands ==
  \E s \in saves :
    /\ records' = [records EXCEPT ![s.key] = {s.record}]
    /\ removed' = removed \ {s.key}
    /\ saves' = saves \ {s}
    /\ UNCHANGED <<edits, installed, cycle, fetch>>

\* Fault: the answer of an abandoned save is taken by the next.
AbandonedHeard(caller) == UNCHANGED saves

\* The caller gives up after the time limit, with its save still in the host,
\* or done there and not answered.
Abandoned(caller) ==
  saves' = {IF s.by = caller THEN [s EXCEPT !.by = Nobody] ELSE s : s \in saves}

\* The host fails the save.
Refused(caller) ==
  /\ Pending(caller) # {}
  /\ saves' = saves \ Pending(caller)

-----------------------------------------------------------------------------
(* A lifecycle call, materializeAuthRecords.                               *)

\* handleLifecycle up to the list: the configuration is valid, so it has a
\* key and no key twice.
Configures ==
  \E keys \in SUBSET Keys \ {{}} :
    /\ cycle.pc = "idle"
    /\ cycle' = [Idle EXCEPT !.pc = "list", !.keys = keys]
    /\ UNCHANGED <<records, edits, removed, installed, fetch, saves>>

\* Fault: keys that have a file are written again.
MissingAll(keys, listed) == keys

\* The keys without a file, when CPA was asked.
Missing(keys, listed) == {k \in keys : listed[k] = {}}

Lists ==
  LET todo == Missing(cycle.keys, records)
  IN  /\ cycle.pc = "list"
      /\ cycle' = [cycle EXCEPT !.pc = "save", !.todo = todo,
                    !.listed = [k \in Keys |-> IF k \in todo THEN records[k] ELSE {}]]
      /\ UNCHANGED <<records, edits, removed, installed, fetch, saves>>

Fresh == [email |-> NoEmail, note |-> 0, disabled |-> FALSE]

\* One key after the other, in the order of the configuration.
Materializes ==
  \E k \in cycle.todo :
    /\ cycle.pc = "save"
    /\ Sends(Lifecycle, k, Fresh, cycle.listed[k])
    /\ cycle' = [cycle EXCEPT !.pc = "wait", !.todo = @ \ {k}]
    /\ UNCHANGED <<records, edits, removed, installed, fetch>>

Materialized ==
  /\ cycle.pc = "wait" /\ Pending(Lifecycle) = {}
  /\ cycle' = [cycle EXCEPT !.pc = "save"]
  /\ UNCHANGED <<records, edits, removed, installed, fetch, saves>>

\* Fault: an error of a save does not end the call.
GoesOn == cycle' = [cycle EXCEPT !.pc = "save"]

\* Any error ends the call; what was saved stays, the old configuration too.
Aborts == cycle' = Idle

CycleFails ==
  /\ \/ cycle.pc = "list" /\ UNCHANGED saves
     \/ cycle.pc = "wait" /\ Refused(Lifecycle)
     \/ cycle.pc = "wait" /\ Abandoned(Lifecycle)
  /\ Aborts
  /\ UNCHANGED <<records, edits, removed, installed, fetch>>

\* The rest of handleLifecycle, whose catalog cannot make it fail.
Installs ==
  /\ cycle.pc = "save" /\ cycle.todo = {}
  /\ installed' = cycle.keys
  /\ cycle' = Idle
  /\ UNCHANGED <<records, edits, removed, fetch, saves>>

-----------------------------------------------------------------------------
(* A quota refresh, FetchQuota and persistEmail.                           *)

\* CPA asks for the quota of a credential it has a file for, and the Console
\* tells the subscriber's email.
Fetched(f) ==
  \E k \in Keys, email \in Emails :
    /\ fetch[f].pc = "idle" /\ records[k] # {}
    /\ fetch' = [fetch EXCEPT ![f] = [pc |-> "list", key |-> k, email |-> email]]
    /\ UNCHANGED <<records, edits, removed, installed, cycle, saves>>

Done(f) == fetch' = [fetch EXCEPT ![f] = Resting]

\* The file is to be rewritten: it is there, enabled, with another email.
Outdated(f) == \E r \in records[fetch[f].key] : ~r.disabled /\ r.email # fetch[f].email

FetchLists(f) ==
  /\ fetch[f].pc = "list"
  /\ IF Outdated(f) THEN fetch' = [fetch EXCEPT ![f].pc = "get"] ELSE Done(f)
  /\ UNCHANGED <<records, edits, removed, installed, cycle, saves>>

\* Fault: only the fields the plugin knows are written back.
WithEmailOnly(record, email) == [Fresh EXCEPT !.email = email]

WithEmail(record, email) == [record EXCEPT !.email = email]

FetchGets(f) ==
  /\ fetch[f].pc = "get"
  /\ \E r \in records[fetch[f].key] :
       Sends(f, fetch[f].key, WithEmail(r, fetch[f].email), {r})
  /\ fetch' = [fetch EXCEPT ![f].pc = "wait"]
  /\ UNCHANGED <<records, edits, removed, installed, cycle>>

FetchAnswered(f) ==
  /\ fetch[f].pc = "wait" /\ Pending(f) = {}
  /\ Done(f)
  /\ UNCHANGED <<records, edits, removed, installed, cycle, saves>>

\* A failure is logged, and the reading is returned without it.
FetchFails(f) ==
  /\ \/ fetch[f].pc \in {"list", "get"} /\ UNCHANGED saves
     \/ fetch[f].pc = "wait" /\ Refused(f)
     \/ fetch[f].pc = "wait" /\ Abandoned(f)
  /\ Done(f)
  /\ UNCHANGED <<records, edits, removed, installed, cycle>>

-----------------------------------------------------------------------------
(* CPA and its user.                                                       *)

\* A file is added, or its settings change.
Edits ==
  \E k \in Keys, disabled \in BOOLEAN :
    /\ edits < MaxEdits
    /\ edits' = edits + 1
    /\ records' = [records EXCEPT ![k] =
         {[email    |-> IF @ = {} THEN NoEmail ELSE (CHOOSE r \in @ : TRUE).email,
           note     |-> edits + 1,
           disabled |-> disabled]}]
    /\ removed' = removed \ {k}
    /\ UNCHANGED <<installed, cycle, fetch, saves>>

Removes ==
  \E k \in Keys :
    /\ edits < MaxEdits /\ records[k] # {}
    /\ edits' = edits + 1
    /\ records' = [records EXCEPT ![k] = {}]
    /\ removed' = removed \cup {k}
    /\ UNCHANGED <<installed, cycle, fetch, saves>>

Next ==
  \/ Configures \/ Lists \/ Materializes \/ Materialized \/ CycleFails \/ Installs
  \/ \E f \in Fetches : Fetched(f) \/ FetchLists(f) \/ FetchGets(f)
                        \/ FetchAnswered(f) \/ FetchFails(f)
  \/ Lands \/ Edits \/ Removes

Spec == Init /\ [][Next]_vars

-----------------------------------------------------------------------------
(* Properties.                                                             *)

\* A save that somebody waits for is the one he sent last.
Awaited ==
  \A s \in saves :
    /\ s.by = Lifecycle => cycle.pc = "wait" /\ s.key \in cycle.keys \ cycle.todo
    /\ s.by \in Fetches => fetch[s.by].pc = "wait" /\ s.key = fetch[s.by].key

\* The state has its type, and no answer can reach a caller who has given up
\* on it: callWithTimeout leaves it in a channel nobody reads.
TypeOK ==
  /\ records \in [Keys -> File]
  /\ edits \in 0..MaxEdits
  /\ removed \in SUBSET Keys /\ installed \in SUBSET Keys
  /\ cycle \in [pc : {"idle", "list", "save", "wait"}, keys : SUBSET Keys,
                todo : SUBSET Keys, listed : [Keys -> File]]
  /\ fetch \in [Fetches -> Refresh]
  /\ saves \in SUBSET Save
  /\ Awaited

\* A configuration is in force only with a file for each of its keys, unless
\* a user has removed it, however many saves failed, timed out or came late
\* on the way.
InstalledHaveRecords ==
  \A k \in installed : records[k] # {} \/ k \in removed

\* persistEmail keeps the other fields of a file and materialization never
\* overwrites one, with a single exception: a file written between the
\* plugin's last look at it and its save.
Unseen(s) == records[s.key] # s.base
OnlyEmail(file, record) == \A r \in file : record = [r EXCEPT !.email = record.email]

OthersWritesKept ==
  [][\A k \in Keys : edits' = edits /\ records'[k] # records[k] =>
       \E s \in saves \ saves' :
         /\ s.key = k
         /\ Unseen(s) \/ OnlyEmail(records[k], s.record)]_vars
=============================================================================

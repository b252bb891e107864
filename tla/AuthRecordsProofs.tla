--------------------------- MODULE AuthRecordsProofs ---------------------------
(***************************************************************************)
(* Proofs, for any set of keys, emails and quota refreshes, and without a  *)
(* bound on what is under way, of the invariants and of the action         *)
(* property of AuthRecords.                                                *)
(***************************************************************************)
EXTENDS AuthRecords, TLAPS

\* The key's file is there, or a user has removed it.
Kept(k) == records[k] # {} \/ k \in removed

\* What a lifecycle call has still to save had no file when it asked.
TodoMissing ==
  /\ cycle.todo \subseteq cycle.keys
  /\ \A k \in cycle.todo : cycle.listed[k] = {}

\* A save changes nothing but the email of the file as its sender knew it.
SavesHonest == \A s \in saves : OnlyEmail(s.base, s.record)

\* Past the list, every key is to be saved, being saved, or has its file.
Progress ==
  cycle.pc \in {"save", "wait"} =>
    \A k \in cycle.keys \ cycle.todo :
      Kept(k) \/ \E s \in saves : s.by = Lifecycle /\ s.key = k

IndInv == TypeOK /\ TodoMissing /\ SavesHonest /\ Progress /\ InstalledHaveRecords

-----------------------------------------------------------------------------
(* Files, saves and those who wait for them.                               *)

LEMMA Callers ==
  /\ Lifecycle \notin Fetches /\ Nobody \notin Fetches /\ Nobody # Lifecycle
  /\ NoKey \notin Keys
BY CallersAssumption, NothingAssumption DEF CallersAssumption, NothingAssumption

LEMMA FreshRecord == Fresh \in Record
BY BoundsAssumption DEF BoundsAssumption, Fresh, Record

LEMMA IdleTyped ==
  /\ Idle \in [pc : {"idle", "list", "save", "wait"}, keys : SUBSET Keys,
               todo : SUBSET Keys, listed : [Keys -> File]]
  /\ Idle.pc = "idle" /\ Idle.keys = {} /\ Idle.todo = {}
BY DEF Idle, File

LEMMA RestingTyped ==
  /\ Resting \in Refresh
  /\ Resting.pc = "idle"
BY DEF Resting, Refresh

LEMMA EmailOnly ==
  ASSUME NEW r \in Record, NEW e \in Emails \cup {NoEmail}
  PROVE  WithEmail(r, e) \in Record /\ OnlyEmail({r}, WithEmail(r, e))
<1>1. WithEmail(r, e).email = e
  BY DEF WithEmail, Record
<1>2. QED
  BY <1>1 DEF WithEmail, OnlyEmail, Record

LEMMA FileOfRecord ==
  ASSUME NEW r \in Record
  PROVE  {r} \in File /\ {r} # {}
BY DEF File

\* What is known of a save that was just sent.
LEMMA SendsOne ==
  ASSUME saves \subseteq Save,
         NEW caller \in Fetches \cup {Lifecycle}, NEW k \in Keys, NEW r \in Record,
         NEW base \in File, Sends(caller, k, r, base)
  PROVE  \E new \in Save :
           /\ saves' = saves \cup {new}
           /\ new.by = caller /\ new.key = k /\ new.record = r /\ new.base = base
<1>1. PICK n \in 1..MaxSaves :
        saves' = saves \cup {[number |-> n, by |-> caller, key |-> k, record |-> r,
                              base |-> base]}
  BY DEF Sends
<1> DEFINE new == [number |-> n, by |-> caller, key |-> k, record |-> r, base |-> base]
<1>2. /\ new \in Save
      /\ new.by = caller /\ new.key = k /\ new.record = r /\ new.base = base
  BY DEF Save
<1>3. saves' = saves \cup {new}
  BY <1>1
<1> HIDE DEF new
<1>4. QED
  BY <1>2, <1>3

\* The saves after one caller gave up on his.
LEMMA AbandonedSaves ==
  ASSUME saves \subseteq Save, NEW caller \in Fetches \cup {Lifecycle}, Abandoned(caller)
  PROVE  /\ saves' \subseteq Save
         /\ \A t \in saves' : \E s \in saves :
              /\ t.key = s.key /\ t.record = s.record /\ t.base = s.base
              /\ t.by = IF s.by = caller THEN Nobody ELSE s.by
         /\ \A s \in saves : s.by # caller => s \in saves'
<1> DEFINE after(s) == IF s.by = caller THEN [s EXCEPT !.by = Nobody] ELSE s
<1>1. ASSUME NEW s \in Save
      PROVE  /\ after(s) \in Save
             /\ after(s).by = IF s.by = caller THEN Nobody ELSE s.by
             /\ after(s).key = s.key /\ after(s).record = s.record
             /\ after(s).base = s.base
             /\ s.by # caller => after(s) = s
  BY DEF Save
<1>2. saves' = {after(s) : s \in saves}
  BY DEF Abandoned
<1> HIDE DEF after
<1>3. \A t \in saves' : \E s \in saves : t = after(s)
  BY <1>2
<1>4. \A s \in saves : after(s) \in saves'
  BY <1>2
<1>5. QED
  BY <1>1, <1>3, <1>4

-----------------------------------------------------------------------------
(* The initial states, and the steps.                                      *)

LEMMA InitIndInv == Init => IndInv
<1> SUFFICES ASSUME Init PROVE IndInv
  OBVIOUS
<1>1. TypeOK
  BY IdleTyped, RestingTyped, BoundsAssumption
  DEF BoundsAssumption, Init, TypeOK, Awaited, File
<1>2. TodoMissing /\ SavesHonest /\ Progress /\ InstalledHaveRecords
  BY IdleTyped DEF Init, TodoMissing, SavesHonest, Progress, InstalledHaveRecords
<1>3. QED
  BY <1>1, <1>2 DEF IndInv

\* A step that writes no file and installs nothing keeps every key that was kept.
LEMMA SameFiles ==
  ASSUME InstalledHaveRecords, UNCHANGED <<records, removed, installed>>
  PROVE  InstalledHaveRecords' /\ \A k : Kept(k)' <=> Kept(k)
BY DEF InstalledHaveRecords, Kept

LEMMA ConfiguresKeeps ==
  ASSUME IndInv, Configures
  PROVE  IndInv'
<1>1. PICK keys \in SUBSET Keys :
        /\ cycle.pc = "idle"
        /\ cycle' = [Idle EXCEPT !.pc = "list", !.keys = keys]
        /\ UNCHANGED <<records, edits, removed, installed, fetch, saves>>
  BY DEF Configures
<1>2. /\ cycle' \in [pc : {"idle", "list", "save", "wait"}, keys : SUBSET Keys,
                     todo : SUBSET Keys, listed : [Keys -> File]]
      /\ cycle'.pc = "list" /\ cycle'.todo = {}
  BY <1>1, IdleTyped
<1>3. TypeOK'
  BY <1>1, <1>2 DEF IndInv, TypeOK, Awaited
<1>4. TodoMissing' /\ SavesHonest' /\ Progress'
  BY <1>1, <1>2 DEF IndInv, TodoMissing, SavesHonest, Progress
<1>5. QED
  BY <1>1, <1>3, <1>4, SameFiles DEF IndInv

LEMMA ListsKeeps ==
  ASSUME IndInv, Lists
  PROVE  IndInv'
<1> DEFINE todo == Missing(cycle.keys, records)
           listed == [k \in Keys |-> IF k \in todo THEN records[k] ELSE {}]
<1>1. /\ cycle.pc = "list"
      /\ cycle' = [cycle EXCEPT !.pc = "save", !.todo = todo, !.listed = listed]
      /\ UNCHANGED <<records, edits, removed, installed, fetch, saves>>
  BY DEF Lists
<1>2. /\ todo \subseteq cycle.keys
      /\ \A k \in todo : listed[k] = {}
      /\ \A k \in cycle.keys \ todo : records[k] # {}
      /\ listed \in [Keys -> File]
  <2>1. cycle.keys \subseteq Keys /\ records \in [Keys -> File] /\ {} \in File
    BY DEF IndInv, TypeOK, File
  <2>2. /\ todo \subseteq cycle.keys
        /\ \A k \in todo : records[k] = {}
        /\ \A k \in cycle.keys \ todo : records[k] # {}
    BY DEF Missing
  <2> HIDE DEF todo
  <2>3. QED
    BY <2>1, <2>2
<1> HIDE DEF todo, listed
<1>3. /\ cycle' \in [pc : {"idle", "list", "save", "wait"}, keys : SUBSET Keys,
                     todo : SUBSET Keys, listed : [Keys -> File]]
      /\ cycle'.pc = "save" /\ cycle'.keys = cycle.keys
      /\ cycle'.todo = todo /\ cycle'.listed = listed
  BY <1>1, <1>2 DEF IndInv, TypeOK
<1>4. TypeOK'
  BY <1>1, <1>3 DEF IndInv, TypeOK, Awaited
<1>5. TodoMissing' /\ SavesHonest' /\ Progress'
  BY <1>1, <1>2, <1>3 DEF IndInv, TodoMissing, SavesHonest, Progress, Kept
<1>6. QED
  BY <1>1, <1>4, <1>5, SameFiles DEF IndInv

LEMMA MaterializesKeeps ==
  ASSUME IndInv, Materializes
  PROVE  IndInv'
<1>1. PICK k \in cycle.todo :
        /\ cycle.pc = "save"
        /\ Sends(Lifecycle, k, Fresh, cycle.listed[k])
        /\ cycle' = [cycle EXCEPT !.pc = "wait", !.todo = @ \ {k}]
        /\ UNCHANGED <<records, edits, removed, installed, fetch>>
  BY DEF Materializes
<1>2. k \in Keys /\ k \in cycle.keys /\ cycle.listed[k] = {} /\ cycle.listed[k] \in File
  BY DEF IndInv, TypeOK, TodoMissing
<1>3. PICK new \in Save :
        /\ saves' = saves \cup {new}
        /\ new.by = Lifecycle /\ new.key = k /\ new.record = Fresh /\ new.base = {}
  <2>1. saves \subseteq Save /\ Lifecycle \in Fetches \cup {Lifecycle}
    BY DEF IndInv, TypeOK
  <2>2. \E new \in Save :
          /\ saves' = saves \cup {new}
          /\ new.by = Lifecycle /\ new.key = k /\ new.record = Fresh
          /\ new.base = cycle.listed[k]
    BY <2>1, <1>1, <1>2, FreshRecord, SendsOne
  <2>3. QED
    BY <2>2, <1>2
<1>4. /\ cycle' \in [pc : {"idle", "list", "save", "wait"}, keys : SUBSET Keys,
                     todo : SUBSET Keys, listed : [Keys -> File]]
      /\ cycle'.pc = "wait" /\ cycle'.keys = cycle.keys
      /\ cycle'.todo = cycle.todo \ {k} /\ cycle'.listed = cycle.listed
  BY <1>1 DEF IndInv, TypeOK
<1>5. \A s \in saves : s.by # Lifecycle
  BY <1>1 DEF IndInv, TypeOK, Awaited
<1>6. TypeOK'
  BY <1>1, <1>2, <1>3, <1>4, <1>5, Callers DEF IndInv, TypeOK, Awaited
<1>7. TodoMissing' /\ SavesHonest'
  BY <1>3, <1>4 DEF IndInv, TodoMissing, SavesHonest, OnlyEmail
<1>8. Progress'
  BY <1>1, <1>3, <1>4, <1>5 DEF IndInv, Progress, Kept
<1>9. QED
  BY <1>1, <1>6, <1>7, <1>8, SameFiles DEF IndInv

LEMMA MaterializedKeeps ==
  ASSUME IndInv, Materialized
  PROVE  IndInv'
<1>1. /\ cycle.pc = "wait" /\ \A s \in saves : s.by # Lifecycle
      /\ cycle' = [cycle EXCEPT !.pc = "save"]
      /\ UNCHANGED <<records, edits, removed, installed, fetch, saves>>
  BY DEF Materialized, Pending
<1>2. /\ cycle' \in [pc : {"idle", "list", "save", "wait"}, keys : SUBSET Keys,
                     todo : SUBSET Keys, listed : [Keys -> File]]
      /\ cycle'.pc = "save" /\ cycle'.keys = cycle.keys
      /\ cycle'.todo = cycle.todo /\ cycle'.listed = cycle.listed
  BY <1>1 DEF IndInv, TypeOK
<1>3. TypeOK'
  BY <1>1, <1>2 DEF IndInv, TypeOK, Awaited
<1>4. TodoMissing' /\ SavesHonest' /\ Progress'
  BY <1>1, <1>2 DEF IndInv, TodoMissing, SavesHonest, Progress, Kept
<1>5. QED
  BY <1>1, <1>3, <1>4, SameFiles DEF IndInv

\* What an error leaves of a caller's save: nothing, or one nobody waits for.
LEMMA GivenUp ==
  ASSUME IndInv, NEW caller \in Fetches \cup {Lifecycle},
         Refused(caller) \/ Abandoned(caller)
  PROVE  /\ saves' \subseteq Save /\ SavesHonest'
         /\ \A t \in saves' : \E s \in saves :
              t.by # Nobody => t.by = s.by /\ t.key = s.key /\ s.by # caller
         /\ \A s \in saves : s.by # caller => s \in saves'
<1>1. CASE Refused(caller)
  BY <1>1 DEF IndInv, TypeOK, SavesHonest, Refused, Pending
<1>2. CASE Abandoned(caller)
  <2>1. /\ saves' \subseteq Save
        /\ \A t \in saves' : \E s \in saves :
             /\ t.key = s.key /\ t.record = s.record /\ t.base = s.base
             /\ t.by = IF s.by = caller THEN Nobody ELSE s.by
        /\ \A s \in saves : s.by # caller => s \in saves'
    BY <1>2, AbandonedSaves DEF IndInv, TypeOK
  <2>2. QED
    BY <2>1 DEF IndInv, SavesHonest
<1>3. QED
  BY <1>1, <1>2

LEMMA CycleFailsKeeps ==
  ASSUME IndInv, CycleFails
  PROVE  IndInv'
<1>1. /\ UNCHANGED <<records, edits, removed, installed, fetch>>
      /\ cycle' = Idle
  BY DEF CycleFails, Aborts
<1>2. /\ saves' \subseteq Save /\ SavesHonest'
      /\ \A t \in saves' : \E s \in saves :
           t.by # Nobody => t.by = s.by /\ t.key = s.key /\ s.by # Lifecycle
  <2>1. CASE cycle.pc = "list" /\ UNCHANGED saves
    BY <2>1 DEF IndInv, TypeOK, Awaited, SavesHonest
  <2>2. CASE Refused(Lifecycle) \/ Abandoned(Lifecycle)
    BY <2>2, GivenUp
  <2>3. QED
    BY <2>1, <2>2 DEF CycleFails
<1>3. TypeOK'
  BY <1>1, <1>2, IdleTyped, Callers DEF IndInv, TypeOK, Awaited
<1>4. TodoMissing' /\ Progress'
  BY <1>1, IdleTyped DEF TodoMissing, Progress
<1>5. QED
  BY <1>1, <1>2, <1>3, <1>4, SameFiles DEF IndInv

LEMMA InstallsKeeps ==
  ASSUME IndInv, Installs
  PROVE  IndInv'
<1>1. /\ cycle.pc = "save" /\ cycle.todo = {}
      /\ installed' = cycle.keys /\ cycle' = Idle
      /\ UNCHANGED <<records, edits, removed, fetch, saves>>
  BY DEF Installs
<1>2. \A s \in saves : s.by # Lifecycle
  BY <1>1 DEF IndInv, TypeOK, Awaited
<1>3. TypeOK'
  BY <1>1, <1>2, IdleTyped DEF IndInv, TypeOK, Awaited
<1>4. TodoMissing' /\ SavesHonest' /\ Progress'
  BY <1>1, IdleTyped DEF IndInv, TodoMissing, SavesHonest, Progress
<1>5. InstalledHaveRecords'
  BY <1>1, <1>2 DEF IndInv, Progress, Kept, InstalledHaveRecords
<1>6. QED
  BY <1>3, <1>4, <1>5 DEF IndInv

LEMMA LandsKeeps ==
  ASSUME IndInv, Lands
  PROVE  IndInv'
<1>1. PICK s \in saves :
        /\ records' = [records EXCEPT ![s.key] = {s.record}]
        /\ removed' = removed \ {s.key}
        /\ saves' = saves \ {s}
        /\ UNCHANGED <<edits, installed, cycle, fetch>>
  BY DEF Lands
<1>2. s.key \in Keys /\ s.record \in Record
  BY DEF IndInv, TypeOK, Save
<1>3. /\ records' \in [Keys -> File]
      /\ records'[s.key] # {}
      /\ \A k \in Keys : k # s.key => records'[k] = records[k]
  BY <1>1, <1>2, FileOfRecord DEF IndInv, TypeOK
<1>4. \A k \in Keys : Kept(k) => Kept(k)'
  BY <1>1, <1>3 DEF Kept
<1>5. TypeOK'
  BY <1>1, <1>3 DEF IndInv, TypeOK, Awaited
<1>6. TodoMissing' /\ SavesHonest'
  BY <1>1 DEF IndInv, TodoMissing, SavesHonest
<1>7. Progress'
  <2>1. cycle.keys \subseteq Keys
    BY DEF IndInv, TypeOK
  <2>2. ASSUME NEW k \in cycle.keys \ cycle.todo, cycle.pc \in {"save", "wait"}
        PROVE  Kept(k)' \/ \E t \in saves' : t.by = Lifecycle /\ t.key = k
    <3>1. CASE Kept(k)
      BY <3>1, <2>1, <1>4
    <3>2. CASE k = s.key
      BY <3>2, <1>3 DEF Kept
    <3>3. CASE \E t \in saves : t.by = Lifecycle /\ t.key = k /\ k # s.key
      BY <3>3, <1>1
    <3>4. QED
      BY <2>2, <3>1, <3>2, <3>3 DEF IndInv, Progress
  <2>3. QED
    BY <1>1, <2>2 DEF Progress
<1>8. InstalledHaveRecords'
  BY <1>1, <1>4 DEF IndInv, TypeOK, InstalledHaveRecords, Kept
<1>9. QED
  BY <1>5, <1>6, <1>7, <1>8 DEF IndInv

\* A step of CPA or its user leaves the plugin's state alone.
LEMMA OthersKeep ==
  ASSUME IndInv, records' \in [Keys -> File], edits' \in 0..MaxEdits,
         removed' \in SUBSET Keys, \A k \in Keys : Kept(k) => Kept(k)',
         UNCHANGED <<installed, cycle, fetch, saves>>
  PROVE  IndInv'
<1>1. TypeOK'
  BY DEF IndInv, TypeOK, Awaited
<1>2. TodoMissing' /\ SavesHonest'
  BY DEF IndInv, TodoMissing, SavesHonest
<1>3. Progress'
  <2>1. cycle.keys \subseteq Keys
    BY DEF IndInv, TypeOK
  <2>2. QED
    BY <2>1 DEF IndInv, Progress
<1>4. InstalledHaveRecords'
  <2>1. installed \subseteq Keys
    BY DEF IndInv, TypeOK
  <2>2. QED
    BY <2>1 DEF IndInv, InstalledHaveRecords, Kept
<1>5. QED
  BY <1>1, <1>2, <1>3, <1>4 DEF IndInv

LEMMA EditsKeeps ==
  ASSUME IndInv, Edits
  PROVE  IndInv'
<1>1. PICK k \in Keys, disabled \in BOOLEAN :
        /\ edits < MaxEdits
        /\ edits' = edits + 1
        /\ records' = [records EXCEPT ![k] =
             {[email    |-> IF @ = {} THEN NoEmail ELSE (CHOOSE r \in @ : TRUE).email,
               note     |-> edits + 1,
               disabled |-> disabled]}]
        /\ removed' = removed \ {k}
        /\ UNCHANGED <<installed, cycle, fetch, saves>>
  BY DEF Edits
<1> DEFINE email == IF records[k] = {} THEN NoEmail
                    ELSE (CHOOSE r \in records[k] : TRUE).email
           new == [email |-> email, note |-> edits + 1, disabled |-> disabled]
<1>2. edits \in Nat /\ edits + 1 \in 0..MaxEdits
  BY <1>1, BoundsAssumption DEF BoundsAssumption, IndInv, TypeOK
<1>3. records[k] \subseteq Record
  BY DEF IndInv, TypeOK, File
<1>4. email \in Emails \cup {NoEmail}
  <2>1. CASE records[k] = {}
    BY <2>1
  <2>2. CASE records[k] # {}
    <3>1. (CHOOSE r \in records[k] : TRUE) \in Record
      BY <2>2, <1>3
    <3>2. QED
      BY <3>1, <2>2 DEF Record
  <2>3. QED
    BY <2>1, <2>2
<1> HIDE DEF email
<1>5. new \in Record
  BY <1>2, <1>4 DEF Record
<1>6. records' = [records EXCEPT ![k] = {new}]
  BY <1>1 DEF email
<1> HIDE DEF new
<1>7. /\ records' \in [Keys -> File]
      /\ records'[k] # {}
      /\ \A j \in Keys : j # k => records'[j] = records[j]
  BY <1>5, <1>6, FileOfRecord DEF IndInv, TypeOK
<1>8. \A j \in Keys : Kept(j) => Kept(j)'
  BY <1>1, <1>7 DEF Kept
<1>9. edits' \in 0..MaxEdits /\ removed' \in SUBSET Keys
  BY <1>1, <1>2 DEF IndInv, TypeOK
<1>10. QED
  BY <1>1, <1>7, <1>8, <1>9, OthersKeep

LEMMA RemovesKeeps ==
  ASSUME IndInv, Removes
  PROVE  IndInv'
<1>1. PICK k \in Keys :
        /\ edits < MaxEdits
        /\ edits' = edits + 1
        /\ records' = [records EXCEPT ![k] = {}]
        /\ removed' = removed \cup {k}
        /\ UNCHANGED <<installed, cycle, fetch, saves>>
  BY DEF Removes
<1>2. edits' \in 0..MaxEdits /\ removed' \in SUBSET Keys
  BY <1>1, BoundsAssumption DEF BoundsAssumption, IndInv, TypeOK
<1>3. {} \in File
  BY DEF File
<1>4. /\ records' \in [Keys -> File]
      /\ \A j \in Keys : j # k => records'[j] = records[j]
  BY <1>1, <1>3 DEF IndInv, TypeOK
<1>5. \A j \in Keys : Kept(j) => Kept(j)'
  BY <1>1, <1>4 DEF Kept
<1>6. QED
  BY <1>1, <1>2, <1>4, <1>5, OthersKeep

-----------------------------------------------------------------------------
(* The steps of a quota refresh.                                           *)

\* One that sends nothing keeps everything, if no save is waited for by a
\* refresh that went on.
LEMMA RefreshKeeps ==
  ASSUME IndInv, NEW f \in Fetches,
         UNCHANGED <<records, edits, removed, installed, cycle>>,
         fetch' \in [Fetches -> Refresh],
         \A g \in Fetches : g # f => fetch'[g] = fetch[g],
         saves' \subseteq Save, SavesHonest',
         \A t \in saves' : \E s \in saves :
           t.by # Nobody => t.by = s.by /\ t.key = s.key /\ s.by # f,
         \A s \in saves : s.by # f => s \in saves'
  PROVE  IndInv'
<1>1. TypeOK'
  BY Callers DEF IndInv, TypeOK, Awaited
<1>2. TodoMissing'
  BY DEF IndInv, TodoMissing
<1>3. Progress'
  BY Callers DEF IndInv, Progress, Kept
<1>4. QED
  BY <1>1, <1>2, <1>3, SameFiles DEF IndInv

\* One whose callback is not a save has no save that he waits for.
LEMMA NotWaiting ==
  ASSUME IndInv, NEW f \in Fetches, fetch[f].pc # "wait" \/ Pending(f) = {},
         UNCHANGED saves
  PROVE  /\ saves' \subseteq Save /\ SavesHonest'
         /\ \A t \in saves' : \E s \in saves :
              t.by # Nobody => t.by = s.by /\ t.key = s.key /\ s.by # f
         /\ \A s \in saves : s.by # f => s \in saves'
<1>1. \A s \in saves : s.by # f
  BY DEF IndInv, TypeOK, Awaited, Pending
<1>2. QED
  BY <1>1 DEF IndInv, TypeOK, SavesHonest

\* The refreshes after one of them has changed.
LEMMA FetchTyped ==
  ASSUME IndInv, NEW f \in Fetches, NEW r, fetch' = [fetch EXCEPT ![f] = r],
         r \in Refresh
  PROVE  /\ fetch' \in [Fetches -> Refresh]
         /\ fetch'[f] = r
         /\ \A g \in Fetches : g # f => fetch'[g] = fetch[g]
BY DEF IndInv, TypeOK

LEMMA DoneTyped ==
  ASSUME IndInv, NEW f \in Fetches, Done(f)
  PROVE  /\ fetch' \in [Fetches -> Refresh]
         /\ \A g \in Fetches : g # f => fetch'[g] = fetch[g]
BY RestingTyped, FetchTyped DEF Done

LEMMA FetchedKeeps ==
  ASSUME IndInv, NEW f \in Fetches, Fetched(f)
  PROVE  IndInv'
<1>1. PICK k \in Keys, email \in Emails :
        /\ fetch[f].pc = "idle"
        /\ fetch' = [fetch EXCEPT ![f] = [pc |-> "list", key |-> k, email |-> email]]
        /\ UNCHANGED <<records, edits, removed, installed, cycle, saves>>
  BY DEF Fetched
<1>2. [pc |-> "list", key |-> k, email |-> email]
        \in Refresh
  BY DEF Refresh
<1>3. QED
  BY <1>1, <1>2, FetchTyped, NotWaiting, RefreshKeeps

LEMMA FetchListsKeeps ==
  ASSUME IndInv, NEW f \in Fetches, FetchLists(f)
  PROVE  IndInv'
<1>1. /\ fetch[f].pc = "list"
      /\ UNCHANGED <<records, edits, removed, installed, cycle, saves>>
  BY DEF FetchLists
<1>2. /\ fetch' \in [Fetches -> Refresh]
      /\ \A g \in Fetches : g # f => fetch'[g] = fetch[g]
  <2>1. CASE Outdated(f)
    BY <1>1, <2>1 DEF FetchLists, IndInv, TypeOK, Refresh, Resting
  <2>2. CASE ~Outdated(f)
    BY <2>2, DoneTyped DEF FetchLists
  <2>3. QED
    BY <2>1, <2>2
<1>3. QED
  BY <1>1, <1>2, NotWaiting, RefreshKeeps

LEMMA FetchGetsKeeps ==
  ASSUME IndInv, NEW f \in Fetches, FetchGets(f)
  PROVE  IndInv'
<1>1. PICK r \in records[fetch[f].key] :
        /\ fetch[f].pc = "get"
        /\ Sends(f, fetch[f].key, WithEmail(r, fetch[f].email), {r})
        /\ fetch' = [fetch EXCEPT ![f].pc = "wait"]
        /\ UNCHANGED <<records, edits, removed, installed, cycle>>
  BY DEF FetchGets
<1> DEFINE k == fetch[f].key
           w == WithEmail(r, fetch[f].email)
<1>2. /\ fetch[f].key \in Keys /\ fetch[f].email \in Emails \cup {NoEmail}
      /\ saves \subseteq Save
  BY <1>1 DEF IndInv, TypeOK, Refresh, Resting
<1>3. k \in Keys /\ r \in Record
  BY <1>2 DEF IndInv, TypeOK, File
<1>4. w \in Record /\ OnlyEmail({r}, w) /\ {r} \in File
  BY <1>2, <1>3, EmailOnly, FileOfRecord
<1> HIDE DEF k, w
<1>5. PICK new \in Save :
        /\ saves' = saves \cup {new}
        /\ new.by = f /\ new.key = k /\ new.record = w /\ new.base = {r}
  <2>1. Sends(f, k, w, {r}) /\ f \in Fetches \cup {Lifecycle}
    BY <1>1 DEF k, w
  <2>2. \E new \in Save :
          /\ saves' = saves \cup {new}
          /\ new.by = f /\ new.key = k /\ new.record = w /\ new.base = {r}
    BY <2>1, <1>2, <1>3, <1>4, SendsOne
  <2>3. QED
    BY <2>2
<1>6. /\ fetch' \in [Fetches -> Refresh]
      /\ fetch'[f].pc = "wait" /\ fetch'[f].key = k
      /\ \A g \in Fetches : g # f => fetch'[g] = fetch[g]
  BY <1>1 DEF IndInv, TypeOK, Refresh, Resting, k
<1>7. \A s \in saves : s.by # f
  BY <1>1 DEF IndInv, TypeOK, Awaited
<1>8. TypeOK'
  <2>1. saves' \subseteq Save
    BY <1>2, <1>5
  <2>2. ASSUME NEW s \in saves', s.by = Lifecycle
        PROVE  cycle'.pc = "wait" /\ s.key \in cycle'.keys \ cycle'.todo
    BY <1>1, <1>5, <2>2, Callers DEF IndInv, TypeOK, Awaited
  <2>3. ASSUME NEW s \in saves', s.by \in Fetches
        PROVE  fetch'[s.by].pc = "wait" /\ s.key = fetch'[s.by].key
    <3>1. CASE s = new
      BY <3>1, <1>5, <1>6
    <3>2. CASE s \in saves
      BY <3>2, <2>3, <1>6, <1>7 DEF IndInv, TypeOK, Awaited
    <3>3. QED
      BY <3>1, <3>2, <1>5
  <2>4. QED
    BY <1>1, <1>6, <2>1, <2>2, <2>3 DEF IndInv, TypeOK, Awaited
<1>9. TodoMissing' /\ SavesHonest'
  <2>1. OnlyEmail(new.base, new.record)
    BY <1>4, <1>5
  <2>2. \A s \in saves' : OnlyEmail(s.base, s.record)
    BY <2>1, <1>5 DEF IndInv, SavesHonest
  <2>3. QED
    BY <1>1, <2>2 DEF IndInv, TodoMissing, SavesHonest, OnlyEmail
<1>10. Progress'
  <2>1. saves \subseteq saves' /\ UNCHANGED <<records, removed, cycle>>
    BY <1>1, <1>5
  <2>2. Progress
    BY DEF IndInv
  <2>3. QED
    BY <2>1, <2>2 DEF Progress, Kept
<1>11. QED
  BY <1>1, <1>8, <1>9, <1>10, SameFiles DEF IndInv

LEMMA FetchAnsweredKeeps ==
  ASSUME IndInv, NEW f \in Fetches, FetchAnswered(f)
  PROVE  IndInv'
BY DoneTyped, NotWaiting, RefreshKeeps DEF FetchAnswered

LEMMA FetchFailsKeeps ==
  ASSUME IndInv, NEW f \in Fetches, FetchFails(f)
  PROVE  IndInv'
<1>1. Done(f) /\ UNCHANGED <<records, edits, removed, installed, cycle>>
  BY DEF FetchFails
<1>2. CASE fetch[f].pc \in {"list", "get"} /\ UNCHANGED saves
  BY <1>1, <1>2, DoneTyped, NotWaiting, RefreshKeeps
<1>3. CASE Refused(f) \/ Abandoned(f)
  <2>1. /\ saves' \subseteq Save /\ SavesHonest'
        /\ \A t \in saves' : \E s \in saves :
             t.by # Nobody => t.by = s.by /\ t.key = s.key /\ s.by # f
        /\ \A s \in saves : s.by # f => s \in saves'
    BY <1>3, GivenUp
  <2>2. QED
    BY <1>1, <2>1, DoneTyped, RefreshKeeps
<1>4. QED
  BY <1>2, <1>3 DEF FetchFails

-----------------------------------------------------------------------------
(* The theorems.                                                           *)

LEMMA NextKeeps == IndInv /\ [Next]_vars => IndInv'
<1> SUFFICES ASSUME IndInv, [Next]_vars PROVE IndInv'
  OBVIOUS
<1>1. CASE Configures
  BY <1>1, ConfiguresKeeps
<1>2. CASE Lists
  BY <1>2, ListsKeeps
<1>3. CASE Materializes
  BY <1>3, MaterializesKeeps
<1>4. CASE Materialized
  BY <1>4, MaterializedKeeps
<1>5. CASE CycleFails
  BY <1>5, CycleFailsKeeps
<1>6. CASE Installs
  BY <1>6, InstallsKeeps
<1>7. ASSUME NEW f \in Fetches,
             Fetched(f) \/ FetchLists(f) \/ FetchGets(f) \/ FetchAnswered(f) \/ FetchFails(f)
      PROVE  IndInv'
  BY <1>7, FetchedKeeps, FetchListsKeeps, FetchGetsKeeps, FetchAnsweredKeeps, FetchFailsKeeps
<1>8. CASE Lands
  BY <1>8, LandsKeeps
<1>9. CASE Edits
  BY <1>9, EditsKeeps
<1>10. CASE Removes
  BY <1>10, RemovesKeeps
<1>11. CASE UNCHANGED vars
  BY <1>11 DEF vars, IndInv, TypeOK, Awaited, TodoMissing, SavesHonest, Progress, Kept,
               InstalledHaveRecords
<1>12. QED
  BY <1>1, <1>2, <1>3, <1>4, <1>5, <1>6, <1>7, <1>8, <1>9, <1>10, <1>11 DEF Next

LEMMA AlwaysIndInv == Spec => []IndInv
BY InitIndInv, NextKeeps, PTL DEF Spec

\* The types, and the pairing of saves with those who wait for them, whatever
\* callbacks of materializeAuthRecords and persistEmail time out.
THEOREM TypesHold == Spec => []TypeOK
<1>1. IndInv => TypeOK
  BY DEF IndInv
<1>2. QED
  BY <1>1, AlwaysIndInv, PTL

\* No configuration gets into force without a file for each of its keys.
THEOREM KeysMaterialized == Spec => []InstalledHaveRecords
<1>1. IndInv => InstalledHaveRecords
  BY DEF IndInv
<1>2. QED
  BY <1>1, AlwaysIndInv, PTL

\* A step that writes a file, and is not one of CPA or its user, carries out
\* a save; the other steps write none.
LEMMA OnlyLandsWrites ==
  ASSUME Next, edits' = edits, edits \in Nat, ~Lands
  PROVE  records' = records
<1>1. CASE \E f \in Fetches : Fetched(f) \/ FetchLists(f) \/ FetchGets(f)
                               \/ FetchAnswered(f) \/ FetchFails(f)
  BY <1>1 DEF Fetched, FetchLists, FetchGets, FetchAnswered, FetchFails
<1>2. CASE Configures \/ Lists \/ Materializes \/ Materialized \/ CycleFails \/ Installs
  BY <1>2 DEF Configures, Lists, Materializes, Materialized, CycleFails, Installs
<1>3. ~Edits /\ ~Removes
  BY DEF Edits, Removes
<1>4. QED
  BY <1>1, <1>2, <1>3 DEF Next

\* What others write survives the plugin's saves, save what was written
\* between the plugin's last look at the file and its save.
THEOREM OthersWritesSurvive == Spec => OthersWritesKept
<1> DEFINE Survives ==
      \A k \in Keys : edits' = edits /\ records'[k] # records[k] =>
        \E s \in saves \ saves' :
          /\ s.key = k
          /\ Unseen(s) \/ OnlyEmail(records[k], s.record)
<1>1. IndInv /\ [Next]_vars => [Survives]_vars
  <2> SUFFICES ASSUME IndInv, Next, NEW k \in Keys, edits' = edits,
                      records'[k] # records[k]
               PROVE  \E s \in saves \ saves' :
                        /\ s.key = k
                        /\ Unseen(s) \/ OnlyEmail(records[k], s.record)
    OBVIOUS
  <2>1. Lands
    BY OnlyLandsWrites, BoundsAssumption DEF BoundsAssumption, IndInv, TypeOK
  <2>2. PICK s \in saves :
          /\ records' = [records EXCEPT ![s.key] = {s.record}]
          /\ saves' = saves \ {s}
    BY <2>1 DEF Lands
  <2>3. s.key = k
    BY <2>2 DEF IndInv, TypeOK
  <2>4. OnlyEmail(s.base, s.record)
    BY DEF IndInv, SavesHonest
  <2>5. QED
    BY <2>2, <2>3, <2>4 DEF Unseen
<1>2. QED
  BY <1>1, AlwaysIndInv, PTL DEF Spec, OthersWritesKept
=============================================================================

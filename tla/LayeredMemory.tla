---------------------------- MODULE LayeredMemory ----------------------------
(***************************************************************************)
(* One MemoryStore (src/memory/store.py) with its three layers: the hot    *)
(* LRU cache in process memory, the warm DuckDB table and the cold         *)
(* append-only archive file, the operations that move records between them *)
(* (save, get, LayeredMemoryRetriever.retrieve, archive_old and            *)
(* TypedMemoryRecord.archive) and a crash between any two writes.          *)
(*                                                                         *)
(* A record is its id and a version: each save of an id is a new version.  *)
(* All records are in the store's own scope; which records match a query   *)
(* or are older than the cutoff is a free choice.  The store is used by    *)
(* one thread at a time.                                                   *)
(***************************************************************************)
EXTENDS Integers, SequencesExt

CONSTANTS
    Ids,            \* record ids
    HotMax,         \* max_items of the hot cache (256)
    PromoteMax,     \* cold records promoted by one retrieval (min(limit, 5))
    Limit,          \* the retrieval's limit (20)
    MaxVersion,     \* bound: saves of one id
    MaxCold,        \* bound: lines of the archive file
    Nothing         \* no record is being moved

ASSUME BoundsAssumption ==
    /\ HotMax \in Nat \ {0} /\ PromoteMax \in Nat /\ Limit \in Nat
    /\ MaxVersion \in Nat /\ MaxCold \in Nat

Record(id, v) == [id |-> id, ver |-> v]
Records == [Ids -> 0..MaxVersion]
Entries == [id : Ids, ver : 1..MaxVersion]

ASSUME NothingAssumption == Nothing \notin Entries

VARIABLES
    hot,      \* cache entries, least recently used first
    warm,     \* version per id in the warm table, 0 when absent
    cold,     \* lines of the archive file, oldest first
    sweep,    \* candidates archive_old has still to move
    moving,   \* the record copied to the archive but not yet deleted
    latest    \* history: the newest version saved of each id

vars == <<hot, warm, cold, sweep, moving, latest>>

HotIds    == {hot[i].id : i \in DOMAIN hot}
ColdIds   == {cold[i].id : i \in DOMAIN cold}
WarmIds   == {id \in Ids : warm[id] # 0}
StoredIds == WarmIds \cup ColdIds

Idle == sweep = {} /\ moving = Nothing

-----------------------------------------------------------------------------
(* The layers *)

(* No id has more than one entry in the cache. *)
Without(s, id) ==
    IF \E i \in DOMAIN s : s[i].id = id
    THEN RemoveAt(s, CHOOSE i \in DOMAIN s : s[i].id = id)
    ELSE s

(* HotMemoryCache.add: newest at the end, the oldest evicted. *)
HotAdd(s, r) ==
    LET moved == Append(Without(s, r.id), r)
    IN  IF Len(moved) > HotMax THEN Tail(moved) ELSE moved

HotEntry(id) == CHOOSE r \in {hot[i] : i \in DOMAIN hot} : r.id = id

(* ArchiveMemoryBackend.get_record: the first line that has the id. *)
FirstArchived(id) ==
    LET i == CHOOSE i \in DOMAIN cold :
                 cold[i].id = id /\ \A j \in 1..i-1 : cold[j].id # id
    IN  cold[i].ver

Init ==
    /\ hot = <<>> /\ warm = [id \in Ids |-> 0] /\ cold = <<>>
    /\ sweep = {} /\ moving = Nothing
    /\ latest = [id \in Ids |-> 0]

-----------------------------------------------------------------------------
(* MemoryStore.add, for a record whose layer is hot, warm or cold. *)

Save(id) ==
    /\ Idle /\ latest[id] < MaxVersion
    /\ latest' = [latest EXCEPT ![id] = @ + 1]
    /\ UNCHANGED <<sweep, moving>>

SaveHot(id) ==
    /\ Save(id)
    /\ warm' = [warm EXCEPT ![id] = latest'[id]]
    /\ hot' = HotAdd(hot, Record(id, latest'[id]))
    /\ UNCHANGED cold

SaveWarm(id) ==
    /\ Save(id)
    /\ warm' = [warm EXCEPT ![id] = latest'[id]]
    /\ UNCHANGED <<hot, cold>>

SaveCold(id) ==
    /\ Save(id) /\ Len(cold) < MaxCold
    /\ cold' = Append(cold, Record(id, latest'[id]))
    /\ UNCHANGED <<hot, warm>>

-----------------------------------------------------------------------------
(* MemoryStore.get: hot, then warm, then cold, promoting what it finds. *)

GetHot(id) ==
    /\ id \in HotIds
    /\ hot' = HotAdd(hot, HotEntry(id))
    /\ UNCHANGED warm

GetWarm(id) ==
    /\ id \in WarmIds \ HotIds
    /\ hot' = HotAdd(hot, Record(id, warm[id]))
    /\ UNCHANGED warm

GetCold(id) ==
    /\ id \in ColdIds \ (WarmIds \cup HotIds)
    /\ warm' = [warm EXCEPT ![id] = FirstArchived(id)]
    /\ hot' = HotAdd(hot, Record(id, FirstArchived(id)))

Lookup(id) == GetHot(id) \/ GetWarm(id) \/ GetCold(id)

Get(id) ==
    /\ Idle /\ Lookup(id)
    /\ UNCHANGED <<cold, sweep, moving, latest>>

(* LayeredMemoryRetriever.retrieve when hot and warm give fewer than the    *)
(* limit: the first matching lines of the archive are saved to warm again,  *)
(* one after the other, so that the last line of an id stands.              *)
FirstHits(matching, n) ==
    {i \in DOMAIN cold :
        /\ cold[i].id \in matching
        /\ Cardinality({j \in 1..i : cold[j].id \in matching}) <= n}

Promoted(matching, n) ==
    LET LastHit(id) == {i \in FirstHits(matching, n) :
                           /\ cold[i].id = id
                           /\ \A j \in FirstHits(matching, n) :
                                 cold[j].id = id => j <= i}
    IN  [id \in Ids |-> IF LastHit(id) = {} THEN warm[id]
                        ELSE cold[CHOOSE i \in LastHit(id) : TRUE].ver]

TooFew(matching) == Cardinality(matching \cap (HotIds \cup WarmIds)) < Limit

Retrieve(matching) ==
    /\ Idle /\ TooFew(matching)
    /\ warm' = Promoted(matching, PromoteMax)
    /\ UNCHANGED <<hot, cold, sweep, moving, latest>>

(* The process stops after some of these saves. *)
RetrieveCut(matching, n) ==
    /\ Idle /\ TooFew(matching)
    /\ warm' = Promoted(matching, n)
    /\ hot' = <<>>
    /\ UNCHANGED <<cold, sweep, moving, latest>>

-----------------------------------------------------------------------------
(* Moving records to the archive: copy, then delete. *)

(* Mutants: archive_old deletes first and forgets to copy; archive copies   *)
(* nothing for a record that is only in the cache.                          *)
SweepWithoutCopy(r) ==
    /\ moving = Nothing /\ Len(cold) < MaxCold
    /\ moving' = r /\ sweep' = sweep \ {r}
    /\ UNCHANGED <<hot, warm, cold, latest>>

ArchiveWithoutCopy(id) ==
    /\ Idle /\ Len(cold) < MaxCold
    /\ Lookup(id)
    /\ moving' = hot'[Len(hot')]
    /\ UNCHANGED <<cold, sweep, latest>>

(* archive_old reads its candidates once, as full records. *)
StartSweep(old) ==
    /\ Idle
    /\ sweep' = {Record(id, warm[id]) : id \in old}
    /\ UNCHANGED <<hot, warm, cold, moving, latest>>

SweepCopy(r) ==
    /\ moving = Nothing /\ Len(cold) < MaxCold
    /\ cold' = Append(cold, r)
    /\ moving' = r /\ sweep' = sweep \ {r}
    /\ UNCHANGED <<hot, warm, latest>>

(* TypedMemoryRecord.archive copies what get returns. *)
ArchiveCopy(id) ==
    /\ Idle /\ Len(cold) < MaxCold
    /\ Lookup(id)
    /\ moving' = hot'[Len(hot')]
    /\ cold' = Append(cold, moving')
    /\ UNCHANGED <<sweep, latest>>

DeleteMoved ==
    /\ moving # Nothing
    /\ warm' = [warm EXCEPT ![moving.id] = 0]
    /\ moving' = Nothing
    /\ UNCHANGED <<hot, cold, sweep, latest>>

(* The process stops: the files remain, the cache and the sweep are gone. *)
Crash ==
    /\ hot' = <<>> /\ sweep' = {} /\ moving' = Nothing
    /\ UNCHANGED <<warm, cold, latest>>

Next ==
    \/ \E id \in Ids : \/ SaveHot(id) \/ SaveWarm(id) \/ SaveCold(id)
                       \/ Get(id) \/ ArchiveCopy(id)
    \/ \E matching \in SUBSET Ids :
          \/ Retrieve(matching)
          \/ \E n \in 1..PromoteMax : RetrieveCut(matching, n)
    \/ \E old \in SUBSET WarmIds : StartSweep(old)
    \/ \E r \in sweep : SweepCopy(r)
    \/ DeleteMoved
    \/ Crash

Spec == Init /\ [][Next]_vars

-----------------------------------------------------------------------------
(* Properties *)

(* The layers are well formed: the cache keeps one entry per id and never   *)
(* more than HotMax of them (hot/cache.py:22-27).                           *)
TypeOK ==
    /\ warm \in Records /\ latest \in Records
    /\ hot \in Seq(Entries) /\ Len(hot) <= HotMax
    /\ \A i, j \in DOMAIN hot : hot[i].id = hot[j].id => i = j
    /\ cold \in Seq(Entries)
    /\ sweep \in SUBSET Entries
    /\ moving \in Entries \cup {Nothing}

(* The copy is on file before the original is deleted, so that a crash in   *)
(* the middle of archive_old or archive leaves the record findable.         *)
MoveCopiesFirst == moving # Nothing => moving.id \in ColdIds

(* A record once saved stays in warm or cold, whatever moves it and         *)
(* wherever the process stops (store.py:104-114, types/base.py:154-162).    *)
NeverForgotten == \A id \in Ids : latest[id] # 0 => id \in StoredIds

(* The cache never answers for a record that the files have lost. *)
CachedIsStored == HotIds \subseteq StoredIds

(* The store implements DurableIds, its durable ids being those in files. *)
Durable     == INSTANCE DurableIds WITH known <- StoredIds
DurableSpec == Durable!Spec
=============================================================================

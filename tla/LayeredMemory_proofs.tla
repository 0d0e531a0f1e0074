------------------------ MODULE LayeredMemory_proofs ------------------------
(***************************************************************************)
(* Theorems about the layered memory, for any set of ids, any cache size   *)
(* and any number of saves and archived lines.                             *)
(***************************************************************************)
EXTENDS LayeredMemory, SequenceTheorems, WellFoundedInduction, TLAPS

-----------------------------------------------------------------------------
(* Lemmas about the layers *)

(* A set of numbers has a least element.                                    *)
LEMMA LeastNumber ==
    ASSUME NEW T \in SUBSET Nat, T # {}
    PROVE  \E i \in T : \A j \in T : i <= j
<1>1. PICK i \in T : \A j \in T : ~(<<j, i>> \in OpToRel(<, Nat))
  BY NatLessThanWellFounded, WFMin
<1>2. \A j \in T : ~(j < i)
  BY <1>1 DEF OpToRel
<1> QED BY <1>2

(* The archive answers with a version it has for the id.                    *)
LEMMA FirstArchivedType ==
    ASSUME cold \in Seq(Entries), NEW id \in ColdIds
    PROVE  FirstArchived(id) \in 1..MaxVersion
<1> DEFINE T == {i \in DOMAIN cold : cold[i].id = id}
<1>1. DOMAIN cold = 1..Len(cold) /\ Len(cold) \in Nat
      /\ \A i \in 1..Len(cold) : cold[i] \in Entries
  BY LenProperties, ElementOfSeq
<1>2. T \in SUBSET Nat /\ T # {}
  BY <1>1 DEF ColdIds
<1>3. PICK i \in T : \A j \in T : i <= j
  <2> HIDE DEF T
  <2> QED BY <1>2, LeastNumber
<1>4. i \in 1..Len(cold) /\ cold[i].id = id /\ \A j \in 1..i-1 : cold[j].id # id
  BY <1>1, <1>3
<1> DEFINE First(k) == cold[k].id = id /\ \A j \in 1..k-1 : cold[j].id # id
           k == CHOOSE k \in DOMAIN cold : First(k)
<1> QED BY <1>1, <1>4 DEF FirstArchived, Entries

(* One entry per id, as the keys of an ordered dictionary.                  *)
Unique(s) == \A i, j \in DOMAIN s : s[i].id = s[j].id => i = j

CacheOK(s) == s \in Seq(Entries) /\ Unique(s)

(* Taking an id out of the cache leaves the other entries, in their order.  *)
LEMMA WithoutProperties ==
    ASSUME NEW s, CacheOK(s), NEW id
    PROVE  /\ CacheOK(Without(s, id))
           /\ Len(Without(s, id)) <= Len(s)
           /\ \A i \in DOMAIN Without(s, id) :
                 /\ Without(s, id)[i].id # id
                 /\ \E j \in DOMAIN s : Without(s, id)[i] = s[j]
<1>1. /\ s \in Seq(Entries) /\ Len(s) \in Nat /\ DOMAIN s = 1..Len(s)
      /\ \A i \in 1..Len(s) : s[i] \in Entries
  BY LenProperties, ElementOfSeq DEF CacheOK
<1>2. CASE ~ \E i \in DOMAIN s : s[i].id = id
  BY <1>1, <1>2 DEF Without
<1>3. CASE \E i \in DOMAIN s : s[i].id = id
  <2> DEFINE k == CHOOSE i \in DOMAIN s : s[i].id = id
             before == SubSeq(s, 1, k - 1)
             after == SubSeq(s, k + 1, Len(s))
  <2>1. k \in 1..Len(s) /\ s[k].id = id
    BY <1>1, <1>3
  <2>2. Without(s, id) = before \o after
    BY <1>3 DEF Without, RemoveAt
  <2> HIDE DEF k
  <2>3. /\ before \in Seq(Entries) /\ Len(before) = k - 1
        /\ \A i \in 1..k-1 : before[i] = s[i]
    <3>1. 1 \in Int /\ k - 1 \in Int /\ \A i \in 1..k-1 : s[i] \in Entries
      BY <1>1, <2>1
    <3>2. (IF 1 <= k - 1 THEN (k - 1) - 1 + 1 ELSE 0) = k - 1
      BY <2>1
    <3> QED BY <1>1, <2>1, <3>1, <3>2, SubSeqProperties
  <2>4. /\ after \in Seq(Entries) /\ Len(after) = Len(s) - k
        /\ \A i \in 1..Len(s)-k : after[i] = s[k + i]
    <3> DEFINE a == k + 1
               n == Len(s)
    <3>1. a \in Int /\ n \in Int /\ \A i \in a..n : s[i] \in Entries
      BY <1>1, <2>1
    <3>2. (IF a <= n THEN n - a + 1 ELSE 0) = n - k /\ n - a + 1 = n - k
      <4>1. n \in Nat /\ k \in Int /\ k <= n
        BY <1>1, <2>1
      <4> HIDE DEF n
      <4> QED BY <4>1
    <3>3. \A i \in 1..n-k : a + i - 1 = k + i
      <4>1. k \in Int
        BY <2>1
      <4> HIDE DEF n
      <4> QED BY <4>1
    <3>4. after = SubSeq(s, a, n)
      OBVIOUS
    <3> HIDE DEF a, n, after
    <3>5. /\ after \in Seq(Entries)
          /\ Len(after) = IF a <= n THEN n - a + 1 ELSE 0
          /\ \A i \in 1..n-a+1 : after[i] = s[a + i - 1]
      BY <3>1, <3>4, SubSeqProperties
    <3>6. after \in Seq(Entries) /\ Len(after) = n - k
          /\ \A i \in 1..n-k : after[i] = s[k + i]
      BY <3>2, <3>3, <3>5
    <3> QED BY <3>6 DEF n
  <2> HIDE DEF before, after
  <2> DEFINE w == before \o after
  <2>5. /\ w \in Seq(Entries) /\ Len(w) = Len(s) - 1 /\ DOMAIN w = 1..Len(s)-1
        /\ \A i \in 1..Len(s)-1 : w[i] = IF i < k THEN s[i] ELSE s[i + 1]
    <3>1. w \in Seq(Entries) /\ Len(w) = (k - 1) + (Len(s) - k)
          /\ \A i \in 1..(k - 1)+(Len(s) - k) :
                w[i] = IF i <= k - 1 THEN before[i] ELSE after[i - (k - 1)]
      <4> DEFINE p == k - 1
                 q == Len(s) - k
      <4>1. before \in Seq(Entries) /\ after \in Seq(Entries)
            /\ Len(before) = p /\ Len(after) = q
        BY <2>3, <2>4
      <4> HIDE DEF p, q
      <4>2. w \in Seq(Entries) /\ Len(w) = p + q
            /\ \A i \in 1..p+q : w[i] = IF i <= p THEN before[i] ELSE after[i - p]
        BY <4>1, ConcatProperties
      <4> HIDE DEF w
      <4> QED BY <4>2 DEF p, q
    <3>2. DOMAIN w = 1..Len(w)
      BY <3>1, LenProperties
    <3> HIDE DEF w
    <3>3. (k - 1) + (Len(s) - k) = Len(s) - 1
      BY <1>1, <2>1
    <3>4. ASSUME NEW i \in 1..Len(s)-1 PROVE w[i] = IF i < k THEN s[i] ELSE s[i + 1]
      <4>1. CASE i < k
        BY <1>1, <2>1, <2>3, <3>1, <3>3, <4>1
      <4>2. CASE ~(i < k)
        <5>1. i - (k - 1) \in 1..Len(s)-k /\ k + (i - (k - 1)) = i + 1
              /\ ~(i <= k - 1)
          BY <1>1, <2>1, <4>2
        <5> QED BY <2>4, <3>1, <3>3, <4>2, <5>1
      <4> QED BY <4>1, <4>2
    <3> QED BY <3>1, <3>2, <3>3, <3>4
  <2> HIDE DEF w
  <2>6. ASSUME NEW i \in 1..Len(s)-1
        PROVE  \E j \in 1..Len(s) : j # k /\ w[i] = s[j]
                                    /\ j = IF i < k THEN i ELSE i + 1
    <3>1. CASE i < k
      BY <1>1, <2>1, <2>5, <3>1
    <3>2. CASE ~(i < k)
      BY <1>1, <2>1, <2>5, <3>2
    <3> QED BY <3>1, <3>2
  <2>7. \A i \in DOMAIN w : w[i].id # id /\ \E j \in DOMAIN s : w[i] = s[j]
    BY <1>1, <2>1, <2>5, <2>6 DEF CacheOK, Unique
  <2>8. Unique(w)
    <3> SUFFICES ASSUME NEW i \in DOMAIN w, NEW j \in DOMAIN w, w[i].id = w[j].id
                 PROVE  i = j
      BY DEF Unique
    <3>1. PICK a \in 1..Len(s) : w[i] = s[a] /\ a = IF i < k THEN i ELSE i + 1
      BY <2>5, <2>6
    <3>2. PICK b \in 1..Len(s) : w[j] = s[b] /\ b = IF j < k THEN j ELSE j + 1
      BY <2>5, <2>6
    <3>3. a = b
      BY <1>1, <3>1, <3>2 DEF CacheOK, Unique
    <3> QED BY <1>1, <2>1, <2>5, <3>1, <3>2, <3>3
  <2>9. Len(w) <= Len(s)
    BY <1>1, <2>5
  <2> QED BY <2>2, <2>5, <2>7, <2>8, <2>9 DEF CacheOK, w
<1> QED BY <1>2, <1>3

(* The cache ends with the added entry and evicts what is one too many.     *)
LEMMA HotAddProperties ==
    ASSUME NEW s, CacheOK(s), Len(s) <= HotMax, NEW r \in Entries
    PROVE  /\ CacheOK(HotAdd(s, r)) /\ Len(HotAdd(s, r)) <= HotMax
           /\ HotAdd(s, r) # <<>> /\ HotAdd(s, r)[Len(HotAdd(s, r))] = r
           /\ \A i \in DOMAIN HotAdd(s, r) :
                 HotAdd(s, r)[i] = r \/ \E j \in DOMAIN s : HotAdd(s, r)[i] = s[j]
<1> DEFINE w == Without(s, r.id)
           m == Append(w, r)
<1>1. /\ CacheOK(w) /\ w \in Seq(Entries) /\ Len(w) <= Len(s)
      /\ Len(w) \in Nat /\ Len(s) \in Nat /\ DOMAIN w = 1..Len(w)
      /\ \A i \in DOMAIN w : w[i].id # r.id /\ \E j \in DOMAIN s : w[i] = s[j]
  BY WithoutProperties, LenProperties DEF CacheOK
<1> HIDE DEF w
<1>2. /\ m \in Seq(Entries) /\ m # <<>> /\ Len(m) = Len(w) + 1
      /\ DOMAIN m = 1..Len(w)+1 /\ m[Len(w) + 1] = r
      /\ \A i \in 1..Len(w) : m[i] = w[i]
  BY <1>1, AppendProperties, LenProperties
<1> HIDE DEF m
<1>3. Unique(m)
  <2> SUFFICES ASSUME NEW i \in 1..Len(w)+1, NEW j \in 1..Len(w)+1, m[i].id = m[j].id
               PROVE  i = j
    BY <1>2 DEF Unique
  <2>1. CASE i = Len(w) + 1 \/ j = Len(w) + 1
    BY <1>1, <1>2, <2>1
  <2>2. CASE i \in 1..Len(w) /\ j \in 1..Len(w)
    BY <1>1, <1>2, <2>2 DEF CacheOK, Unique
  <2> QED BY <1>1, <2>1, <2>2
<1>4. \A i \in DOMAIN m : m[i] = r \/ \E j \in DOMAIN s : m[i] = s[j]
  <2> SUFFICES ASSUME NEW i \in 1..Len(w)+1
               PROVE  m[i] = r \/ \E j \in DOMAIN s : m[i] = s[j]
    BY <1>2
  <2>1. CASE i = Len(w) + 1
    BY <1>2, <2>1
  <2>2. CASE i \in 1..Len(w)
    BY <1>1, <1>2, <2>2
  <2> QED BY <1>1, <2>1, <2>2
<1>5. HotMax \in Nat /\ HotMax >= 1
  BY BoundsAssumption
<1>6. CASE ~(Len(m) > HotMax)
  <2>1. HotAdd(s, r) = m
    BY <1>6 DEF HotAdd, m, w
  <2> QED BY <1>1, <1>2, <1>3, <1>4, <1>5, <1>6, <2>1 DEF CacheOK
<1>7. CASE Len(m) > HotMax
  <2>1. HotAdd(s, r) = Tail(m)
    BY <1>7 DEF HotAdd, m, w
  <2>2. /\ Tail(m) \in Seq(Entries) /\ Len(Tail(m)) = Len(w)
        /\ \A i \in 1..Len(w) : Tail(m)[i] = m[i + 1]
    BY <1>1, <1>2, HeadTailProperties
  <2>3. DOMAIN Tail(m) = 1..Len(w)
    BY <2>2, LenProperties
  <2>4. Len(w) \in 1..HotMax
    BY <1>1, <1>2, <1>5, <1>7
  <2> DEFINE t == Tail(m)
  <2> HIDE DEF t
  <2>5. /\ t \in Seq(Entries) /\ Len(t) = Len(w) /\ DOMAIN t = 1..Len(w)
        /\ \A i \in 1..Len(w) : t[i] = m[i + 1]
    BY <2>2, <2>3 DEF t
  <2>6. \A i \in 1..Len(w) : i + 1 \in DOMAIN m
    BY <1>1, <1>2
  <2>7. Unique(t)
    BY <1>1, <1>3, <2>5, <2>6 DEF Unique
  <2>8. t # <<>> /\ t[Len(t)] = r
    BY <1>1, <1>2, <2>4, <2>5, EmptySeq
  <2>9. \A i \in DOMAIN t : t[i] = r \/ \E j \in DOMAIN s : t[i] = s[j]
    BY <1>4, <2>5, <2>6
  <2> QED BY <1>5, <2>1, <2>4, <2>5, <2>7, <2>8, <2>9 DEF CacheOK, t
<1> QED BY <1>6, <1>7

(* The entry of a cached id. *)
LEMMA HotEntryType ==
    ASSUME CacheOK(hot), NEW id \in HotIds
    PROVE  HotEntry(id) \in Entries /\ HotEntry(id).id = id
<1>1. DOMAIN hot = 1..Len(hot) /\ \A i \in 1..Len(hot) : hot[i] \in Entries
  BY LenProperties, ElementOfSeq DEF CacheOK
<1>2. \E r \in {hot[i] : i \in DOMAIN hot} : r.id = id
  BY DEF HotIds
<1>3. HotEntry(id) \in {hot[i] : i \in DOMAIN hot} /\ HotEntry(id).id = id
  BY <1>2 DEF HotEntry
<1> QED BY <1>1, <1>3

-----------------------------------------------------------------------------
(* The invariant *)

(* The types, with what keeps a record findable: a copy precedes a deletion *)
(* and the cache holds nothing the files lack.                              *)
StoreInv == TypeOK /\ MoveCopiesFirst /\ CachedIsStored /\ NeverForgotten

(* An empty store loses nothing. *)
LEMMA StoreInit == Init => StoreInv
BY BoundsAssumption DEF Init, StoreInv, TypeOK, MoveCopiesFirst, CachedIsStored,
   NeverForgotten, HotIds, StoredIds, WarmIds, Records

(* The cache, with one entry more or none, is still a cache of stored ids.  *)
LEMMA CacheStep ==
    ASSUME TypeOK, NEW r \in Entries, hot' = HotAdd(hot, r)
    PROVE  /\ hot' \in Seq(Entries) /\ Len(hot') <= HotMax
           /\ \A i, j \in DOMAIN hot' : hot'[i].id = hot'[j].id => i = j
           /\ hot' # <<>> /\ hot'[Len(hot')] = r
           /\ HotIds' \subseteq HotIds \cup {r.id}
<1>1. CacheOK(hot) /\ Len(hot) <= HotMax
  BY DEF TypeOK, CacheOK, Unique
<1>2. /\ CacheOK(hot') /\ Len(hot') <= HotMax
      /\ hot' # <<>> /\ hot'[Len(hot')] = r
      /\ \A i \in DOMAIN hot' : hot'[i] = r \/ \E j \in DOMAIN hot : hot'[i] = hot[j]
  BY <1>1, HotAddProperties
<1> QED BY <1>2 DEF CacheOK, Unique, HotIds

(* One more line of the archive adds its id and takes nothing away.         *)
LEMMA ColdStep ==
    ASSUME TypeOK, NEW r \in Entries, cold' = Append(cold, r)
    PROVE  cold' \in Seq(Entries) /\ ColdIds' = ColdIds \cup {r.id}
<1>1. /\ cold' \in Seq(Entries) /\ DOMAIN cold' = 1..Len(cold)+1
      /\ \A i \in 1..Len(cold) : cold'[i] = cold[i]
      /\ cold'[Len(cold) + 1] = r
      /\ Len(cold) \in Nat /\ DOMAIN cold = 1..Len(cold)
  BY AppendProperties, LenProperties DEF TypeOK
<1>2. ColdIds' \subseteq ColdIds \cup {r.id}
  BY <1>1 DEF ColdIds
<1>3. ColdIds \subseteq ColdIds' /\ r.id \in ColdIds'
  BY <1>1 DEF ColdIds
<1> QED BY <1>1, <1>2, <1>3

(* A lookup ends with the record at the end of the cache; it only copies    *)
(* towards the cache, so that no id comes or goes.                          *)
LEMMA LookupStep ==
    ASSUME StoreInv, NEW id \in Ids, Lookup(id)
    PROVE  /\ warm' \in Records
           /\ hot' \in Seq(Entries) /\ Len(hot') <= HotMax
           /\ \A i, j \in DOMAIN hot' : hot'[i].id = hot'[j].id => i = j
           /\ hot'[Len(hot')] \in Entries /\ hot'[Len(hot')].id = id
           /\ id \in StoredIds /\ HotIds' \subseteq StoredIds
           /\ WarmIds \subseteq WarmIds' /\ WarmIds' \subseteq StoredIds
<1>1. CacheOK(hot)
  BY DEF StoreInv, TypeOK, CacheOK, Unique
<1>2. TypeOK /\ HotIds \subseteq StoredIds
  BY DEF StoreInv, CachedIsStored
<1>3. WarmIds \subseteq StoredIds
  BY DEF StoredIds
<1>4. CASE GetHot(id)
  <2>1. id \in HotIds /\ hot' = HotAdd(hot, HotEntry(id)) /\ warm' = warm
    BY <1>4 DEF GetHot
  <2>2. HotEntry(id) \in Entries /\ HotEntry(id).id = id
    BY <1>1, <2>1, HotEntryType
  <2> QED BY <1>2, <1>3, <2>1, <2>2, CacheStep DEF WarmIds, TypeOK
<1>5. CASE GetWarm(id)
  <2>1. id \in WarmIds /\ hot' = HotAdd(hot, Record(id, warm[id])) /\ warm' = warm
    BY <1>5 DEF GetWarm
  <2>2. Record(id, warm[id]) \in Entries /\ Record(id, warm[id]).id = id
    BY <1>2, <2>1, BoundsAssumption DEF Record, Entries, WarmIds, TypeOK, Records
  <2> QED BY <1>2, <1>3, <2>1, <2>2, CacheStep DEF WarmIds, TypeOK
<1>6. CASE GetCold(id)
  <2> DEFINE v == FirstArchived(id)
  <2>1. /\ id \in ColdIds /\ hot' = HotAdd(hot, Record(id, v))
        /\ warm' = [warm EXCEPT ![id] = v]
    BY <1>6 DEF GetCold
  <2>2. v \in 1..MaxVersion
    BY <1>2, <2>1, FirstArchivedType DEF TypeOK
  <2> HIDE DEF v
  <2>3. Record(id, v) \in Entries /\ Record(id, v).id = id
    BY <2>2 DEF Record, Entries
  <2>4. warm' \in Records /\ WarmIds' = WarmIds \cup {id}
    BY <1>2, <2>1, <2>2, BoundsAssumption DEF WarmIds, TypeOK, Records
  <2>5. id \in StoredIds
    BY <2>1 DEF StoredIds
  <2> QED BY <1>2, <1>3, <2>1, <2>3, <2>4, <2>5, CacheStep
<1> QED BY <1>4, <1>5, <1>6 DEF Lookup

(* What a retrieval promotes comes from the archive.                        *)
LEMMA PromotedType ==
    ASSUME TypeOK, NEW matching \in SUBSET Ids, NEW n,
           warm' = Promoted(matching, n)
    PROVE  /\ warm' \in Records
           /\ WarmIds \subseteq WarmIds' /\ WarmIds' \subseteq StoredIds
<1>1. /\ DOMAIN cold = 1..Len(cold)
      /\ \A i \in 1..Len(cold) : cold[i] \in Entries
  BY LenProperties, ElementOfSeq DEF TypeOK
<1> DEFINE LastHit(id) == {i \in FirstHits(matching, n) :
                              /\ cold[i].id = id
                              /\ \A j \in FirstHits(matching, n) :
                                    cold[j].id = id => j <= i}
           ver(id) == IF LastHit(id) = {} THEN warm[id]
                      ELSE cold[CHOOSE i \in LastHit(id) : TRUE].ver
<1>2. warm' = [id \in Ids |-> ver(id)]
  BY DEF Promoted
<1>3. ASSUME NEW id \in Ids
      PROVE  /\ ver(id) \in 0..MaxVersion
             /\ ver(id) = warm[id] \/ (ver(id) # 0 /\ id \in ColdIds)
  <2>1. CASE LastHit(id) = {}
    BY <2>1 DEF TypeOK, Records
  <2>2. CASE LastHit(id) # {}
    <3> DEFINE k == CHOOSE i \in LastHit(id) : TRUE
    <3>1. k \in LastHit(id)
      BY <2>2
    <3>2. k \in DOMAIN cold /\ cold[k].id = id
      BY <3>1 DEF FirstHits
    <3>3. ver(id) = cold[k].ver
      BY <2>2
    <3> HIDE DEF k, ver
    <3>4. cold[k].ver \in 1..MaxVersion
      BY <1>1, <3>2 DEF Entries
    <3> QED BY <3>2, <3>3, <3>4, BoundsAssumption DEF ColdIds
  <2> QED BY <2>1, <2>2
<1> HIDE DEF ver
<1>4. warm' \in Records
  BY <1>2, <1>3 DEF Records
<1>5. \A id \in Ids : warm'[id] = ver(id)
  BY <1>2
<1> QED BY <1>3, <1>4, <1>5 DEF WarmIds, StoredIds

(* A save makes the next version of the id.                                 *)
LEMMA SaveStep ==
    ASSUME TypeOK, NEW id \in Ids, Save(id)
    PROVE  /\ Record(id, latest'[id]) \in Entries /\ Record(id, latest'[id]).id = id
           /\ latest' \in Records /\ latest'[id] \in 1..MaxVersion
           /\ \A other \in Ids : latest'[other] # 0 => other = id \/ latest[other] # 0
<1>1. latest[id] + 1 \in 1..MaxVersion /\ latest[id] + 1 \in 0..MaxVersion
  BY BoundsAssumption DEF Save, TypeOK, Records
<1>2. latest' = [latest EXCEPT ![id] = latest[id] + 1]
  BY DEF Save
<1>3. latest'[id] = latest[id] + 1 /\ latest' \in Records
  BY <1>1, <1>2 DEF TypeOK, Records
<1> QED BY <1>1, <1>2, <1>3 DEF TypeOK, Records, Record, Entries

(* What a step must do for the invariant beside the types: the durable ids  *)
(* never shrink, what is saved or cached is among them, and what is being   *)
(* moved is in the archive.                                                 *)
LEMMA Durability ==
    ASSUME StoreInv, TypeOK',
           WarmIds \subseteq StoredIds', ColdIds \subseteq ColdIds',
           HotIds' \subseteq HotIds \cup StoredIds',
           \A id \in Ids : latest'[id] # 0 => latest[id] # 0 \/ id \in StoredIds',
           moving' # Nothing => moving' = moving \/ moving'.id \in ColdIds'
    PROVE  StoreInv'
<1>1. StoredIds \subseteq StoredIds'
  BY DEF StoredIds
<1>2. CachedIsStored' /\ NeverForgotten'
  BY <1>1 DEF StoreInv, CachedIsStored, NeverForgotten
<1>3. MoveCopiesFirst'
  BY DEF StoreInv, MoveCopiesFirst
<1> QED BY <1>2, <1>3 DEF StoreInv

(* Every step keeps the invariant, and adds at most one durable id.         *)
LEMMA StoreStep ==
    StoreInv /\ [Next]_vars =>
        StoreInv' /\ (StoredIds' = StoredIds
                      \/ \E id \in Ids : StoredIds' = StoredIds \cup {id})
<1> SUFFICES ASSUME StoreInv, [Next]_vars
             PROVE  StoreInv' /\ (StoredIds' = StoredIds
                       \/ \E id \in Ids : StoredIds' = StoredIds \cup {id})
  OBVIOUS
<1>t. TypeOK
  BY DEF StoreInv
<1>w. WarmIds \subseteq StoredIds /\ ColdIds \subseteq StoredIds
  BY DEF StoredIds
<1>n. \A r \in Entries : r.id \in Ids
  BY DEF Entries
<1>1. ASSUME NEW id \in Ids, SaveHot(id) \/ SaveWarm(id)
      PROVE  StoreInv' /\ StoredIds' = StoredIds \cup {id}
  <2> DEFINE r == Record(id, latest'[id])
  <2>1. /\ warm' = [warm EXCEPT ![id] = latest'[id]] /\ cold' = cold
        /\ hot' = hot \/ hot' = HotAdd(hot, r)
        /\ sweep' = sweep /\ moving' = moving /\ Save(id)
    BY <1>1 DEF SaveHot, SaveWarm, Save
  <2>2. /\ r \in Entries /\ r.id = id
        /\ latest' \in Records /\ latest'[id] \in 1..MaxVersion
        /\ \A other \in Ids : latest'[other] # 0 => other = id \/ latest[other] # 0
    BY <1>t, <2>1, SaveStep
  <2> HIDE DEF r
  <2>3. warm' \in Records /\ WarmIds' = WarmIds \cup {id}
    BY <1>t, <2>1, <2>2, BoundsAssumption DEF TypeOK, Records, WarmIds
  <2>4. ColdIds' = ColdIds
    BY <2>1 DEF ColdIds
  <2>5. StoredIds' = StoredIds \cup {id}
    BY <2>3, <2>4 DEF StoredIds
  <2>6. /\ hot' \in Seq(Entries) /\ Len(hot') <= HotMax
        /\ \A i, j \in DOMAIN hot' : hot'[i].id = hot'[j].id => i = j
        /\ HotIds' \subseteq HotIds \cup {id}
    <3>1. CASE hot' = hot
      BY <1>t, <3>1 DEF TypeOK, HotIds
    <3>2. CASE hot' = HotAdd(hot, r)
      BY <1>t, <2>2, <3>2, CacheStep
    <3> QED BY <2>1, <3>1, <3>2
  <2>7. TypeOK'
    BY <1>t, <2>1, <2>2, <2>3, <2>6 DEF TypeOK
  <2>8. StoreInv'
    BY <1>w, <2>1, <2>2, <2>4, <2>5, <2>6, <2>7, Durability
  <2> QED BY <2>5, <2>8
<1>2. ASSUME NEW id \in Ids, SaveCold(id)
      PROVE  StoreInv' /\ StoredIds' = StoredIds \cup {id}
  <2> DEFINE r == Record(id, latest'[id])
  <2>1. /\ cold' = Append(cold, r) /\ hot' = hot /\ warm' = warm
        /\ sweep' = sweep /\ moving' = moving /\ Save(id)
    BY <1>2 DEF SaveCold, Save
  <2>2. /\ r \in Entries /\ r.id = id /\ latest' \in Records
        /\ \A other \in Ids : latest'[other] # 0 => other = id \/ latest[other] # 0
    BY <1>t, <2>1, SaveStep
  <2> HIDE DEF r
  <2>3. cold' \in Seq(Entries) /\ ColdIds' = ColdIds \cup {id}
    BY <1>t, <2>1, <2>2, ColdStep
  <2>4. WarmIds' = WarmIds /\ HotIds' = HotIds
    BY <2>1 DEF WarmIds, HotIds
  <2>5. StoredIds' = StoredIds \cup {id}
    BY <2>3, <2>4 DEF StoredIds
  <2>6. TypeOK'
    BY <1>t, <2>1, <2>2, <2>3 DEF TypeOK
  <2>7. StoreInv'
    BY <1>w, <2>1, <2>2, <2>3, <2>4, <2>5, <2>6, Durability
  <2> QED BY <2>5, <2>7
<1>3. ASSUME NEW id \in Ids, Get(id) PROVE StoreInv' /\ StoredIds' = StoredIds
  <2>1. Lookup(id) /\ UNCHANGED <<cold, sweep, moving, latest>>
    BY <1>3 DEF Get
  <2>2. /\ warm' \in Records
        /\ hot' \in Seq(Entries) /\ Len(hot') <= HotMax
        /\ \A i, j \in DOMAIN hot' : hot'[i].id = hot'[j].id => i = j
        /\ HotIds' \subseteq StoredIds
        /\ WarmIds \subseteq WarmIds' /\ WarmIds' \subseteq StoredIds
    BY <2>1, LookupStep
  <2>3. ColdIds' = ColdIds
    BY <2>1 DEF ColdIds
  <2>4. StoredIds' = StoredIds
    BY <2>2, <2>3 DEF StoredIds
  <2>5. TypeOK'
    BY <1>t, <2>1, <2>2 DEF TypeOK
  <2>6. StoreInv'
    BY <1>w, <2>1, <2>2, <2>3, <2>4, <2>5, Durability
  <2> QED BY <2>4, <2>6
<1>4. ASSUME NEW id \in Ids, ArchiveCopy(id)
      PROVE  StoreInv' /\ StoredIds' = StoredIds
  <2>1. /\ Lookup(id) /\ moving' = hot'[Len(hot')] /\ cold' = Append(cold, moving')
        /\ UNCHANGED <<sweep, latest>>
    BY <1>4 DEF ArchiveCopy
  <2>2. /\ warm' \in Records
        /\ hot' \in Seq(Entries) /\ Len(hot') <= HotMax
        /\ \A i, j \in DOMAIN hot' : hot'[i].id = hot'[j].id => i = j
        /\ moving' \in Entries /\ moving'.id = id
        /\ id \in StoredIds /\ HotIds' \subseteq StoredIds
        /\ WarmIds \subseteq WarmIds' /\ WarmIds' \subseteq StoredIds
    BY <2>1, LookupStep
  <2>3. cold' \in Seq(Entries) /\ ColdIds' = ColdIds \cup {id}
    BY <1>t, <2>1, <2>2, ColdStep
  <2>4. StoredIds' = StoredIds
    BY <2>2, <2>3 DEF StoredIds
  <2>5. TypeOK'
    BY <1>t, <2>1, <2>2, <2>3 DEF TypeOK
  <2>6. StoreInv'
    BY <1>w, <2>1, <2>2, <2>3, <2>4, <2>5, Durability
  <2> QED BY <2>4, <2>6
<1>5. ASSUME NEW matching \in SUBSET Ids, NEW n,
             warm' = Promoted(matching, n), hot' = hot \/ hot' = <<>>,
             UNCHANGED <<cold, sweep, moving, latest>>
      PROVE  StoreInv' /\ StoredIds' = StoredIds
  <2>1. /\ warm' \in Records
        /\ WarmIds \subseteq WarmIds' /\ WarmIds' \subseteq StoredIds
    BY <1>t, <1>5, PromotedType
  <2>2. ColdIds' = ColdIds
    BY <1>5 DEF ColdIds
  <2>3. StoredIds' = StoredIds
    BY <2>1, <2>2 DEF StoredIds
  <2>4. /\ hot' \in Seq(Entries) /\ Len(hot') <= HotMax
        /\ \A i, j \in DOMAIN hot' : hot'[i].id = hot'[j].id => i = j
        /\ HotIds' \subseteq HotIds
    <3>1. CASE hot' = hot
      BY <1>t, <3>1 DEF TypeOK, HotIds
    <3>2. CASE hot' = <<>>
      BY <3>2, BoundsAssumption DEF HotIds
    <3> QED BY <1>5, <3>1, <3>2
  <2>5. TypeOK'
    BY <1>t, <1>5, <2>1, <2>4 DEF TypeOK
  <2>6. StoreInv'
    BY <1>w, <1>5, <2>1, <2>2, <2>3, <2>4, <2>5, Durability
  <2> QED BY <2>3, <2>6
<1>6. ASSUME NEW old \in SUBSET WarmIds, StartSweep(old)
      PROVE  StoreInv' /\ StoredIds' = StoredIds
  <2>1. UNCHANGED <<hot, warm, cold, moving, latest>>
        /\ sweep' = {Record(id, warm[id]) : id \in old}
    BY <1>6 DEF StartSweep
  <2>2. \A id \in WarmIds : Record(id, warm[id]) \in Entries
    BY <1>t, BoundsAssumption DEF TypeOK, Records, WarmIds, Record, Entries
  <2>3. TypeOK'
    BY <1>t, <2>1, <2>2 DEF TypeOK
  <2>4. HotIds' = HotIds /\ ColdIds' = ColdIds /\ WarmIds' = WarmIds
    BY <2>1 DEF HotIds, ColdIds, WarmIds
  <2>5. StoredIds' = StoredIds
    BY <2>4 DEF StoredIds
  <2>6. StoreInv'
    BY <1>w, <2>1, <2>3, <2>4, <2>5, Durability
  <2> QED BY <2>5, <2>6
<1>7. ASSUME NEW r \in sweep, SweepCopy(r)
      PROVE  StoreInv' /\ \E id \in Ids : StoredIds' = StoredIds \cup {id}
  <2>1. /\ cold' = Append(cold, r) /\ moving' = r /\ sweep' = sweep \ {r}
        /\ UNCHANGED <<hot, warm, latest>>
    BY <1>7 DEF SweepCopy
  <2>2. r \in Entries /\ r.id \in Ids
    BY <1>t, <1>n DEF TypeOK
  <2>3. cold' \in Seq(Entries) /\ ColdIds' = ColdIds \cup {r.id}
    BY <1>t, <2>1, <2>2, ColdStep
  <2>4. HotIds' = HotIds /\ WarmIds' = WarmIds
    BY <2>1 DEF HotIds, WarmIds
  <2>5. StoredIds' = StoredIds \cup {r.id}
    BY <2>3, <2>4 DEF StoredIds
  <2>6. TypeOK'
    BY <1>t, <2>1, <2>2, <2>3 DEF TypeOK
  <2>7. StoreInv'
    BY <1>w, <2>1, <2>3, <2>4, <2>5, <2>6, Durability
  <2> QED BY <2>2, <2>5, <2>7
<1>8. CASE DeleteMoved
  <2>1. /\ moving # Nothing /\ warm' = [warm EXCEPT ![moving.id] = 0]
        /\ moving' = Nothing /\ UNCHANGED <<hot, cold, sweep, latest>>
    BY <1>8 DEF DeleteMoved
  <2>2. moving.id \in Ids /\ moving.id \in ColdIds
    BY <1>t, <1>n, <2>1 DEF StoreInv, MoveCopiesFirst, TypeOK
  <2>3. warm' \in Records /\ WarmIds' = WarmIds \ {moving.id}
    BY <1>t, <2>1, <2>2, BoundsAssumption DEF TypeOK, Records, WarmIds
  <2>4. HotIds' = HotIds /\ ColdIds' = ColdIds
    BY <2>1 DEF HotIds, ColdIds
  <2>5. StoredIds' = StoredIds
    BY <2>2, <2>3, <2>4 DEF StoredIds
  <2>6. TypeOK'
    BY <1>t, <2>1, <2>3 DEF TypeOK
  <2>7. StoreInv'
    BY <1>w, <2>1, <2>4, <2>5, <2>6, Durability
  <2> QED BY <2>5, <2>7
<1>9. CASE Crash
  <2>1. /\ hot' = <<>> /\ sweep' = {} /\ moving' = Nothing
        /\ UNCHANGED <<warm, cold, latest>>
    BY <1>9 DEF Crash
  <2>2. HotIds' = {} /\ WarmIds' = WarmIds /\ ColdIds' = ColdIds
    BY <2>1 DEF HotIds, WarmIds, ColdIds
  <2>3. StoredIds' = StoredIds
    BY <2>2 DEF StoredIds
  <2>4. TypeOK'
    BY <1>t, <2>1, BoundsAssumption DEF TypeOK
  <2>5. StoreInv'
    BY <1>w, <2>1, <2>2, <2>3, <2>4, Durability
  <2> QED BY <2>3, <2>5
<1>10. CASE UNCHANGED vars
  <2>1. UNCHANGED <<HotIds, WarmIds, ColdIds>>
    BY <1>10 DEF vars, HotIds, WarmIds, ColdIds
  <2>2. StoredIds' = StoredIds
    BY <2>1 DEF StoredIds
  <2>3. TypeOK'
    BY <1>t, <1>10 DEF vars, TypeOK
  <2>4. StoreInv'
    BY <1>w, <1>10, <2>1, <2>2, <2>3, Durability DEF vars
  <2> QED BY <2>2, <2>4
<1>11. ASSUME NEW matching \in SUBSET Ids,
              Retrieve(matching) \/ \E n \in 1..PromoteMax : RetrieveCut(matching, n)
       PROVE  StoreInv' /\ StoredIds' = StoredIds
  BY <1>5, <1>11 DEF Retrieve, RetrieveCut
<1> QED
  BY <1>1, <1>2, <1>3, <1>4, <1>6, <1>7, <1>8, <1>9, <1>10, <1>11 DEF Next

(* In every run the layers are well formed and nothing stored is lost.      *)
THEOREM StoreInvariant == Spec => []StoreInv
<1>1. StoreInv /\ [Next]_vars => StoreInv'
  BY StoreStep
<1> QED BY <1>1, StoreInit, PTL DEF Spec

(* Every variable keeps its type: one cache entry per id, at most HotMax.   *)
THEOREM TypeCorrect == Spec => []TypeOK
<1>1. StoreInv => TypeOK
  BY DEF StoreInv
<1> QED BY <1>1, StoreInvariant, PTL

(* Whatever moves a record and wherever the process stops, a saved record   *)
(* stays findable.                                                          *)
THEOREM NothingIsForgotten == Spec => []NeverForgotten
<1>1. StoreInv => NeverForgotten
  BY DEF StoreInv
<1> QED BY <1>1, StoreInvariant, PTL

(* The archive has the id of what is about to be deleted.                   *)
THEOREM CopiesComeFirst == Spec => []MoveCopiesFirst
<1>1. StoreInv => MoveCopiesFirst
  BY DEF StoreInv
<1> QED BY <1>1, StoreInvariant, PTL

(* The cache answers only for what the files still hold.                    *)
THEOREM CacheIsBacked == Spec => []CachedIsStored
<1>1. StoreInv => CachedIsStored
  BY DEF StoreInv
<1> QED BY <1>1, StoreInvariant, PTL

-----------------------------------------------------------------------------
(* Refinement *)

(* The store implements DurableIds: it starts with no durable id, and each  *)
(* step leaves them alone or adds one.                                      *)
THEOREM StoreIsDurable == Spec => DurableSpec
<1>1. Init => Durable!Init
  BY DEF Init, Durable!Init, StoredIds, WarmIds, ColdIds
<1>2. StoreInv /\ [Next]_vars => [Durable!Learn]_StoredIds
  BY StoreStep DEF Durable!Learn
<1> QED BY <1>1, <1>2, StoreInvariant, PTL DEF Spec, DurableSpec, Durable!Spec
=============================================================================

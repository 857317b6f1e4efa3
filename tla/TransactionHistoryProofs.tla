---------------------- MODULE TransactionHistoryProofs ----------------------
(***************************************************************************)
(* What an export can lose and repeat, for any number of syncs, pages of   *)
(* any length and any bank: the proofs of TypeOK and of ExportSlack.       *)
(*                                                                         *)
(* Both rest on what a listing of old and new rows is (ListingFacts): all  *)
(* of them, each once, and no old row nearer to the front than it was.     *)
(***************************************************************************)
EXTENDS TransactionHistory, FiniteSetTheorems, SequenceTheorems, TLAPS

-----------------------------------------------------------------------------
(* Places in a listing.                                                    *)

(* The new rows whose place is one of a .. b.                              *)
Placed(place, a, b) == {t \in DOMAIN place : place[t] \in a .. b}

(* No place takes two rows.                                                *)
LEMMA PlacedBound ==
    ASSUME NEW new, IsFiniteSet(new), NEW n \in Nat,
           NEW place \in Injection(new, 1 .. n),
           NEW a \in Int, NEW b \in Int, a <= b + 1
    PROVE  /\ IsFiniteSet(Placed(place, a, b))
           /\ Cardinality(Placed(place, a, b)) \in Nat
           /\ Cardinality(Placed(place, a, b)) <= b - a + 1
  <1> DEFINE some == Placed(place, a, b)
             at   == [t \in some |-> place[t]]
  <1>1. some \in SUBSET new
    BY DEF Placed, Injection
  <1>2. IsFiniteSet(some) /\ Cardinality(some) \in Nat
    BY <1>1, FS_Subset, FS_CardinalityType
  <1>3. at \in Injection(some, a .. b)
    BY DEF Placed, Injection, IsInjective
  <1>4. IsFiniteSet(a .. b) /\ Cardinality(a .. b) = b - a + 1
    BY FS_Interval
  <1>5. Cardinality(some) <= Cardinality(a .. b)
    <2> HIDE DEF some, at
    <2> QED BY ONLY <1>3, <1>4, FS_Injection
  <1> QED
    BY ONLY <1>2, <1>4, <1>5

(* Places are counted piece by piece.                                      *)
LEMMA PlacedSplit ==
    ASSUME NEW new, IsFiniteSet(new), NEW n \in Nat,
           NEW place \in Injection(new, 1 .. n),
           NEW a \in Int, NEW b \in Int, NEW c \in Int, a <= b + 1, b <= c
    PROVE  Cardinality(Placed(place, a, c))
             = Cardinality(Placed(place, a, b)) + Cardinality(Placed(place, b + 1, c))
  <1> DEFINE first == Placed(place, a, b)
             last  == Placed(place, b + 1, c)
  <1>1. /\ IsFiniteSet(first) /\ IsFiniteSet(last)
        /\ Cardinality(first) \in Nat /\ Cardinality(last) \in Nat
    BY PlacedBound
  <1>2. Placed(place, a, c) = first \cup last /\ first \cap last = {}
    BY DEF Placed, Injection
  <1> HIDE DEF first, last
  <1>3. Cardinality(first \cup last)
          = Cardinality(first) + Cardinality(last) - Cardinality(first \cap last)
    BY ONLY <1>1, FS_Union
  <1>4. Cardinality(first \cap last) = 0
    BY <1>2, FS_EmptySet
  <1>5. Cardinality(Placed(place, a, c)) = Cardinality(first \cup last)
    BY <1>2
  <1>6. Cardinality(Placed(place, a, c)) = Cardinality(first) + Cardinality(last)
    BY ONLY <1>1, <1>3, <1>4, <1>5
  <1> QED
    BY <1>6 DEF first, last

(* Old rows fill the places that no new row takes: each has one, and they  *)
(* stay in order.                                                          *)
Free(place, n) == {i \in 1 .. n : ~ \E t \in DOMAIN place : place[t] = i}

LEMMA OldPlaces ==
    ASSUME NEW new, IsFiniteSet(new), NEW rows \in Nat, NEW n \in Nat,
           n = rows + Cardinality(new), Cardinality(new) \in Nat,
           NEW place \in Injection(new, 1 .. n)
    PROVE  /\ \A i \in Free(place, n) :
                 NewBefore(place, i) \in Nat /\ i - NewBefore(place, i) \in 1 .. rows
           /\ \A i, k \in Free(place, n) :
                 i < k => i - NewBefore(place, i) < k - NewBefore(place, k)
  <1>1. \A i \in Free(place, n) :
          /\ i \in 1 .. n
          /\ NewBefore(place, i) = Cardinality(Placed(place, 1, i - 1))
          /\ Placed(place, i, i) = {}
    <2> TAKE i \in Free(place, n)
    <2>1. i \in 1 .. n
      BY DEF Free
    <2>2. {t \in DOMAIN place : place[t] < i} = Placed(place, 1, i - 1)
      BY <2>1 DEF Placed, Injection
    <2>3. Placed(place, i, i) = {}
      BY <2>1 DEF Placed, Injection, Free
    <2> QED
      BY <2>1, <2>2, <2>3 DEF NewBefore
  <1>2. Placed(place, 1, n) = new
    BY DEF Placed, Injection
  <1>3. ASSUME NEW i \in Free(place, n)
        PROVE  NewBefore(place, i) \in Nat /\ i - NewBefore(place, i) \in 1 .. rows
    <2> DEFINE before == Cardinality(Placed(place, 1, i - 1))
               here   == Cardinality(Placed(place, i, i))
               upto   == Cardinality(Placed(place, 1, i))
               after  == Cardinality(Placed(place, i + 1, n))
               all    == Cardinality(new)
    <2>1. i \in 1 .. n /\ NewBefore(place, i) = before /\ here = 0
      BY <1>1, <1>3, FS_EmptySet
    <2>2. before \in Nat /\ before <= i - 1
      BY <2>1, PlacedBound
    <2>3. after \in Nat /\ after <= n - i
      BY <2>1, PlacedBound
    <2>4. upto = before + here
      BY <2>1, PlacedSplit, (i - 1) + 1 = i
    <2>5. all = upto + after
      BY <2>1, <1>2, PlacedSplit
    <2>6. all \in Nat /\ n = rows + all
      OBVIOUS
    <2> HIDE DEF before, here, upto, after, all
    <2> QED
      BY ONLY <2>1, <2>2, <2>3, <2>4, <2>5, <2>6, rows \in Nat
  <1>4. ASSUME NEW i \in Free(place, n), NEW k \in Free(place, n), i < k
        PROVE  i - NewBefore(place, i) < k - NewBefore(place, k)
    <2> DEFINE before == Cardinality(Placed(place, 1, i - 1))
               here   == Cardinality(Placed(place, i, i))
               upto   == Cardinality(Placed(place, 1, i))
               mid    == Cardinality(Placed(place, i + 1, k - 1))
               later  == Cardinality(Placed(place, 1, k - 1))
    <2>1. i \in 1 .. n /\ k \in 1 .. n /\ NewBefore(place, i) = before /\ here = 0
          /\ NewBefore(place, k) = later
      BY <1>1, <1>4, FS_EmptySet
    <2>2. before \in Nat /\ before <= i - 1
      BY <2>1, PlacedBound
    <2>3. mid \in Nat /\ mid <= k - 1 - i
      BY <2>1, <1>4, PlacedBound
    <2>4. upto = before + here
      BY <2>1, PlacedSplit, (i - 1) + 1 = i
    <2>5. later = upto + mid
      BY <2>1, <1>4, PlacedSplit
    <2> HIDE DEF before, here, upto, mid, later
    <2> QED
      BY ONLY <2>1, <2>2, <2>3, <2>4, <2>5
  <1> QED
    BY <1>3, <1>4

(* A listing has all the old rows and all the new ones, each once; and no  *)
(* old row comes nearer to the front.                                      *)
LEMMA ListingFacts ==
    ASSUME NEW S, NEW old \in Seq(S), IsInjective(old),
           NEW new \in SUBSET S, IsFiniteSet(new), new \cap ToSet(old) = {},
           NEW listing \in Listings(old, new)
    PROVE  /\ listing \in Seq(S)
           /\ IsInjective(listing)
           /\ ToSet(listing) = ToSet(old) \cup new
           /\ Cardinality(new) \in Nat
           /\ Len(listing) = Len(old) + Cardinality(new)
           /\ \A i \in DOMAIN old, j \in DOMAIN listing : listing[j] = old[i] => i <= j
  <1> DEFINE rows == Len(old)
             all  == Cardinality(new)
             n    == rows + all
             S2   == ToSet(old) \cup new
  <1>1. rows \in Nat /\ all \in Nat /\ n \in Nat /\ DOMAIN old = 1 .. rows
    BY FS_CardinalityType
  <1>2. PICK place \in Injection(new, 1 .. n) : listing = Listing(old, place)
    BY DEF Listings
  <1>3. DOMAIN place = new /\ \A t \in new : place[t] \in 1 .. n
    BY <1>2 DEF Injection
  <1>4. DOMAIN listing = 1 .. n
    BY <1>2, <1>3 DEF Listing
  <1>5. ASSUME NEW t \in new PROVE listing[place[t]] = t
    <2>1. listing[place[t]] = CHOOSE u \in DOMAIN place : place[u] = place[t]
      BY <1>2, <1>3, <1>5 DEF Listing
    <2>2. \A u \in DOMAIN place : place[u] = place[t] => u = t
      BY <1>3, <1>5 DEF Injection, IsInjective
    <2> QED
      BY <2>1, <2>2, <1>3, <1>5
  <1>6. /\ \A i \in Free(place, n) :
             NewBefore(place, i) \in Nat /\ i - NewBefore(place, i) \in 1 .. rows
        /\ \A i, k \in Free(place, n) :
             i < k => i - NewBefore(place, i) < k - NewBefore(place, k)
    <2>1. n = rows + Cardinality(new) /\ Cardinality(new) \in Nat
      BY <1>1
    <2> HIDE DEF rows, all, n
    <2> QED
      BY ONLY <1>1, <1>2, <2>1, IsFiniteSet(new), OldPlaces
  <1>7. \A i \in Free(place, n) :
          i \in 1 .. n /\ listing[i] = old[i - NewBefore(place, i)]
    BY <1>2, <1>3 DEF Free, Listing
  <1>8. ASSUME NEW i \in 1 .. n, i \notin Free(place, n)
        PROVE  \E t \in new : place[t] = i /\ listing[i] = t
    BY <1>3, <1>5, <1>8 DEF Free
  <1>9. \A k \in 1 .. rows : old[k] \in ToSet(old) /\ old[k] \in S
    BY <1>1 DEF ToSet
  <1>10. \A i \in Free(place, n) : listing[i] \in ToSet(old)
    BY <1>6, <1>7, <1>9
  <1>11. \A i \in 1 .. n : listing[i] \in S2
    BY <1>8, <1>10
  <1>12. IsInjective(listing)
    <2> SUFFICES ASSUME NEW i \in 1 .. n, NEW k \in 1 .. n, listing[i] = listing[k]
                 PROVE  i = k
      BY <1>4 DEF IsInjective
    <2>1. CASE i \notin Free(place, n)
      <3>1. listing[i] \in new /\ listing[k] \notin ToSet(old)
        BY <2>1, <1>8
      <3>2. k \notin Free(place, n)
        BY <3>1, <1>10
      <3> QED
        BY <2>1, <3>2, <1>8
    <2>2. CASE i \in Free(place, n)
      <3>1. k \in Free(place, n)
        BY <2>2, <1>8, <1>10
      <3>2. i - NewBefore(place, i) = k - NewBefore(place, k)
        BY <2>2, <3>1, <1>1, <1>6, <1>7 DEF IsInjective
      <3>3. ~(i < k) /\ ~(k < i)
        BY <2>2, <3>1, <3>2, <1>6
      <3> QED
        BY <3>3, <1>1
    <2> QED
      BY <2>1, <2>2
  <1>13. IsFiniteSet(S2) /\ Cardinality(S2) = n
    <2>1. old \in Surjection(1 .. rows, ToSet(old)) /\ old \in Injection(1 .. rows, ToSet(old))
      BY <1>1, <1>9 DEF Surjection, Injection, IsInjective, ToSet
    <2>2. IsFiniteSet(1 .. rows) /\ Cardinality(1 .. rows) = rows
      <3> HIDE DEF rows
      <3> QED
        BY ONLY <1>1, FS_Interval
    <2> DEFINE T == ToSet(old)
    <2>3. IsFiniteSet(T) /\ Cardinality(T) = rows
      <3> HIDE DEF T
      <3> QED BY ONLY <2>1, <2>2, FS_Surjection DEF T
    <2>4. T \cap new = {}
      OBVIOUS
    <2> HIDE DEF T
    <2>5. IsFiniteSet(T \cup new) /\ Cardinality(T \cup new) = rows + all - Cardinality(T \cap new)
      BY ONLY <2>3, FS_Union, IsFiniteSet(new)
    <2>6. Cardinality(T \cap new) = 0
      BY ONLY <2>4, FS_EmptySet
    <2>7. Cardinality(T \cup new) = n
      BY ONLY <2>5, <2>6, <1>1
    <2> QED
      BY <2>5, <2>7 DEF T
  <1>14. listing \in Surjection(1 .. n, S2)
    <2>1. listing = [i \in 1 .. n |-> listing[i]]
      BY <1>2, <1>3 DEF Listing
    <2>2. listing \in Injection(1 .. n, S2)
      BY <2>1, <1>11, <1>12 DEF Injection
    <2>3. IsFiniteSet(1 .. n) /\ Cardinality(1 .. n) = n
      BY <1>1, FS_Interval
    <2> HIDE DEF n, S2
    <2> QED
      BY ONLY <2>2, <2>3, <1>13, FS_Injection
  <1>15. listing \in Seq(S) /\ Len(listing) = n
    <2>1. listing = [i \in 1 .. n |-> listing[i]]
      BY <1>2, <1>3 DEF Listing
    <2>2. ToSet(old) \subseteq S
      BY <1>1 DEF ToSet
    <2>3. \A i \in 1 .. n : listing[i] \in S
      BY <1>11, <2>2
    <2> HIDE DEF n
    <2> QED BY ONLY <2>1, <2>3, <1>1
  <1>16. ToSet(listing) = S2
    BY <1>4, <1>11, <1>14 DEF ToSet, Surjection
  <1>17. ASSUME NEW i \in DOMAIN old, NEW j \in DOMAIN listing, listing[j] = old[i]
         PROVE  i <= j
    <2>1. j \in Free(place, n)
      <3>1. listing[j] \in ToSet(old)
        BY <1>17, <1>1, <1>9
      <3> QED
        BY <3>1, <1>4, <1>8
    <2>2. i = j - NewBefore(place, j)
      BY <2>1, <1>17, <1>1, <1>6, <1>7 DEF IsInjective
    <2> QED
      BY <2>1, <2>2, <1>4, <1>6, <1>1
  <1> QED
    BY <1>1, <1>12, <1>15, <1>16, <1>17

-----------------------------------------------------------------------------
(* Types.                                                                  *)

DistinctIds(txns) == \A t, u \in txns : t.id = u.id => t = u

(* The counter is never ahead of the numbers, and the ledger has no id it  *)
(* has not given yet, nor one twice.                                       *)
Banked ==
    /\ bank.next \in 1 .. bank.made + 1
    /\ IsFiniteSet(bank.ledger) /\ DistinctIds(bank.ledger)
    /\ \A t \in bank.ledger : t.id < bank.next

(* What a sync has fetched was a ledger.                                   *)
Fetches == \A s \in Syncs : IsFiniteSet(sync[s].fetched) /\ DistinctIds(sync[s].fetched)

(* An export that has not begun has no file.                               *)
Fresh == export.pc = "idle" => export.offset = 0 /\ export.lines = << >>

HistoryInv == TypeOK /\ Banked /\ Fetches /\ Fresh

(* The seeds: their ids are the first ones.                                *)
LEMMA SeedFacts ==
    ASSUME NEW k \in 0 .. MaxPosted, k + Seed <= MaxPosted
    PROVE  /\ SeedFrom(k) \subseteq Txn
           /\ IsFiniteSet(SeedFrom(k)) /\ DistinctIds(SeedFrom(k))
           /\ \A t \in SeedFrom(k) : t.id < Seed + 1
  <1> DEFINE seeds == [i \in 1 .. Seed |-> [id |-> i, number |-> k + i]]
  <1>1. seeds \in Surjection(1 .. Seed, SeedFrom(k))
    BY DEF Surjection, SeedFrom
  <1>2. IsFiniteSet(1 .. Seed)
    BY HistoryAssumption, FS_Interval
  <1>3. IsFiniteSet(SeedFrom(k))
    BY ONLY <1>1, <1>2, FS_Surjection
  <1> QED
    BY <1>3, HistoryAssumption DEF SeedFrom, Txn, Numbers, DistinctIds

LEMMA InitHistory == Init => HistoryInv
  <1> SUFFICES ASSUME Init PROVE HistoryInv
    OBVIOUS
  <1>1. /\ SeedFrom(0) \subseteq Txn
        /\ IsFiniteSet(SeedFrom(0)) /\ DistinctIds(SeedFrom(0))
        /\ \A t \in SeedFrom(0) : t.id < Seed + 1
    BY SeedFacts, HistoryAssumption
  <1>2. TypeOK
    BY <1>1, HistoryAssumption DEF Init, TypeOK, Idle, Reading
  <1>3. Banked
    BY <1>1, HistoryAssumption DEF Init, Banked
  <1>4. Fetches /\ Fresh
    BY FS_EmptySet DEF Init, Fetches, Fresh, Idle, DistinctIds
  <1> QED
    BY <1>2, <1>3, <1>4 DEF HistoryInv

(* The rows a commit adds are transactions that were not there.            *)
LEMMA CommitFacts ==
    ASSUME HistoryInv, NEW s \in Syncs, SyncCommit(s)
    PROVE  LET new == NewRows(sync[s].fetched) IN
           /\ new \in SUBSET Txn /\ IsFiniteSet(new) /\ DistinctIds(new)
           /\ \A t \in new, i \in DOMAIN stored : t.id # stored[i].id
           /\ new \cap ToSet(stored) = {}
           /\ stored' \in Seq(Txn) /\ IsInjective(stored')
           /\ ToSet(stored') = ToSet(stored) \cup new
           /\ Cardinality(new) \in Nat
           /\ Len(stored') = Len(stored) + Cardinality(new)
           /\ \A i \in DOMAIN stored, j \in DOMAIN stored' :
                 stored'[j] = stored[i] => i <= j
  <1> DEFINE new == NewRows(sync[s].fetched)
  <1>1. sync[s].fetched \in SUBSET Txn /\ stored \in Seq(Txn)
    BY DEF HistoryInv, TypeOK
  <1>2. new \in SUBSET sync[s].fetched
    BY DEF NewRows
  <1>3. IsFiniteSet(new) /\ DistinctIds(new) /\ new \in SUBSET Txn
    BY <1>1, <1>2, FS_Subset DEF HistoryInv, Fetches, DistinctIds
  <1>4. \A t \in new, i \in DOMAIN stored : t.id # stored[i].id
    BY DEF NewRows, Ids, ToSet
  <1>5. new \cap ToSet(stored) = {}
    BY <1>4 DEF ToSet
  <1>6. IsInjective(stored)
    BY DEF HistoryInv, TypeOK, IsInjective
  <1>7. stored' \in Listings(stored, new)
    BY DEF SyncCommit
  <1> HIDE DEF new
  <1>8. /\ stored' \in Seq(Txn) /\ IsInjective(stored')
        /\ ToSet(stored') = ToSet(stored) \cup new
        /\ Cardinality(new) \in Nat
        /\ Len(stored') = Len(stored) + Cardinality(new)
        /\ \A i \in DOMAIN stored, j \in DOMAIN stored' :
              stored'[j] = stored[i] => i <= j
    BY ONLY <1>1, <1>3, <1>5, <1>6, <1>7, ListingFacts
  <1> QED
    BY <1>3, <1>4, <1>5, <1>8 DEF new

(* One row is stored of an id.                                             *)
LEMMA CommitKeepsIds ==
    ASSUME HistoryInv, NEW s \in Syncs, SyncCommit(s)
    PROVE  \A i, j \in DOMAIN stored' : stored'[i].id = stored'[j].id => i = j
  <1> DEFINE new == NewRows(sync[s].fetched)
  <1>1. /\ DistinctIds(new)
        /\ \A t \in new, i \in DOMAIN stored : t.id # stored[i].id
        /\ IsInjective(stored')
        /\ ToSet(stored') = ToSet(stored) \cup new
    BY CommitFacts
  <1>2. \A i \in DOMAIN stored' : stored'[i] \in new \/ \E k \in DOMAIN stored : stored'[i] = stored[k]
    BY <1>1 DEF ToSet
  <1> SUFFICES ASSUME NEW i \in DOMAIN stored', NEW j \in DOMAIN stored',
                      stored'[i].id = stored'[j].id
               PROVE  stored'[i] = stored'[j]
    BY <1>1 DEF IsInjective
  <1>3. \A k, l \in DOMAIN stored : stored[k].id = stored[l].id => stored[k] = stored[l]
    BY DEF HistoryInv, TypeOK
  <1> HIDE DEF new
  <1> QED
    BY <1>1, <1>2, <1>3 DEF DistinctIds

(* The smaller of two numbers, by cases.                                   *)
LEMMA Smaller ==
    ASSUME NEW a \in Int, NEW b \in Int
    PROVE  Min({a, b}) = IF a <= b THEN a ELSE b
  BY DEF Min

(* What a page is: the rows of the window that are there.                  *)
LEMMA PageFacts ==
    ASSUME NEW S, NEW rows \in Seq(S), NEW offset \in Nat
    PROVE  LET last == Min({offset + PageSize, Len(rows)})
               page == SubSeq(rows, offset + 1, last) IN
           /\ last = IF offset + PageSize <= Len(rows) THEN offset + PageSize ELSE Len(rows)
           /\ page \in Seq(S)
           /\ Len(page) = IF offset <= last THEN last - offset ELSE 0
           /\ \A i \in 1 .. last - offset : page[i] = rows[offset + i]
  <1> DEFINE full == offset + PageSize
             size == Len(rows)
             last == Min({full, size})
             page == SubSeq(rows, offset + 1, last)
  <1>1. full \in Nat /\ size \in Nat /\ PageSize \in Nat
    BY HistoryAssumption
  <1>2. last = IF full <= size THEN full ELSE size
    <2> HIDE DEF full, size
    <2> QED
      BY <1>1, Smaller
  <1>3. last \in Nat /\ last <= size
    <2> HIDE DEF full, size, last
    <2> QED
      BY ONLY <1>1, <1>2
  <1> HIDE DEF last
  <1>4. \A i \in offset + 1 .. last : rows[i] \in S
    BY <1>3
  <1>5. /\ page \in Seq(S)
        /\ Len(page) = IF offset + 1 <= last THEN last - (offset + 1) + 1 ELSE 0
        /\ \A i \in 1 .. last - (offset + 1) + 1 : page[i] = rows[(offset + 1) + i - 1]
    <2>1. offset + 1 \in Int /\ last \in Int
      BY <1>3
    <2> QED
      BY <2>1, <1>4, SubSeqProperties
  <1>6. Len(page) = IF offset <= last THEN last - offset ELSE 0
    BY <1>3, <1>5
  <1>7. \A i \in 1 .. last - offset : page[i] = rows[offset + i]
    BY <1>3, <1>5
  <1> QED
    BY <1>2, <1>5, <1>6, <1>7 DEF last

LEMMA SyncCommitTypes ==
    ASSUME HistoryInv, NEW s \in Syncs, SyncCommit(s)
    PROVE  HistoryInv'
  <1>1. /\ stored' \in Seq(Txn)
        /\ Len(stored') - Len(stored) \in Nat
    <2>1. Len(stored) \in Nat
      BY DEF HistoryInv, TypeOK
    <2> QED
      BY <2>1, CommitFacts
  <1>2. \A i, j \in DOMAIN stored' : stored'[i].id = stored'[j].id => i = j
    BY CommitKeepsIds
  <1>3. sync' \in [Syncs -> [pc : {"idle", "fetched"}, fetched : SUBSET Txn]]
    BY DEF HistoryInv, TypeOK, SyncCommit, Idle
  <1>4. /\ export' \in [pc : {"idle", "done", "failed"} \cup Reading, offset : Nat, total : Nat,
                       lines : Seq(Txn), start : SUBSET Txn, inserted : Nat]
        /\ export'.pc = export.pc /\ export'.offset = export.offset
        /\ export'.total = export.total /\ export'.lines = export.lines
    <2> DEFINE more == Len(stored') - Len(stored)
    <2>1. export' = IF export.pc \in Reading
                    THEN [export EXCEPT !.inserted = @ + more]
                    ELSE export
      <3>1. Len(stored') \in Nat /\ Len(stored) \in Nat
        BY <1>1 DEF HistoryInv, TypeOK
      <3>2. export.inserted \in Nat
        BY DEF HistoryInv, TypeOK
      <3>3. export.inserted + Len(stored') - Len(stored) = export.inserted + more
        BY <3>1, <3>2
      <3> QED
        BY <3>3 DEF SyncCommit
    <2> HIDE DEF more
    <2>2. export.inserted + more \in Nat
      BY <1>1 DEF HistoryInv, TypeOK, more
    <2> QED
      BY <2>1, <2>2 DEF HistoryInv, TypeOK
  <1>5. TypeOK'
    BY <1>1, <1>2, <1>3, <1>4 DEF HistoryInv, TypeOK, SyncCommit
  <1>6. Banked'
    BY DEF HistoryInv, Banked, SyncCommit
  <1>7. Fetches'
    BY FS_EmptySet DEF HistoryInv, TypeOK, Fetches, SyncCommit, Idle, DistinctIds
  <1>8. Fresh'
    BY <1>4 DEF HistoryInv, Fresh
  <1> QED
    BY <1>5, <1>6, <1>7, <1>8 DEF HistoryInv

LEMMA ReadRowsTypes ==
    ASSUME HistoryInv, ReadRows
    PROVE  HistoryInv'
  <1>1. Page(export.offset) \in Seq(Txn)
    BY PageFacts DEF HistoryInv, TypeOK, Page
  <1>2. export.lines \o Page(export.offset) \in Seq(Txn)
    BY <1>1 DEF HistoryInv, TypeOK
  <1>3. export.offset + PageSize \in Nat
    BY HistoryAssumption DEF HistoryInv, TypeOK
  <1>4. /\ AfterPage(export.offset) \in {"check", "done"}
        /\ AfterPage(export.offset) = "check" => export.offset + PageSize < export.total
    BY <1>3 DEF AfterPage, HistoryInv, TypeOK
  <1> DEFINE page == Page(export.offset)
             next == AfterPage(export.offset)
  <1>5. export' = [export EXCEPT !.pc = next, !.lines = export.lines \o page,
                                 !.offset = export.offset + PageSize]
    BY DEF ReadRows
  <1> HIDE DEF page, next
  <1>6. /\ export' \in [pc : {"idle", "done", "failed"} \cup Reading, offset : Nat, total : Nat,
                       lines : Seq(Txn), start : SUBSET Txn, inserted : Nat]
        /\ export'.pc = next /\ export'.offset = export.offset + PageSize
        /\ export'.total = export.total
    BY <1>2, <1>3, <1>4, <1>5 DEF HistoryInv, TypeOK, Reading, page, next
  <1>7. TypeOK'
    BY <1>4, <1>6 DEF HistoryInv, TypeOK, ReadRows, next
  <1>8. Banked' /\ Fetches'
    BY DEF HistoryInv, Banked, Fetches, ReadRows
  <1>9. Fresh'
    BY <1>4, <1>6 DEF Fresh, next
  <1> QED
    BY <1>7, <1>8, <1>9 DEF HistoryInv

LEMMA HistoryStep == HistoryInv /\ [Next]_vars => HistoryInv'
  <1> SUFFICES ASSUME HistoryInv, [Next]_vars PROVE HistoryInv'
    OBVIOUS
  <1> USE DEF HistoryInv
  <1>1. CASE UNCHANGED vars
    BY <1>1 DEF vars, TypeOK, Banked, Fetches, Fresh
  <1>2. CASE Post
    <2>1. [id |-> bank.next, number |-> bank.made + 1] \in Txn
      BY <1>2, HistoryAssumption DEF Post, TypeOK, Banked, Txn, Numbers
    <2> DEFINE posted == [id |-> bank.next, number |-> bank.made + 1]
    <2>3. /\ bank'.ledger = bank.ledger \cup {posted}
          /\ bank'.next = bank.next + 1 /\ bank'.made = bank.made + 1
          /\ posted.id = bank.next
      BY <1>2 DEF Post, TypeOK
    <2>2. TypeOK'
      <3> DEFINE more == bank.ledger \cup {posted}
      <3>1. more \in SUBSET Txn
        BY <2>1 DEF TypeOK
      <3>2. bank' = [bank EXCEPT !.ledger = more, !.next = bank.next + 1, !.made = bank.made + 1]
        BY <1>2 DEF Post
      <3> HIDE DEF more, posted
      <3>3. bank' \in [ledger : SUBSET Txn, next : Nat, made : 0 .. MaxPosted,
                      restarts : 0 .. MaxRestarts]
        <4>1. bank \in [ledger : SUBSET Txn, next : Nat, made : 0 .. MaxPosted,
                        restarts : 0 .. MaxRestarts]
          BY DEF TypeOK
        <4>2. bank.next + 1 \in Nat /\ bank.made + 1 \in 0 .. MaxPosted
          BY <1>2, <4>1, HistoryAssumption DEF Post
        <4> QED
          BY ONLY <3>1, <3>2, <4>1, <4>2
      <3> QED
        BY <1>2, <3>3 DEF Post, TypeOK
    <2> HIDE DEF posted
    <2>4. IsFiniteSet(bank'.ledger)
      BY <2>3, FS_AddElement DEF Banked
    <2>5. \A t \in bank.ledger : t.id \in Nat
      BY HistoryAssumption DEF TypeOK, Txn, Numbers
    <2>6. Banked'
      BY <2>3, <2>4, <2>5, HistoryAssumption DEF TypeOK, Banked, DistinctIds
    <2> QED
      BY <1>2, <2>2, <2>6 DEF Post, Fetches, Fresh
  <1>3. CASE Restart
    <2>1. /\ SeedFrom(bank.made) \subseteq Txn
          /\ IsFiniteSet(SeedFrom(bank.made)) /\ DistinctIds(SeedFrom(bank.made))
          /\ \A t \in SeedFrom(bank.made) : t.id < Seed + 1
      BY <1>3, SeedFacts DEF Restart, TypeOK
    <2>2. TypeOK'
      BY <1>3, <2>1, HistoryAssumption DEF Restart, TypeOK
    <2>3. Banked'
      BY <1>3, <2>1, HistoryAssumption DEF Restart, TypeOK, Banked
    <2> QED
      BY <1>3, <2>2, <2>3 DEF Restart, Fetches, Fresh
  <1>4. CASE Unlink
    <2>1. stored' \in Seq(Txn) /\ DOMAIN stored' = {}
      BY <1>4 DEF Unlink
    <2>2. sync' \in [Syncs -> [pc : {"idle", "fetched"}, fetched : SUBSET Txn]]
      BY <1>4 DEF Unlink, Idle
    <2>3. TypeOK'
      BY <1>4, <2>1, <2>2 DEF Unlink, TypeOK
    <2>4. Fetches'
      BY <1>4, FS_EmptySet DEF Unlink, Fetches, Idle, DistinctIds
    <2> QED
      BY <1>4, <2>3, <2>4 DEF Unlink, Banked, Fresh
  <1>5. ASSUME NEW s \in Syncs, SyncFetch(s) PROVE HistoryInv'
    <2>1. TypeOK'
      BY <1>5 DEF SyncFetch, TypeOK, Answer
    <2>2. Fetches'
      BY <1>5 DEF SyncFetch, TypeOK, Answer, Fetches, Banked
    <2> QED
      BY <1>5, <2>1, <2>2 DEF SyncFetch, Banked, Fresh
  <1>6. ASSUME NEW s \in Syncs, SyncCommit(s) PROVE HistoryInv'
    BY <1>6, SyncCommitTypes
  <1>7. CASE Begin
    <2>1. ToSet(stored) \subseteq Txn
      BY DEF TypeOK, ToSet
    <2>2. TypeOK'
      BY <1>7, <2>1 DEF Begin, TypeOK, Reading, Fresh
    <2> QED
      BY <1>7, <2>2 DEF Begin, TypeOK, Banked, Fetches, Fresh
  <1>8. CASE Check
    <2>1. TypeOK'
      BY <1>8 DEF Check, TypeOK, Reading
    <2> QED
      BY <1>8, <2>1 DEF Check, TypeOK, Banked, Fetches, Fresh
  <1>9. CASE CountRows
    <2>1. Len(stored) \in Nat
      BY DEF TypeOK
    <2>2. TypeOK'
      BY <1>9, <2>1 DEF CountRows, TypeOK, Reading
    <2> QED
      BY <1>9, <2>2 DEF CountRows, TypeOK, Banked, Fetches, Fresh
  <1>10. CASE ReadRows
    BY <1>10, ReadRowsTypes
  <1> QED
    BY <1>1, <1>2, <1>3, <1>4, <1>5, <1>6, <1>7, <1>8, <1>9, <1>10 DEF Next

(* Whatever the syncs, the bank's restarts and the user do: the variables  *)
(* have their types, no id of the bank's is stored twice, and the export   *)
(* asks for no page past the last total it was told.                       *)
THEOREM HistoryTypes == Spec => []TypeOK
  <1>1. HistoryInv => TypeOK
    BY DEF HistoryInv
  <1> QED
    BY <1>1, InitHistory, HistoryStep, PTL DEF Spec

-----------------------------------------------------------------------------
(* The export.                                                             *)

(* The rows at the places the export is past.                              *)
Passed == {stored[i] : i \in {k \in DOMAIN stored : k <= export.offset}}

(* While it reads: every row of the start it is past is in the file; the   *)
(* rows it is past and that are not in the file were inserted meanwhile;   *)
(* the file has no more lines than there are rows it is past; and the rows *)
(* that were not counted were inserted meanwhile.                          *)
Progress ==
    linked /\ export.pc \in Reading =>
        LET read == ToSet(export.lines) IN
        /\ export.start \subseteq ToSet(stored)
        /\ Passed \cap export.start \subseteq read
        /\ Cardinality(Passed \ read) <= export.inserted
        /\ Len(export.lines) <= export.offset /\ Len(export.lines) <= Len(stored)
        /\ export.pc = "rows" => Len(stored) <= export.total + export.inserted

ExportInv == HistoryInv /\ Progress /\ ExportSlack

(* What it is past is finite, as are the rows themselves.                  *)
LEMMA RowsAreFinite ==
    ASSUME NEW S, NEW rows \in Seq(S)
    PROVE  IsFiniteSet(ToSet(rows)) /\ Cardinality(ToSet(rows)) <= Len(rows)
  <1>1. rows \in Surjection(1 .. Len(rows), ToSet(rows))
    BY DEF Surjection, ToSet
  <1>2. IsFiniteSet(1 .. Len(rows)) /\ Cardinality(1 .. Len(rows)) = Len(rows)
    <2> DEFINE n == Len(rows)
    <2>1. n \in Nat
      OBVIOUS
    <2> HIDE DEF n
    <2>2. IsFiniteSet(1 .. n) /\ Cardinality(1 .. n) = n
      BY ONLY <2>1, FS_Interval
    <2> QED
      BY <2>2 DEF n
  <1> DEFINE T == ToSet(rows)
  <1> HIDE DEF T
  <1>3. IsFiniteSet(T) /\ Cardinality(T) <= Cardinality(1 .. Len(rows))
    BY ONLY <1>1, <1>2, FS_Surjection DEF T
  <1> QED
    BY <1>2, <1>3 DEF T

LEMMA PassedIsFinite ==
    ASSUME HistoryInv
    PROVE  /\ Passed \in SUBSET ToSet(stored) /\ IsFiniteSet(Passed)
           /\ \A read : IsFiniteSet(Passed \ read) /\ Cardinality(Passed \ read) \in Nat
  <1>1. IsFiniteSet(ToSet(stored))
    BY RowsAreFinite DEF HistoryInv, TypeOK
  <1>2. Passed \in SUBSET ToSet(stored)
    BY DEF Passed, ToSet
  <1>3. IsFiniteSet(Passed)
    BY <1>1, <1>2, FS_Subset
  <1> HIDE DEF Passed
  <1>4. \A read : IsFiniteSet(Passed \ read) /\ Cardinality(Passed \ read) \in Nat
    BY <1>3, FS_Difference, FS_CardinalityType
  <1> QED
    BY <1>2, <1>3, <1>4

(* A commit pushes rows away from the front and adds some: nothing but the *)
(* new rows can come to where the export has been.                         *)
LEMMA CommitKeepsProgress ==
    ASSUME ExportInv, NEW s \in Syncs, SyncCommit(s)
    PROVE  Progress'
  <1> SUFFICES ASSUME export'.pc \in Reading PROVE Progress'
    BY DEF Progress
  <1> DEFINE new   == NewRows(sync[s].fetched)
             m     == Cardinality(new)
             read  == ToSet(export.lines)
  <1>1. HistoryInv /\ linked /\ linked' = linked
    BY DEF ExportInv, SyncCommit
  <1>2. /\ new \cap ToSet(stored) = {} /\ IsFiniteSet(new) /\ m \in Nat
        /\ stored' \in Seq(Txn) /\ stored \in Seq(Txn)
        /\ ToSet(stored') = ToSet(stored) \cup new
        /\ Len(stored') = Len(stored) + m
        /\ \A i \in DOMAIN stored, j \in DOMAIN stored' :
              stored'[j] = stored[i] => i <= j
    BY <1>1, CommitFacts DEF HistoryInv, TypeOK
  <1> HIDE DEF new, m
  <1>3. /\ export \in [pc : {"idle", "done", "failed"} \cup Reading, offset : Nat, total : Nat,
                      lines : Seq(Txn), start : SUBSET Txn, inserted : Nat]
        /\ Len(export.lines) \in Nat /\ Len(stored) \in Nat
    BY <1>1, <1>2 DEF HistoryInv, TypeOK
  <1>4. export.pc \in Reading
    BY <1>3 DEF SyncCommit
  <1>5. export'.inserted = export.inserted + m
    <2>1. export' = [export EXCEPT !.inserted = export.inserted + Len(stored') - Len(stored)]
      BY <1>4 DEF SyncCommit
    <2>2. export'.inserted = export.inserted + Len(stored') - Len(stored)
      BY <2>1, <1>3
    <2> QED
      BY ONLY <2>2, <1>2, <1>3
  <1>6. /\ export'.pc = export.pc /\ export'.offset = export.offset
        /\ export'.total = export.total /\ export'.lines = export.lines
        /\ export'.start = export.start
    BY <1>3 DEF SyncCommit
  <1>7. /\ export.start \subseteq ToSet(stored)
        /\ Passed \cap export.start \subseteq read
        /\ Cardinality(Passed \ read) <= export.inserted
        /\ Len(export.lines) <= export.offset /\ Len(export.lines) <= Len(stored)
        /\ export.pc = "rows" => Len(stored) <= export.total + export.inserted
    BY <1>1, <1>4 DEF ExportInv, Progress
  <1>8. Passed' \subseteq Passed \cup new
    <2> SUFFICES ASSUME NEW j \in DOMAIN stored', j <= export.offset, stored'[j] \notin new
                 PROVE  stored'[j] \in Passed
      BY <1>6 DEF Passed
    <2>1. stored'[j] \in ToSet(stored)
      BY <1>2 DEF ToSet
    <2>2. PICK i \in DOMAIN stored : stored'[j] = stored[i]
      BY <2>1 DEF ToSet
    <2>3. i <= j
      BY <1>2, <2>2
    <2>4. i <= export.offset
      BY <2>3, <1>2, <1>3
    <2> QED
      BY <2>2, <2>4 DEF Passed
  <1>9. Passed' \cap export.start \subseteq read
    BY <1>2, <1>7, <1>8
  <1>10. Cardinality(Passed' \ read) <= export.inserted + m
    <2> DEFINE old   == Passed \ read
               both  == old \cup new
               after == Passed' \ read
    <2>1. IsFiniteSet(old) /\ Cardinality(old) \in Nat
      BY <1>1, PassedIsFinite
    <2>2. after \in SUBSET both
      BY <1>8
    <2> HIDE DEF old, after
    <2>3. /\ IsFiniteSet(both)
          /\ Cardinality(both) = Cardinality(old) + m - Cardinality(old \cap new)
      BY <2>1, <1>2, FS_Union DEF m
    <2>4. Cardinality(old \cap new) \in Nat
      BY ONLY <2>1, FS_Intersection, FS_CardinalityType
    <2>5. Cardinality(both) \in Nat
      BY ONLY <2>3, FS_CardinalityType
    <2>6. Cardinality(after) <= Cardinality(both) /\ Cardinality(after) \in Nat
      <3> HIDE DEF both
      <3> QED
        BY ONLY <2>2, <2>3, FS_Subset, FS_CardinalityType
    <2>7. Cardinality(old) <= export.inserted /\ export.inserted \in Nat /\ m \in Nat
      BY <1>2, <1>3, <1>7 DEF old
    <2> HIDE DEF both
    <2>8. Cardinality(after) <= export.inserted + m
      BY ONLY <2>1, <2>3, <2>4, <2>5, <2>6, <2>7
    <2> QED
      BY <2>8 DEF after
  <1>11. /\ Len(export.lines) <= Len(stored')
         /\ export.pc = "rows" => Len(stored') <= export.total + (export.inserted + m)
    BY <1>2, <1>3, <1>7
  <1> HIDE DEF read
  <1>12. ToSet(export.lines)' = read
    BY <1>6 DEF read
  <1> QED
    BY <1>2, <1>5, <1>6, <1>7, <1>9, <1>10, <1>11, <1>12 DEF Progress

(* Rows appended to a file are in it, with those that were.                *)
LEMMA ConcatRows ==
    ASSUME NEW S, NEW a \in Seq(S), NEW b \in Seq(S)
    PROVE  /\ a \o b \in Seq(S) /\ Len(a \o b) = Len(a) + Len(b)
           /\ ToSet(a) \subseteq ToSet(a \o b) /\ ToSet(b) \subseteq ToSet(a \o b)
  <1>1. /\ a \o b \in Seq(S) /\ Len(a \o b) = Len(a) + Len(b)
        /\ \A i \in 1 .. Len(a) + Len(b) :
              (a \o b)[i] = IF i <= Len(a) THEN a[i] ELSE b[i - Len(a)]
    BY ConcatProperties
  <1>2. /\ DOMAIN (a \o b) = 1 .. Len(a) + Len(b)
        /\ DOMAIN a = 1 .. Len(a) /\ DOMAIN b = 1 .. Len(b)
        /\ Len(a) \in Nat /\ Len(b) \in Nat
    BY <1>1
  <1>3. \A i \in 1 .. Len(a) : a[i] = (a \o b)[i] /\ i \in 1 .. Len(a) + Len(b)
    BY <1>1, <1>2
  <1>4. \A i \in 1 .. Len(b) :
          b[i] = (a \o b)[Len(a) + i] /\ Len(a) + i \in 1 .. Len(a) + Len(b)
    BY <1>1, <1>2
  <1>5. ToSet(a) \subseteq ToSet(a \o b)
    BY <1>2, <1>3 DEF ToSet
  <1>6. ToSet(b) \subseteq ToSet(a \o b)
    <2> DEFINE ab == a \o b
    <2>1. \A i \in DOMAIN b : \E k \in DOMAIN ab : b[i] = ab[k]
      BY <1>2, <1>4
    <2> HIDE DEF ab
    <2>2. ToSet(b) \subseteq ToSet(ab)
      BY ONLY <2>1 DEF ToSet
    <2> QED
      BY <2>2 DEF ab
  <1> QED
    BY <1>1, <1>5, <1>6

(* Reading a page: what the export is past grows by the page, and so does  *)
(* the file.                                                               *)
LEMMA ReadFacts ==
    ASSUME ExportInv, ReadRows, linked
    PROVE  LET read == ToSet(export'.lines) IN
           /\ export'.pc = AfterPage(export.offset)
           /\ export'.offset = export.offset + PageSize
           /\ export'.total = export.total /\ export'.start = export.start
           /\ export'.inserted = export.inserted
           /\ export'.lines \in Seq(Txn)
           /\ Passed' \cap export.start \subseteq read
           /\ Cardinality(Passed' \ read) <= export.inserted
           /\ Len(export'.lines) <= export'.offset
           /\ Len(export'.lines) <= Len(stored)
  <1> DEFINE offset == export.offset
             size   == Len(stored)
             last   == Min({offset + PageSize, size})
             page   == SubSeq(stored, offset + 1, last)
             read   == ToSet(export'.lines)
  <1>1. HistoryInv /\ stored \in Seq(Txn) /\ stored' = stored /\ export.pc = "rows"
    BY DEF ExportInv, HistoryInv, TypeOK, ReadRows
  <1>2. /\ export \in [pc : {"idle", "done", "failed"} \cup Reading, offset : Nat, total : Nat,
                      lines : Seq(Txn), start : SUBSET Txn, inserted : Nat]
        /\ Len(export.lines) \in Nat /\ size \in Nat /\ offset \in Nat /\ PageSize \in Nat
    BY <1>1, HistoryAssumption DEF HistoryInv, TypeOK
  <1>3. /\ last = IF offset + PageSize <= size THEN offset + PageSize ELSE size
        /\ page \in Seq(Txn)
        /\ Len(page) = IF offset <= last THEN last - offset ELSE 0
        /\ \A i \in 1 .. last - offset : page[i] = stored[offset + i]
    <2>1. stored \in Seq(Txn) /\ offset \in Nat
      BY <1>1, <1>2
    <2> QED
      BY ONLY <2>1, PageFacts, Zenon
  <1>4. Page(offset) = page
    BY DEF Page
  <1> HIDE DEF last, page
  <1>5. /\ export'.pc = AfterPage(export.offset)
        /\ export'.offset = offset + PageSize
        /\ export'.total = export.total /\ export'.start = export.start
        /\ export'.inserted = export.inserted
        /\ export'.lines = export.lines \o page
    BY <1>2, <1>4 DEF ReadRows
  <1>6. /\ export'.lines \in Seq(Txn)
        /\ Len(export'.lines) = Len(export.lines) + Len(page)
        /\ ToSet(export.lines) \subseteq read
        /\ ToSet(page) \subseteq read
    <2> DEFINE before == export.lines
               after  == export'.lines
    <2>1. before \in Seq(Txn) /\ page \in Seq(Txn) /\ after = before \o page
      BY <1>2, <1>3, <1>5
    <2> HIDE DEF before, after
    <2>2. /\ after \in Seq(Txn) /\ Len(after) = Len(before) + Len(page)
          /\ ToSet(before) \subseteq ToSet(after) /\ ToSet(page) \subseteq ToSet(after)
      BY ONLY <2>1, ConcatRows
    <2> QED
      BY <2>2 DEF before, after
  <1>7. /\ Passed \cap export.start \subseteq ToSet(export.lines)
        /\ Cardinality(Passed \ ToSet(export.lines)) <= export.inserted
        /\ Len(export.lines) <= offset /\ Len(export.lines) <= size
    BY <1>1 DEF ExportInv, Progress, Reading
  <1>8. Passed' \subseteq Passed \cup ToSet(page)
    <2> SUFFICES ASSUME NEW j \in DOMAIN stored, j <= offset + PageSize, ~(j <= offset)
                 PROVE  stored[j] \in ToSet(page)
      BY <1>1, <1>5 DEF Passed
    <2>1. j \in 1 .. size
      BY <1>1
    <2>2. j - offset \in 1 .. last - offset /\ offset + (j - offset) = j /\ offset <= last
      BY <2>1, <1>2, <1>3
    <2>3. page[j - offset] = stored[j] /\ j - offset \in 1 .. Len(page)
      BY <2>2, <1>3
    <2> QED
      BY <2>3, <1>3 DEF ToSet
  <1>9. Passed' \cap export.start \subseteq read
    BY <1>6, <1>7, <1>8
  <1>10. Cardinality(Passed' \ read) <= export.inserted
    <2> DEFINE before == Passed \ ToSet(export.lines)
               after  == Passed' \ read
    <2>1. after \in SUBSET before
      BY <1>6, <1>8
    <2>2. IsFiniteSet(before) /\ Cardinality(before) \in Nat
      BY <1>1, PassedIsFinite
    <2>3. Cardinality(before) <= export.inserted /\ export.inserted \in Nat
      BY <1>2, <1>7
    <2> HIDE DEF before, after
    <2>4. Cardinality(after) <= Cardinality(before) /\ Cardinality(after) \in Nat
      BY ONLY <2>1, <2>2, FS_Subset, FS_CardinalityType
    <2>5. Cardinality(after) <= export.inserted
      BY ONLY <2>2, <2>3, <2>4
    <2> QED
      BY <2>5 DEF after
  <1>11. Len(export'.lines) <= offset + PageSize /\ Len(export'.lines) <= size
    <2> DEFINE long == Len(export.lines)
    <2>1. Len(page) \in Nat /\ Len(export'.lines) = long + Len(page) /\ long \in Nat
      BY <1>2, <1>3, <1>6
    <2>2. long <= offset /\ long <= size
      BY <1>7
    <2> HIDE DEF offset, size, long
    <2> QED
      BY ONLY <1>2, <1>3, <2>1, <2>2
  <1> QED
    BY <1>5, <1>6, <1>9, <1>10, <1>11

LEMMA ReadKeepsProgress ==
    ASSUME ExportInv, ReadRows
    PROVE  Progress'
  <1> SUFFICES ASSUME linked, export'.pc \in Reading PROVE Progress'
    BY DEF Progress, ReadRows
  <1>1. export'.pc = "check"
    BY ReadFacts DEF AfterPage, Reading
  <1>2. stored' = stored /\ export.start \subseteq ToSet(stored)
    BY DEF ExportInv, Progress, ReadRows, Reading
  <1> QED
    BY <1>1, <1>2, ReadFacts DEF Progress

(* At the last page: the lines are no more than the rows passed, of which  *)
(* as many as were inserted may be missing; and the rows of the start that *)
(* are not in the file are behind, where only rows are that no total       *)
(* counted.                                                                *)
LEMMA LastPage ==
    ASSUME ExportInv, ReadRows
    PROVE  ExportSlack'
  <1> SUFFICES ASSUME linked, export'.pc = "done" PROVE ExportSlack'
    BY DEF ExportSlack, ReadRows
  <1> DEFINE read     == ToSet(export'.lines)
             lost     == Passed' \ read
             end      == export'.offset
             size     == Len(stored)
             lines    == Len(export'.lines)
             inserted == export.inserted
             rest     == {stored[i] : i \in end + 1 .. size}
  <1>1. HistoryInv /\ stored \in Seq(Txn) /\ stored' = stored /\ export.pc = "rows"
    BY DEF ExportInv, HistoryInv, TypeOK, ReadRows
  <1>2. /\ end \in Nat /\ size \in Nat /\ inserted \in Nat /\ export.total \in Nat
        /\ end = export.offset + PageSize
    BY <1>1, HistoryAssumption, ReadFacts DEF HistoryInv, TypeOK
  <1>3. /\ export'.lines \in Seq(Txn)
        /\ export'.start = export.start /\ export'.inserted = inserted
        /\ Passed' \cap export.start \subseteq read
        /\ Cardinality(lost) <= inserted
        /\ lines <= end /\ lines <= size
    BY ReadFacts
  <1>4. lines \in Nat /\ IsFiniteSet(read) /\ Cardinality(read) \in Nat
    BY <1>3, RowsAreFinite, FS_CardinalityType
  <1>5. end >= export.total
    BY <1>2, ReadFacts DEF AfterPage
  <1>6. /\ export.start \subseteq ToSet(stored)
        /\ size <= export.total + inserted
    BY <1>1 DEF ExportInv, Progress, Reading
  <1>7. IsFiniteSet(Passed') /\ Cardinality(Passed') \in Nat
    <2>1. HistoryInv'
      BY <1>1, ReadRowsTypes
    <2>2. Passed' \in SUBSET ToSet(stored)
      BY <1>1 DEF Passed, ToSet
    <2>3. IsFiniteSet(ToSet(stored))
      BY <1>1, RowsAreFinite
    <2> QED
      BY ONLY <2>2, <2>3, FS_Subset, FS_CardinalityType
  <1>8. Passed' = {stored[i] : i \in {k \in DOMAIN stored : k <= end}}
    BY <1>1 DEF Passed
  <1>9. lines <= Cardinality(Passed')
    <2> DEFINE at == [i \in 1 .. lines |-> stored[i]]
    <2>1. \A i \in 1 .. lines : i \in DOMAIN stored /\ i <= end
      BY <1>1, <1>2, <1>3, <1>4
    <2>2. \A i, j \in DOMAIN stored : stored[i] = stored[j] => i = j
      BY <1>1 DEF HistoryInv, TypeOK
    <2>3. at \in Injection(1 .. lines, Passed')
      BY <2>1, <2>2, <1>8 DEF Injection, IsInjective
    <2>4. Cardinality(1 .. lines) = lines
      <3> HIDE DEF lines
      <3> QED
        BY ONLY <1>4, FS_Interval
    <2>5. Cardinality(1 .. lines) <= Cardinality(Passed')
      <3> HIDE DEF lines, at
      <3> QED
        BY ONLY <2>3, <1>7, FS_Injection
    <2> QED
      BY <2>4, <2>5
  <1>10. lines - Cardinality(read) <= inserted
    <2>1. IsFiniteSet(lost) /\ Cardinality(lost) \in Nat
      BY <1>7, FS_Difference, FS_CardinalityType
    <2> DEFINE both == read \cup lost
    <2>2. Passed' \in SUBSET both
      OBVIOUS
    <2>3. Cardinality(lost) <= inserted
      BY <1>3
    <2> HIDE DEF read, lost, lines, inserted
    <2>4. /\ IsFiniteSet(both)
          /\ Cardinality(both) = Cardinality(read) + Cardinality(lost) - Cardinality(read \cap lost)
      BY <2>1, <1>4, FS_Union
    <2>5. Cardinality(read \cap lost) \in Nat
      BY ONLY <1>4, FS_Intersection, FS_CardinalityType
    <2> HIDE DEF both
    <2>6. Cardinality(Passed') <= Cardinality(both)
      BY ONLY <2>2, <2>4, FS_Subset
    <2>7. Cardinality(both) \in Nat
      BY ONLY <2>4, FS_CardinalityType
    <2> DEFINE p == Cardinality(Passed')
               b == Cardinality(both)
               r == Cardinality(read)
               l == Cardinality(lost)
               c == Cardinality(read \cap lost)
    <2>8. /\ p \in Nat /\ b \in Nat /\ r \in Nat /\ l \in Nat /\ c \in Nat
          /\ lines \in Nat /\ inserted \in Nat
          /\ b = r + l - c /\ p <= b /\ l <= inserted /\ lines <= p
      BY ONLY <2>1, <2>3, <2>4, <2>5, <2>6, <2>7, <1>2, <1>4, <1>7, <1>9
    <2> HIDE DEF p, b, r, l, c
    <2>9. lines - r <= inserted
      BY ONLY <2>8
    <2> QED
      BY <2>9 DEF r
  <1>11. Cardinality(export.start \ read) <= inserted
    <2> DEFINE missing == export.start \ read
               at      == [i \in end + 1 .. size |-> stored[i]]
    <2>1. missing \in SUBSET rest
      <3> SUFFICES ASSUME NEW t \in export.start, t \notin read
                   PROVE  t \in rest
        OBVIOUS
      <3>1. PICK i \in DOMAIN stored : t = stored[i]
        BY <1>6 DEF ToSet
      <3>2. i \in 1 .. size
        BY <1>1
      <3>3. ~(i <= end)
        BY <1>3, <1>8, <3>1
      <3>4. i \in end + 1 .. size
        BY <1>2, <3>2, <3>3
      <3> QED
        BY <3>1, <3>4
    <2>2. at \in Surjection(end + 1 .. size, rest)
      BY DEF Surjection
    <2>3. /\ IsFiniteSet(end + 1 .. size)
          /\ Cardinality(end + 1 .. size)
               = IF end + 1 > size THEN 0 ELSE size - (end + 1) + 1
      <3> HIDE DEF end, size
      <3>1. end + 1 \in Int /\ size \in Int
        BY <1>2
      <3> QED
        BY ONLY <3>1, FS_Interval
    <2>4. Cardinality(end + 1 .. size) <= inserted
      <3> HIDE DEF end, size, inserted
      <3> QED
        BY ONLY <1>2, <1>5, <1>6, <2>3
    <2> HIDE DEF missing, rest, at
    <2>5. /\ IsFiniteSet(rest) /\ Cardinality(rest) \in Nat
          /\ Cardinality(rest) <= Cardinality(end + 1 .. size)
      BY ONLY <2>2, <2>3, FS_Surjection, FS_CardinalityType
    <2>6. Cardinality(missing) <= Cardinality(rest) /\ Cardinality(missing) \in Nat
      BY ONLY <2>1, <2>5, FS_Subset, FS_CardinalityType
    <2>7. Cardinality(end + 1 .. size) \in Nat
      BY ONLY <2>3, FS_CardinalityType
    <2>8. Cardinality(missing) <= inserted
      BY ONLY <2>4, <2>5, <2>6, <2>7, <1>2
    <2> QED
      BY <2>8 DEF missing
  <1> QED
    BY <1>3, <1>10, <1>11 DEF ExportSlack

LEMMA ExportStep == ExportInv /\ [Next]_vars => ExportInv'
  <1> SUFFICES ASSUME ExportInv, [Next]_vars PROVE ExportInv'
    OBVIOUS
  <1>1. HistoryInv /\ HistoryInv'
    BY HistoryStep DEF ExportInv
  <1>2. CASE UNCHANGED <<linked, stored, export>>
    BY <1>1, <1>2 DEF ExportInv, Progress, Passed, ExportSlack
  <1>3. CASE Unlink
    BY <1>1, <1>3 DEF ExportInv, Progress, ExportSlack, Unlink
  <1>4. ASSUME NEW s \in Syncs, SyncCommit(s) PROVE ExportInv'
    <2>1. Progress'
      BY <1>4, CommitKeepsProgress
    <2>2. export'.pc = export.pc
      BY <1>1, <1>4 DEF SyncCommit, HistoryInv, TypeOK
    <2>3. export.pc = "done" => export' = export
      BY <1>4 DEF SyncCommit, Reading
    <2>4. ExportSlack'
      BY <1>4, <2>2, <2>3 DEF ExportInv, ExportSlack, SyncCommit
    <2> QED
      BY <1>1, <2>1, <2>4 DEF ExportInv
  <1>5. CASE Begin
    <2>1. /\ export'.pc = "check" /\ export'.start = ToSet(stored)
          /\ export'.inserted = 0 /\ export'.offset = 0 /\ export'.lines = << >>
          /\ stored' = stored
      BY <1>1, <1>5 DEF Begin, HistoryInv, TypeOK, Fresh
    <2>2. Passed' = {}
      BY <1>1, <2>1 DEF Passed, HistoryInv, TypeOK
    <2>3. Cardinality(Passed' \ ToSet(export'.lines)) = 0
      BY <2>2, FS_EmptySet
    <2>4. Len(stored) \in Nat
      BY <1>1 DEF HistoryInv, TypeOK
    <2>5. Progress'
      BY <2>1, <2>2, <2>3, <2>4 DEF Progress
    <2>6. ExportSlack'
      BY <2>1 DEF ExportSlack
    <2> QED
      BY <1>1, <2>5, <2>6 DEF ExportInv
  <1>6. CASE Check
    <2>1. /\ export' = [export EXCEPT !.pc = IF linked THEN "count" ELSE "failed"]
          /\ linked' = linked /\ stored' = stored /\ export.pc = "check"
      BY <1>6 DEF Check
    <2>2. /\ export'.pc \in {"count", "failed"} /\ linked => export'.pc = "count"
          /\ export'.offset = export.offset /\ export'.lines = export.lines
          /\ export'.start = export.start /\ export'.inserted = export.inserted
      BY <1>1, <2>1 DEF HistoryInv, TypeOK
    <2>3. Progress'
      BY <2>1, <2>2 DEF ExportInv, Progress, Passed, Reading
    <2>4. ExportSlack'
      BY <1>1, <2>1 DEF ExportSlack, HistoryInv, TypeOK
    <2> QED
      BY <1>1, <2>3, <2>4 DEF ExportInv
  <1>7. CASE CountRows
    <2>1. /\ export' = [export EXCEPT !.pc = "rows", !.total = Len(stored)]
          /\ linked' = linked /\ stored' = stored /\ export.pc = "count"
      BY <1>7 DEF CountRows
    <2>2. /\ export'.pc = "rows" /\ export'.total = Len(stored)
          /\ export'.offset = export.offset /\ export'.lines = export.lines
          /\ export'.start = export.start /\ export'.inserted = export.inserted
      BY <1>1, <2>1 DEF HistoryInv, TypeOK
    <2>3. Len(stored) <= export'.total + export'.inserted
      BY <1>1, <2>2 DEF HistoryInv, TypeOK
    <2>4. Progress'
      BY <2>1, <2>2, <2>3 DEF ExportInv, Progress, Passed, Reading
    <2> QED
      BY <1>1, <2>2, <2>4 DEF ExportInv, ExportSlack
  <1>8. CASE ReadRows
    BY <1>1, <1>8, ReadKeepsProgress, LastPage DEF ExportInv
  <1> QED
    BY <1>2, <1>3, <1>4, <1>5, <1>6, <1>7, <1>8
       DEF Next, vars, Post, Restart, SyncFetch

(* However the syncs commit between the export's pages and between the     *)
(* statements of one page: it leaves out, or repeats, at most one row for  *)
(* each row that was inserted meanwhile (an unlink during it aside).       *)
THEOREM ExportLosesLittle == Spec => []ExportSlack
  <1>1. Init => ExportInv
    BY InitHistory DEF Init, ExportInv, Progress, ExportSlack, Reading
  <1>2. ExportInv => ExportSlack
    BY DEF ExportInv
  <1> QED
    BY <1>1, <1>2, ExportStep, PTL DEF Spec
=============================================================================

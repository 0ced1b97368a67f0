---------------------------- MODULE KvStore_proofs ----------------------------
(***************************************************************************)
(* Proofs about KvStore for every set of runners, keys and values and      *)
(* every limit: what the guest is told, and what becomes of the state file.*)
(***************************************************************************)
EXTENDS KvStore, FiniteSetTheorems, WellFoundedInduction, TLAPS

(* The kinds of a write: none, one without and one with a temporary name. *)
Opening == [at : {"open"}, new : File, old : Entries, last : BOOLEAN]
Holding == [at : {"write", "rename", "sync", "remove"}, new : File, old : Entries,
            last : BOOLEAN, temp : 0..(Temp - 1)]
Writes == {Idle} \cup Opening \cup Holding

(* Of one runner: the store is within the limits, and so is the one that a write
   would restore ... *)
LimitOf(r) ==
    /\ Valid(kv[r])
    /\ write[r] # Idle => Valid(write[r].old)

(* ... between calls the guest was told what the store holds, and nothing waits
   for it that the store does not hold; a write that can be taken back would
   restore what it was told, and nothing waits meanwhile. *)
GuestOf(r) ==
    /\ r \in up => /\ write[r] = Idle => kv[r] = told[r]
                   /\ pending[r] # <<>> => kv[r][pending[r][1]] = pending[r][2]
    /\ write[r] # Idle /\ ~write[r].last => pending[r] = <<>> /\ told[r] = write[r].old

MemInv ==
    /\ \A r \in Runner : LimitOf(r) /\ GuestOf(r)
    /\ \A f \in File : data[f] # Partial => Valid(data[f][1])

-----------------------------------------------------------------------------
(* A set of natural numbers has a least element: the natural numbers are well
   ordered. *)
LEMMA LeastOf ==
    ASSUME NEW S \in SUBSET Nat, S # {}
    PROVE  Min(S) \in S
<1> DEFINE R == {ss \in Nat \X Nat : ss[1] < ss[2]}
<1>1. IsWellFoundedOn(R, Nat)
  BY NatLessThanWellFounded DEF OpToRel
<1> HIDE DEF R
<1>2. PICK x \in S : \A y \in S : ~ (<<y, x>> \in R)
  BY <1>1, WFMin
<1>3. ASSUME NEW y \in S
      PROVE  x <= y
  <2>1. x \in Nat /\ y \in Nat
    OBVIOUS
  <2>2. <<y, x>> \notin R
    BY <1>2
  <2>3. ~(y < x)
    BY <2>1, <2>2 DEF R
  <2> QED
    BY <2>1, <2>3
<1> QED
  BY <1>3 DEF Min

(* The bytes of entries: what the fold of MapThenSumSet comes to is the size of
   the area that has a column as high as the entry's bytes over each key. *)
Bytes(s, S) == MapThenSumSet(LAMBDA j : KeySize + s[j], S)
Column(s, j) == {j} \X (1..(KeySize + s[j]))
Area(s, S) == UNION {Column(s, j) : j \in S}

LEMMA ColumnSize ==
    ASSUME NEW s, NEW j, s[j] \in Nat
    PROVE  IsFiniteSet(Column(s, j)) /\ Cardinality(Column(s, j)) = KeySize + s[j]
<1> DEFINE n == KeySize + s[j]
<1>1. IsFiniteSet({j}) /\ Cardinality({j}) = 1
  BY FS_Singleton
<1>2. n \in Nat
  BY KvAssumption
<1>3. Column(s, j) = {j} \X (1..n)
  BY DEF Column
<1> HIDE DEF n
<1>4. IsFiniteSet(1..n) /\ Cardinality(1..n) = IF 1 > n THEN 0 ELSE n - 1 + 1
  BY <1>2, FS_Interval
<1>5. IsFiniteSet(1..n) /\ Cardinality(1..n) = n
  BY <1>2, <1>4
<1>6a. IsFiniteSet({j} \X (1..n)) /\ Cardinality({j} \X (1..n)) = Cardinality({j}) * Cardinality(1..n)
  BY <1>1, <1>5, FS_Product
<1>6. IsFiniteSet(Column(s, j)) /\ Cardinality(Column(s, j)) = 1 * n
  BY <1>1, <1>3, <1>5, <1>6a
<1>7. IsFiniteSet(Column(s, j)) /\ Cardinality(Column(s, j)) = n
  BY <1>2, <1>6
<1> QED
  BY <1>7 DEF n

LEMMA AreaFinite ==
    ASSUME NEW s, NEW S, IsFiniteSet(S), \A j \in S : s[j] \in Nat
    PROVE  IsFiniteSet(Area(s, S)) /\ Cardinality(Area(s, S)) \in Nat
<1> DEFINE C == {Column(s, j) : j \in S}
           f == [j \in S |-> Column(s, j)]
<1>1. f \in Surjection(S, C)
  BY DEF Surjection
<1>2. IsFiniteSet(C)
  BY <1>1, FS_Surjection
<1>3. \A c \in C : IsFiniteSet(c)
  BY ColumnSize
<1>4. IsFiniteSet(UNION C)
  BY <1>2, <1>3, FS_UNION
<1> QED
  BY <1>4, FS_CardinalityType DEF Area

LEMMA AreaAdd ==
    ASSUME NEW s, NEW S, IsFiniteSet(S), \A j \in S : s[j] \in Nat,
           NEW x, x \notin S, s[x] \in Nat
    PROVE  Cardinality(Area(s, S \cup {x})) = Cardinality(Area(s, S)) + (KeySize + s[x])
<1>1. IsFiniteSet(Area(s, S)) /\ Cardinality(Area(s, S)) \in Nat
  BY AreaFinite
<1>2. IsFiniteSet(Column(s, x)) /\ Cardinality(Column(s, x)) = KeySize + s[x]
  BY ColumnSize
<1>3. Area(s, S \cup {x}) = Area(s, S) \cup Column(s, x)
  BY DEF Area
<1>4. Area(s, S) \cap Column(s, x) = {}
  BY DEF Area, Column
<1>5. Cardinality(Area(s, S) \cap Column(s, x)) = 0
  BY <1>4, FS_EmptySet
<1>6. KeySize + s[x] \in Nat /\ KeySize \in Nat
  BY KvAssumption
<1>7. Cardinality(Area(s, S) \cup Column(s, x))
         = Cardinality(Area(s, S)) + Cardinality(Column(s, x)) - Cardinality(Area(s, S) \cap Column(s, x))
  BY <1>1, <1>2, FS_Union
<1>8. Cardinality(Area(s, S) \cup Column(s, x)) = Cardinality(Area(s, S)) + (KeySize + s[x])
  BY <1>1, <1>2, <1>5, <1>6, <1>7
<1> QED
  BY <1>3, <1>8

(* The function that the fold defines. *)
IsSum(it, s, S) ==
    it = [t \in SUBSET S |->
            IF t = {} THEN 0
            ELSE (KeySize + s[CHOOSE x \in t : TRUE]) + it[t \ {CHOOSE x \in t : TRUE}]]

LEMMA SumIs ==
    ASSUME NEW s, NEW S
    PROVE  Bytes(s, S) = (CHOOSE it : IsSum(it, s, S))[S]
  BY DEF Bytes, IsSum, MapThenSumSet, MapThenFoldSet

LEMMA AreaStep ==
    ASSUME NEW s, NEW t, IsFiniteSet(t), \A j \in t : s[j] \in Nat, t # {}
    PROVE  /\ (CHOOSE x \in t : TRUE) \in t
           /\ Cardinality(Area(s, t))
                 = (KeySize + s[CHOOSE x \in t : TRUE])
                    + Cardinality(Area(s, t \ {CHOOSE x \in t : TRUE}))
<1> DEFINE x == CHOOSE x \in t : TRUE
<1>1. x \in t
  OBVIOUS
<1> HIDE DEF x
<1>2. IsFiniteSet(t \ {x})
  BY FS_RemoveElement
<1>3. (t \ {x}) \cup {x} = t
  BY <1>1
<1>4. Cardinality(Area(s, t)) = Cardinality(Area(s, t \ {x})) + (KeySize + s[x])
  BY <1>1, <1>2, <1>3, AreaAdd
<1>5. Cardinality(Area(s, t \ {x})) \in Nat /\ KeySize \in Nat /\ s[x] \in Nat
  BY <1>1, <1>2, AreaFinite, KvAssumption
<1>6. Cardinality(Area(s, t)) = (KeySize + s[x]) + Cardinality(Area(s, t \ {x}))
  BY <1>4, <1>5
<1> QED
  BY <1>1, <1>6 DEF x

LEMMA EmptyArea == \A s : Cardinality(Area(s, {})) = 0
  BY FS_EmptySet DEF Area

LEMMA SumExists ==
    ASSUME NEW s, NEW S, IsFiniteSet(S), \A j \in S : s[j] \in Nat
    PROVE  IsSum([t \in SUBSET S |-> Cardinality(Area(s, t))], s, S)
<1> DEFINE it == [t \in SUBSET S |-> Cardinality(Area(s, t))]
<1>1. ASSUME NEW t \in SUBSET S
      PROVE  it[t] = IF t = {} THEN 0
                     ELSE (KeySize + s[CHOOSE x \in t : TRUE]) + it[t \ {CHOOSE x \in t : TRUE}]
  <2>1. IsFiniteSet(t)
    BY FS_Subset
  <2>2. CASE t = {}
    BY <2>2, EmptyArea
  <2>3. CASE t # {}
    <3>1. \A j \in t : s[j] \in Nat
      OBVIOUS
    <3>2. it[t \ {CHOOSE x \in t : TRUE}] = Cardinality(Area(s, t \ {CHOOSE x \in t : TRUE}))
      OBVIOUS
    <3>3. it[t] = Cardinality(Area(s, t))
      OBVIOUS
    <3>4. Cardinality(Area(s, t))
            = (KeySize + s[CHOOSE x \in t : TRUE]) + Cardinality(Area(s, t \ {CHOOSE x \in t : TRUE}))
      BY <2>1, <2>3, <3>1, AreaStep
    <3> HIDE DEF it
    <3> QED
      BY <2>3, <3>2, <3>3, <3>4
  <2> QED
    BY <2>2, <2>3
<1> QED
  BY <1>1 DEF IsSum

LEMMA SumUnique ==
    ASSUME NEW s, NEW S, IsFiniteSet(S), \A j \in S : s[j] \in Nat,
           NEW it, IsSum(it, s, S)
    PROVE  it[S] = Cardinality(Area(s, S))
<1> DEFINE Bad == {t \in SUBSET S : it[t] # Cardinality(Area(s, t))}
<1>1. SUFFICES ASSUME Bad # {} PROVE FALSE
  OBVIOUS
<1>2. IsWellFoundedOn(StrictSubsetOrdering(S), SUBSET S)
  BY FS_StrictSubsetOrderingWellFounded, FS_FiniteSubsetsOfFinite
<1>3. PICK t \in Bad : \A u \in Bad : <<u, t>> \notin StrictSubsetOrdering(S)
  BY <1>1, <1>2, WFMin
<1>4. IsFiniteSet(t) /\ t \subseteq S
  BY FS_Subset
<1>5. it[t] = IF t = {} THEN 0
              ELSE (KeySize + s[CHOOSE x \in t : TRUE]) + it[t \ {CHOOSE x \in t : TRUE}]
  BY <1>4 DEF IsSum
<1>6. t # {}
  BY <1>5, EmptyArea
<1>7. PICK x \in t : it[t] = (KeySize + s[x]) + it[t \ {x}]
                     /\ Cardinality(Area(s, t)) = (KeySize + s[x]) + Cardinality(Area(s, t \ {x}))
  BY <1>4, <1>5, <1>6, AreaStep
<1>8. <<t \ {x}, t>> \in StrictSubsetOrdering(S)
  BY <1>4, <1>7 DEF StrictSubsetOrdering
<1>9. it[t \ {x}] = Cardinality(Area(s, t \ {x}))
  BY <1>3, <1>4, <1>8
<1> QED
  BY <1>7, <1>9

LEMMA BytesIsArea ==
    ASSUME NEW s, NEW S, IsFiniteSet(S), \A j \in S : s[j] \in Nat
    PROVE  Bytes(s, S) = Cardinality(Area(s, S)) /\ Bytes(s, S) \in Nat
<1>1. IsSum(CHOOSE it : IsSum(it, s, S), s, S)
  BY SumExists
<1>2. Bytes(s, S) = Cardinality(Area(s, S))
  BY <1>1, SumIs, SumUnique
<1> QED
  BY <1>2, AreaFinite

(* A store within the limits stays so when a value that fits is set, and when
   one is deleted. *)
Present(s) == {j \in Key : s[j] # Absent}

LEMMA CountedSets ==
    ASSUME NEW s \in Entries, NEW k \in Key
    PROVE  /\ IsFiniteSet(Others(s, k)) /\ IsFiniteSet(Present(s))
           /\ \A j \in Others(s, k) : s[j] \in Nat
           /\ \A j \in Present(s) : s[j] \in Nat
           /\ Others(s, k) \subseteq Present(s) /\ k \notin Others(s, k)
<1>1. Others(s, k) \subseteq Key /\ Present(s) \subseteq Key
  BY DEF Others, Present
<1>2. IsFiniteSet(Others(s, k)) /\ IsFiniteSet(Present(s))
  BY <1>1, FS_Subset, KvAssumption
<1> QED
  BY <1>2, KvAssumption DEF Others, Present, Entries

LEMMA ValidIs ==
    ASSUME NEW s
    PROVE  Valid(s) <=> (\A k \in Key : s[k] <= MaxValue) /\ Bytes(s, Present(s)) <= MaxTotal
  BY DEF Valid, Bytes, Present

LEMMA EmptyValid == Valid(Empty)
<1>1. Present(Empty) = {}
  BY DEF Present, Empty
<1>2. Bytes(Empty, {}) = 0
  BY BytesIsArea, EmptyArea, FS_EmptySet
<1>3. \A k \in Key : Empty[k] <= MaxValue
  BY KvAssumption DEF Empty, Absent
<1> QED
  BY <1>1, <1>2, <1>3, ValidIs, KvAssumption

LEMMA ValidSet ==
    ASSUME NEW s \in Entries, Valid(s), NEW k \in Key, NEW v \in Value, Fits(s, k, v)
    PROVE  Valid([s EXCEPT ![k] = v])
<1> DEFINE t == [s EXCEPT ![k] = v]
           O == Others(s, k)
<1>1. t \in Entries /\ t[k] = v /\ \A j \in Key \ {k} : t[j] = s[j]
  BY DEF Entries
<1> HIDE DEF t
<1>2. v \in Nat /\ KeySize \in Nat /\ MaxTotal \in Nat /\ v # Absent
  BY KvAssumption DEF Absent
<1>3. Present(t) = O \cup {k}
  BY <1>1, <1>2 DEF Present, Others
<1>4. IsFiniteSet(O) /\ k \notin O /\ \A j \in O : s[j] \in Nat /\ t[j] = s[j]
  BY <1>1, CountedSets DEF Others
<1>5. Area(t, O) = Area(s, O)
  BY <1>4 DEF Area, Column
<1>6. Cardinality(Area(t, O \cup {k})) = Cardinality(Area(t, O)) + (KeySize + t[k])
  BY <1>1, <1>2, <1>4, AreaAdd
<1>7. Bytes(s, O) = Cardinality(Area(s, O)) /\ Bytes(s, O) \in Nat
  BY <1>4, BytesIsArea
<1>8. \A j \in Present(t) : t[j] \in Nat
  BY <1>1, CountedSets
<1>9. IsFiniteSet(Present(t))
  BY <1>1, CountedSets
<1>10. Bytes(t, Present(t)) = Cardinality(Area(t, Present(t)))
  BY <1>8, <1>9, BytesIsArea
<1>11. Bytes(t, Present(t)) = Bytes(s, O) + (KeySize + v)
  BY <1>1, <1>3, <1>5, <1>6, <1>7, <1>10
<1>12. v <= MaxValue /\ Bytes(s, O) + KeySize + v <= MaxTotal
  BY DEF Fits, BytesWithout, Bytes
<1>13. Bytes(t, Present(t)) <= MaxTotal
  BY <1>2, <1>7, <1>11, <1>12
<1>14. \A j \in Key : t[j] <= MaxValue
  BY <1>1, <1>12, ValidIs
<1> QED
  BY <1>13, <1>14, ValidIs DEF t

LEMMA ValidDelete ==
    ASSUME NEW s \in Entries, Valid(s), NEW k \in Key
    PROVE  Valid([s EXCEPT ![k] = Absent])
<1> DEFINE t == [s EXCEPT ![k] = Absent]
           O == Others(s, k)
<1>1. t \in Entries /\ t[k] = Absent /\ \A j \in Key \ {k} : t[j] = s[j]
  BY DEF Entries
<1> HIDE DEF t
<1>2. Present(t) = O
  BY <1>1 DEF Present, Others
<1>3. /\ IsFiniteSet(O) /\ \A j \in O : s[j] \in Nat /\ t[j] = s[j]
      /\ IsFiniteSet(Present(s)) /\ \A j \in Present(s) : s[j] \in Nat
      /\ O \subseteq Present(s)
  BY <1>1, CountedSets DEF Others
<1>4. Area(t, O) = Area(s, O) /\ Area(s, O) \subseteq Area(s, Present(s))
  BY <1>3 DEF Area, Column
<1>5. Cardinality(Area(s, O)) <= Cardinality(Area(s, Present(s)))
  BY <1>3, <1>4, AreaFinite, FS_Subset
<1>6. /\ Bytes(s, Present(s)) = Cardinality(Area(s, Present(s))) /\ Bytes(s, Present(s)) \in Nat
      /\ Bytes(t, O) = Cardinality(Area(t, O)) /\ Bytes(t, O) \in Nat
  BY <1>3, BytesIsArea
<1>7. Bytes(s, Present(s)) <= MaxTotal /\ \A j \in Key : s[j] <= MaxValue
  BY ValidIs
<1>8. Bytes(t, Present(t)) <= MaxTotal
  BY <1>2, <1>4, <1>5, <1>6, <1>7, KvAssumption
<1>9. \A j \in Key : t[j] <= MaxValue
  BY <1>1, <1>7, KvAssumption DEF Absent
<1> QED
  BY <1>8, <1>9, ValidIs DEF t

-----------------------------------------------------------------------------
LEMMA WriteKinds ==
    ASSUME NEW w \in Writes
    PROVE  /\ w = Idle <=> w.at = "idle"
           /\ w.at = "open" => w \in Opening
           /\ w.at \in {"write", "rename", "sync", "remove"} => w \in Holding
           /\ w.at \in {"idle", "open", "write", "rename", "sync", "remove"}
           /\ w # Idle => w.new \in File /\ w.old \in Entries /\ w.last \in BOOLEAN
<1>1. CASE w = Idle
  BY <1>1 DEF Idle
<1>2. CASE w \in Opening
  BY <1>2 DEF Opening, Idle
<1>3. CASE w \in Holding
  BY <1>3 DEF Holding, Idle
<1> QED
  BY <1>1, <1>2, <1>3 DEF Writes

(* Goto moves a write that has a name and leaves the rest of it. *)
LEMMA GotoType ==
    ASSUME NEW r \in Runner, NEW at \in {"rename", "sync", "remove"},
           write \in [Runner -> Writes], Goto(r, at),
           write[r].at \in {"write", "rename", "sync"}
    PROVE  /\ write' \in [Runner -> Writes]
           /\ write'[r].at = at /\ write'[r].new = write[r].new /\ write'[r].old = write[r].old
           /\ write'[r].last = write[r].last /\ write'[r].temp = write[r].temp
           /\ write'[r] # Idle /\ write[r] # Idle
           /\ \A q \in Runner \ {r} : write'[q] = write[q]
<1>1. write[r] \in Holding
  BY WriteKinds
<1>2. [write[r] EXCEPT !.at = at] \in Holding
  BY <1>1 DEF Holding
<1>3. write'[r] = [write[r] EXCEPT !.at = at]
      /\ \A q \in Runner \ {r} : write'[q] = write[q]
  BY DEF Goto
<1>4. write' \in [Runner -> Writes]
  BY <1>2 DEF Goto, Writes
<1>5. /\ write'[r].at = at /\ write'[r].new = write[r].new /\ write'[r].old = write[r].old
      /\ write'[r].last = write[r].last /\ write'[r].temp = write[r].temp
  BY <1>1, <1>3 DEF Holding
<1>6. write'[r] # Idle /\ write[r] # Idle
  BY <1>5 DEF Idle
<1> QED
  BY <1>3, <1>4, <1>5, <1>6

(* The parts of the type. *)
MemType ==
    /\ persisted \in BOOLEAN
    /\ up \subseteq Runner
    /\ kv \in [Runner -> Entries] /\ told \in [Runner -> Entries]
    /\ pending \in [Runner -> {<<>>} \cup (Key \X Value)]
WriteOK ==
    /\ write \in [Runner -> Writes]
    /\ \A r \in Runner : write[r] # Idle => r \in up
    /\ begun \in 0..MaxWrites
DiskType ==
    /\ name \in [0..(Temp - 1) -> File \cup {NoFile}]
    /\ data \in [File -> {Partial} \cup [1..1 -> Entries]]
    /\ file \in File \cup {NoFile} /\ safe \in File \cup {NoFile}
    /\ acked \subseteq File
    /\ moved \in Seq(File)
    /\ crashes \in 0..MaxCrashes /\ litter \in Nat
    /\ dirFailed \in BOOLEAN

LEMMA TypeParts == TypeOK <=> MemType /\ WriteOK /\ DiskType
<1>1. name \in [0..(Temp - 1) -> File \cup {NoFile}] => WriteType = Writes
  BY DEF WriteType, Writes, Opening, Holding
<1> QED
  BY <1>1 DEF TypeOK, MemType, WriteOK, DiskType

LEMMA EmptyType == Empty \in Entries
  BY DEF Empty, Entries

(* What the state file is decoded to. *)
LEMMA LoadedType ==
    ASSUME DiskType, Loaded # Partial
    PROVE  Loaded[1] \in Entries
<1>1. CASE file = NoFile
  BY <1>1, EmptyType DEF Loaded
<1>2. CASE file # NoFile
  <2>1. data[file] \in [1..1 -> Entries]
    BY <1>2 DEF DiskType, Loaded
  <2> QED
    BY <1>2, <2>1 DEF Loaded
<1> QED
  BY <1>1, <1>2

(* Memory that is forgotten is empty. *)
LEMMA ForgetType ==
    ASSUME MemType, NEW rs, Forget(rs)
    PROVE  /\ kv' \in [Runner -> Entries] /\ told' \in [Runner -> Entries]
           /\ pending' \in [Runner -> {<<>>} \cup (Key \X Value)]
  BY EmptyType DEF MemType, Forget

(* A write that begins. *)
LEMMA BegunType ==
    ASSUME MemType, WriteOK, NEW r \in up, begun < MaxWrites, NEW last \in BOOLEAN,
           write' = [write EXCEPT ![r] = Begun(r, last)], begun' = begun + 1, up' = up
    PROVE  WriteOK' /\ Begun(r, last) \in Opening
<1>1. begun + 1 \in File /\ begun + 1 \in 0..MaxWrites
  BY KvAssumption DEF WriteOK, File
<1>2. Begun(r, last) \in Opening
  BY <1>1 DEF Begun, Opening, MemType
<1> QED
  BY <1>1, <1>2 DEF WriteOK, Writes, MemType

LEMMA ApplyType ==
    ASSUME MemType, WriteOK, NEW r \in up, begun < MaxWrites, NEW s \in Entries, Apply(r, s)
    PROVE  MemType' /\ WriteOK'
<1>1. MemType'
  BY DEF Apply, MemType
<1>2. CASE persisted
  <2>1. write' = [write EXCEPT ![r] = Begun(r, FALSE)] /\ begun' = begun + 1 /\ up' = up
    BY <1>2 DEF Apply
  <2> QED
    BY <1>1, <2>1, BegunType
<1>3. CASE ~persisted
  <2>1. write' = write /\ begun' = begun /\ up' = up
    BY <1>3 DEF Apply
  <2> QED
    BY <1>1, <2>1 DEF WriteOK
<1> QED
  BY <1>1, <1>2, <1>3

(* A write that is over. *)
LEMMA DoneType ==
    ASSUME MemType, WriteOK, NEW r \in Runner, NEW s \in Entries, write[r] # Idle, Done(r, s),
           UNCHANGED <<persisted, begun>>
    PROVE  MemType' /\ WriteOK'
<1>1. write' = [write EXCEPT ![r] = Idle]
  BY DEF Done
<1>2. CASE write[r].last
  <2>1. up' = up \ {r} /\ Forget({r})
    BY <1>2 DEF Done
  <2>2. MemType'
    BY <2>1, ForgetType DEF MemType
  <2>3. WriteOK'
    BY <1>1, <2>1 DEF WriteOK, Writes
  <2> QED
    BY <2>2, <2>3
<1>3. CASE ~write[r].last
  <2>1. /\ kv' = [kv EXCEPT ![r] = s]
        /\ told' = IF write[r].at = "sync" THEN [told EXCEPT ![r] = s] ELSE told
        /\ UNCHANGED <<up, pending>>
    BY <1>3 DEF Done
  <2>2. MemType'
    BY <2>1 DEF MemType
  <2>3. WriteOK'
    BY <1>1, <2>1 DEF WriteOK, Writes
  <2> QED
    BY <2>2, <2>3
<1> QED
  BY <1>2, <1>3

-----------------------------------------------------------------------------
(* What each step does, as far as the proofs need it: the operations of the
   guest leave the disk alone ... *)
DiskSame == UNCHANGED <<name, data, file, safe, acked, moved, dirFailed>>

LEMMA GuestStepType ==
    ASSUME MemType, WriteOK, DiskType, NEW r \in Runner, Guest(r)
    PROVE  MemType' /\ WriteOK' /\ DiskType'
<1>1. DiskType'
  <2>1. DiskSame /\ UNCHANGED <<crashes, litter>>
    BY DEF Guest, Get, Set, Delete, ReadResponse, Apply, diskVars, DiskSame
  <2> QED
    BY <2>1 DEF DiskType, DiskSame
<1>2. ASSUME NEW k \in Key, Get(r, k)
      PROVE  MemType' /\ WriteOK'
  <2>1. UNCHANGED <<persisted, up, kv, told, write, begun>>
    BY <1>2 DEF Get
  <2>2. kv[r][k] # Absent => kv[r][k] \in Value
    BY <1>2 DEF Get, MemType, Entries
  <2>3. pending' \in [Runner -> {<<>>} \cup (Key \X Value)]
    BY <1>2, <2>2 DEF Get, MemType
  <2> QED
    BY <2>1, <2>3 DEF MemType, WriteOK
<1>3. ASSUME NEW k \in Key, Delete(r, k)
      PROVE  MemType' /\ WriteOK'
  <2>1. r \in up /\ begun < MaxWrites
    BY <1>3 DEF Delete
  <2>2. CASE kv[r][k] # Absent
    <3>1. [kv[r] EXCEPT ![k] = Absent] \in Entries
      BY <2>1 DEF MemType, Entries
    <3>2. Apply(r, [kv[r] EXCEPT ![k] = Absent])
      BY <1>3, <2>2 DEF Delete
    <3> QED
      BY <2>1, <3>1, <3>2, ApplyType
  <2>3. CASE kv[r][k] = Absent
    <3>1. UNCHANGED <<persisted, up, kv, told, write, begun>> /\ pending' = [pending EXCEPT ![r] = <<>>]
      BY <1>3, <2>3 DEF Delete
    <3> QED
      BY <3>1 DEF MemType, WriteOK
  <2> QED
    BY <2>2, <2>3
<1>4. ASSUME NEW k \in Key, NEW v \in Value, Set(r, k, v)
      PROVE  MemType' /\ WriteOK'
  <2>1. r \in up /\ begun < MaxWrites
    BY <1>4 DEF Set
  <2>2. CASE Fits(kv[r], k, v)
    <3>1. [kv[r] EXCEPT ![k] = v] \in Entries
      BY <2>1 DEF MemType, Entries
    <3>2. Apply(r, [kv[r] EXCEPT ![k] = v])
      BY <1>4, <2>2 DEF Set
    <3> QED
      BY <2>1, <3>1, <3>2, ApplyType
  <2>3. CASE ~Fits(kv[r], k, v)
    <3>1. UNCHANGED <<persisted, up, kv, told, write, begun>> /\ pending' = [pending EXCEPT ![r] = <<>>]
      BY <1>4, <2>3 DEF Set
    <3> QED
      BY <3>1 DEF MemType, WriteOK
  <2> QED
    BY <2>2, <2>3
<1>5. CASE ReadResponse(r)
  <2>1. UNCHANGED <<persisted, up, kv, told, write, begun>> /\ pending' = [pending EXCEPT ![r] = <<>>]
    BY <1>5 DEF ReadResponse
  <2>2. MemType'
    BY <2>1 DEF MemType
  <2>3. WriteOK'
    BY <2>1 DEF WriteOK
  <2> QED
    BY <1>1, <2>2, <2>3
<1> QED
  BY <1>1, <1>2, <1>3, <1>4, <1>5 DEF Guest

(* ... those of a save leave what another runner keeps alone ... *)
MemSame == UNCHANGED <<persisted, up, kv, pending, begun, told, crashes, litter>>

LEMMA OpenTempStep ==
    ASSUME MemType, WriteOK, DiskType, NEW r \in Runner, OpenTemp(r)
    PROVE  /\ MemSame
           /\ write[r] \in Opening /\ write'[r] \in Holding
           /\ write'[r].at = "write" /\ write'[r].new = write[r].new
           /\ write'[r].old = write[r].old /\ write'[r].last = write[r].last
           /\ name[write'[r].temp] = NoFile /\ Valid(kv[r])
           /\ name' = [name EXCEPT ![write'[r].temp] = write[r].new]
           /\ \A q \in Runner \ {r} : write'[q] = write[q]
           /\ write' \in [Runner -> Writes]
           /\ UNCHANGED <<data, file, safe, acked, moved, dirFailed>>
<1> DEFINE n == Min(FreeNames)
<1>1. n \in 0..(Temp - 1) /\ name[n] = NoFile
  <2>1. FreeNames \subseteq 0..(Temp - 1) /\ FreeNames # {}
    BY DEF OpenTemp, FreeNames, DiskType
  <2>2. n \in FreeNames
    BY <2>1, LeastOf
  <2> QED
    BY <2>1, <2>2 DEF FreeNames
<1>2. write[r] \in Opening
  BY WriteKinds DEF OpenTemp, WriteOK
<1>3. /\ name' = [name EXCEPT ![n] = New(r)]
      /\ write' = [write EXCEPT ![r] = [at |-> "write", new |-> write[r].new, old |-> write[r].old,
                                        last |-> write[r].last, temp |-> n]]
  BY DEF OpenTemp, WriteOK
<1>4. write'[r] = [at |-> "write", new |-> write[r].new, old |-> write[r].old,
                   last |-> write[r].last, temp |-> n]
  BY <1>3 DEF WriteOK
<1>5. write'[r] \in Holding
  BY <1>1, <1>2, <1>4 DEF Holding, Opening
<1>6. write' \in [Runner -> Writes]
  BY <1>3, <1>4, <1>5 DEF WriteOK, Writes
<1>7. UNCHANGED <<data, file, safe, acked, moved, dirFailed>> /\ MemSame /\ Valid(kv[r])
  BY DEF OpenTemp, memVars, MemSame
<1>8. \A q \in Runner \ {r} : write'[q] = write[q]
  BY <1>3 DEF WriteOK
<1>9. write'[r].temp = n /\ write'[r].at = "write" /\ write'[r].new = write[r].new
      /\ write'[r].old = write[r].old /\ write'[r].last = write[r].last
  BY <1>4
<1>10. name' = [name EXCEPT ![write'[r].temp] = write[r].new] /\ name[write'[r].temp] = NoFile
  BY <1>1, <1>3, <1>9 DEF New
<1> QED
  BY <1>2, <1>5, <1>6, <1>7, <1>8, <1>9, <1>10

LEMMA WriteTempStep ==
    ASSUME MemType, WriteOK, DiskType, NEW r \in Runner, WriteTemp(r)
    PROVE  /\ MemSame
           /\ write[r] \in Holding /\ write[r].at = "write"
           /\ write'[r].at = "rename" /\ write'[r].new = write[r].new
           /\ write'[r].old = write[r].old /\ write'[r].last = write[r].last
           /\ write'[r].temp = write[r].temp /\ write'[r] # Idle
           /\ \A q \in Runner \ {r} : write'[q] = write[q]
           /\ write' \in [Runner -> Writes]
           /\ data' = [data EXCEPT ![write[r].new] = <<kv[r]>>]
           /\ UNCHANGED <<name, file, safe, acked, moved, dirFailed>>
<1>1. write[r].at = "write" /\ Goto(r, "rename")
  BY DEF WriteTemp
<1>2. write[r] \in Holding
  BY <1>1, WriteKinds DEF WriteOK
<1>3. data' = [data EXCEPT ![write[r].new] = <<kv[r]>>]
      /\ UNCHANGED <<name, file, safe, acked, moved, dirFailed>> /\ MemSame
  BY DEF WriteTemp, New, memVars, MemSame
<1> QED
  BY <1>1, <1>2, <1>3, GotoType DEF WriteOK

LEMMA RenameStep ==
    ASSUME MemType, WriteOK, DiskType, NEW r \in Runner, Rename(r)
    PROVE  /\ MemSame
           /\ write[r] \in Holding /\ write[r].at = "rename"
           /\ write'[r].at = "sync" /\ write'[r].new = write[r].new
           /\ write'[r].old = write[r].old /\ write'[r].last = write[r].last
           /\ write'[r].temp = write[r].temp /\ write'[r] # Idle
           /\ \A q \in Runner \ {r} : write'[q] = write[q]
           /\ write' \in [Runner -> Writes]
           /\ name[write[r].temp] # NoFile /\ file' = name[write[r].temp]
           /\ moved' = Append(moved, name[write[r].temp])
           /\ name' = [name EXCEPT ![write[r].temp] = NoFile]
           /\ UNCHANGED <<data, safe, acked, dirFailed>>
<1>1. write[r].at = "rename" /\ Goto(r, "sync")
  BY DEF Rename
<1>2. write[r] \in Holding
  BY <1>1, WriteKinds DEF WriteOK
<1>3. /\ name[write[r].temp] # NoFile /\ file' = name[write[r].temp]
      /\ moved' = Append(moved, name[write[r].temp])
      /\ name' = [name EXCEPT ![write[r].temp] = NoFile]
      /\ UNCHANGED <<data, safe, acked, dirFailed>> /\ MemSame
  BY DEF Rename, memVars, MemSame
<1> QED
  BY <1>1, <1>2, <1>3, GotoType DEF WriteOK

LEMMA FailStep ==
    ASSUME MemType, WriteOK, DiskType, NEW r \in Runner, Fail(r)
    PROVE  /\ MemSame
           /\ write[r] \in Holding /\ write[r].at \in {"write", "rename", "sync"}
           /\ write'[r].at = "remove" /\ write'[r].new = write[r].new
           /\ write'[r].old = write[r].old /\ write'[r].last = write[r].last
           /\ write'[r].temp = write[r].temp /\ write'[r] # Idle
           /\ \A q \in Runner \ {r} : write'[q] = write[q]
           /\ write' \in [Runner -> Writes]
           /\ dirFailed' = (dirFailed \/ write[r].at = "sync")
           /\ UNCHANGED <<name, data, file, safe, acked, moved>>
<1>1. write[r].at \in {"write", "rename", "sync"} /\ Goto(r, "remove")
  BY DEF Fail
<1>2. write[r] \in Holding
  BY <1>1, WriteKinds DEF WriteOK
<1>3. /\ dirFailed' = (dirFailed \/ write[r].at = "sync")
      /\ UNCHANGED <<name, data, file, safe, acked, moved>> /\ MemSame
  BY DEF Fail, memVars, MemSame
<1> QED
  BY <1>1, <1>2, <1>3, GotoType DEF WriteOK

(* ... or end it. *)
LEMMA SyncDirStep ==
    ASSUME MemType, WriteOK, DiskType, NEW r \in Runner, SyncDir(r)
    PROVE  /\ write[r] \in Holding /\ write[r].at = "sync" /\ write[r] # Idle
           /\ safe' = file /\ acked' = acked \cup {write[r].new}
           /\ kv[r] \in Entries /\ Done(r, kv[r])
           /\ UNCHANGED <<name, data, file, moved, dirFailed, persisted, begun, crashes, litter>>
           /\ MemType' /\ WriteOK'
<1>1. write[r].at = "sync" /\ safe' = file /\ acked' = acked \cup {write[r].new} /\ Done(r, kv[r])
      /\ UNCHANGED <<name, data, file, moved, dirFailed, persisted, begun, crashes, litter>>
  BY DEF SyncDir, SafeNow, New
<1>2. write[r] \in Holding /\ write[r] # Idle /\ kv[r] \in Entries
  BY <1>1, WriteKinds DEF WriteOK, MemType, Idle
<1>3. MemType' /\ WriteOK'
  BY <1>1, <1>2, DoneType
<1> QED
  BY <1>1, <1>2, <1>3

LEMMA RemoveTempStep ==
    ASSUME MemType, WriteOK, DiskType, NEW r \in Runner, RemoveTemp(r)
    PROVE  /\ write[r].at \in {"open", "remove"} /\ write[r] # Idle
           /\ write[r].at = "remove" => write[r] \in Holding
           /\ \/ write[r].at = "open" /\ name' = name /\ litter' = litter
              \/ /\ write[r].at = "remove" /\ litter' = litter
                 /\ name' = [name EXCEPT ![write[r].temp] = NoFile]
              \/ write[r].at = "remove" /\ name' = name /\ litter' = litter + 1
           /\ write[r].old \in Entries /\ Done(r, write[r].old)
           /\ UNCHANGED <<data, file, safe, acked, moved, dirFailed, persisted, begun, crashes>>
           /\ MemType' /\ WriteOK'
<1>1. write[r].at \in {"open", "remove"} /\ Done(r, write[r].old)
      /\ UNCHANGED <<data, file, safe, acked, moved, dirFailed, persisted, begun, crashes>>
  BY DEF RemoveTemp, Restored
<1>2. write[r] # Idle /\ write[r].old \in Entries
      /\ (write[r].at = "remove" => write[r] \in Holding)
  BY <1>1, WriteKinds DEF WriteOK
<1>3. \/ write[r].at = "open" /\ name' = name /\ litter' = litter
      \/ /\ write[r].at = "remove" /\ litter' = litter
         /\ name' = [name EXCEPT ![write[r].temp] = NoFile]
      \/ write[r].at = "remove" /\ name' = name /\ litter' = litter + 1
  BY DEF RemoveTemp
<1>4. MemType' /\ WriteOK'
  BY <1>1, <1>2, DoneType
<1> QED
  BY <1>1, <1>2, <1>3, <1>4

-----------------------------------------------------------------------------
LEMMA InitType == Init => TypeOK
<1> SUFFICES ASSUME Init PROVE TypeOK
  OBVIOUS
<1>1. MemType
  BY EmptyType DEF Init, MemType
<1>2. WriteOK
  BY KvAssumption DEF Init, WriteOK, Writes
<1>3. DiskType
  <2>1. moved \in Seq(File)
    BY DEF Init
  <2>4. acked \subseteq File /\ dirFailed \in BOOLEAN
    BY DEF Init
  <2>2. /\ name \in [0..(Temp - 1) -> File \cup {NoFile}]
        /\ data \in [File -> {Partial} \cup [1..1 -> Entries]]
    BY DEF Init
  <2>3. crashes \in 0..MaxCrashes /\ litter \in Nat /\ file \in File \cup {NoFile} /\ safe \in File \cup {NoFile}
    BY KvAssumption DEF Init
  <2> QED
    BY <2>1, <2>2, <2>3, <2>4 DEF DiskType
<1> QED
  BY <1>1, <1>2, <1>3, TypeParts

LEMMA SaveType ==
    ASSUME MemType, WriteOK, DiskType, NEW r \in Runner, Save(r)
    PROVE  MemType' /\ WriteOK' /\ DiskType'
<1>1. ASSUME MemSame, write[r] # Idle, \A q \in Runner \ {r} : write'[q] = write[q],
             write' \in [Runner -> Writes]
      PROVE  MemType' /\ WriteOK'
  BY <1>1 DEF MemSame, MemType, WriteOK
<1>2. CASE OpenTemp(r)
  <2>1. DiskType'
    BY <1>2, OpenTempStep DEF DiskType, Opening, Holding, MemSame
  <2>2. write[r] # Idle
    BY <1>2, OpenTempStep DEF Opening, Idle
  <2> QED
    BY <1>1, <1>2, <2>1, <2>2, OpenTempStep
<1>3. CASE WriteTemp(r)
  <2>1. write[r].new \in File /\ kv[r] \in Entries /\ write[r] # Idle
    BY <1>3, WriteTempStep DEF Holding, MemType, Idle
  <2>2. <<kv[r]>> \in [1..1 -> Entries]
    BY <2>1
  <2>3. DiskType'
    BY <1>3, <2>1, <2>2, WriteTempStep DEF DiskType, MemSame
  <2> QED
    BY <1>1, <1>3, <2>1, <2>3, WriteTempStep
<1>4. CASE Rename(r)
  <2>1. write[r].temp \in 0..(Temp - 1) /\ write[r] # Idle
    BY <1>4, RenameStep DEF Holding, Idle
  <2>2. name[write[r].temp] \in File
    BY <1>4, <2>1, RenameStep DEF DiskType
  <2>3. moved' \in Seq(File)
    BY <1>4, <2>2, RenameStep DEF DiskType
  <2>4. DiskType'
    BY <1>4, <2>1, <2>2, <2>3, RenameStep DEF DiskType, MemSame
  <2> QED
    BY <1>1, <1>4, <2>1, <2>4, RenameStep
<1>5. CASE SyncDir(r)
  <2>1. DiskType'
    BY <1>5, SyncDirStep DEF DiskType, Holding
  <2> QED
    BY <1>5, <2>1, SyncDirStep
<1>6. CASE Fail(r)
  <2>1. write[r] # Idle /\ UNCHANGED <<name, data, file, safe, acked, moved, crashes, litter>>
        /\ dirFailed' = (dirFailed \/ write[r].at = "sync")
    BY <1>6, FailStep DEF MemSame, Idle
  <2>2. dirFailed' \in BOOLEAN
    BY <2>1
  <2>3. DiskType'
    BY <2>1, <2>2 DEF DiskType
  <2> QED
    BY <1>1, <1>6, <2>1, <2>3, FailStep
<1>7. CASE RemoveTemp(r)
  <2>1. DiskType'
    BY <1>7, RemoveTempStep DEF DiskType, Holding
  <2> QED
    BY <1>7, <2>1, RemoveTempStep
<1> QED
  BY <1>2, <1>3, <1>4, <1>5, <1>6, <1>7 DEF Save

LEMMA StartType ==
    ASSUME MemType, WriteOK, DiskType, NEW r \in Runner, Start(r)
    PROVE  MemType' /\ WriteOK' /\ DiskType'
<1>1. Loaded[1] \in Entries
  BY LoadedType DEF Start
<1>2. /\ up' = up \cup {r}
      /\ kv' = [kv EXCEPT ![r] = Loaded[1]] /\ told' = [told EXCEPT ![r] = Loaded[1]]
      /\ pending' = [pending EXCEPT ![r] = <<>>]
      /\ DiskSame /\ UNCHANGED <<persisted, write, begun, crashes, litter>>
  BY DEF Start, diskVars, DiskSame
<1>3. MemType'
  BY <1>1, <1>2 DEF MemType
<1>4. WriteOK'
  BY <1>2 DEF WriteOK
<1>5. DiskType'
  BY <1>2 DEF DiskSame, DiskType
<1> QED
  BY <1>3, <1>4, <1>5

LEMMA FinishType ==
    ASSUME MemType, WriteOK, DiskType, NEW r \in Runner, Finish(r)
    PROVE  MemType' /\ WriteOK' /\ DiskType'
<1>1. DiskSame /\ UNCHANGED <<persisted, crashes, litter>> /\ r \in up /\ write[r] = Idle
  BY DEF Finish, diskVars, DiskSame
<1>2. DiskType'
  BY <1>1 DEF DiskSame, DiskType
<1>3. CASE persisted /\ begun < MaxWrites
  <2>1. write' = [write EXCEPT ![r] = Begun(r, TRUE)] /\ begun' = begun + 1
        /\ UNCHANGED <<up, kv, told, pending>>
    BY <1>3 DEF Finish
  <2>2. WriteOK'
    BY <1>1, <1>3, <2>1, BegunType
  <2>3. MemType'
    BY <1>1, <2>1 DEF MemType
  <2> QED
    BY <1>2, <2>2, <2>3
<1>4. CASE ~(persisted /\ begun < MaxWrites)
  <2>1. up' = up \ {r} /\ Forget({r}) /\ UNCHANGED <<write, begun>>
    BY <1>4 DEF Finish
  <2>2. MemType'
    BY <1>1, <2>1, ForgetType DEF MemType
  <2>3. WriteOK'
    BY <1>1, <2>1 DEF WriteOK
  <2> QED
    BY <1>2, <2>2, <2>3
<1> QED
  BY <1>3, <1>4

LEMMA CrashType ==
    ASSUME MemType, WriteOK, DiskType, Crash
    PROVE  MemType' /\ WriteOK' /\ DiskType'
<1>1. MemType'
  BY ForgetType DEF MemType, Crash
<1>2. WriteOK'
  BY DEF WriteOK, Crash, Writes
<1>3. DiskType'
  BY KvAssumption DEF DiskType, Crash
<1> QED
  BY <1>1, <1>2, <1>3

LEMMA TypeStep == TypeOK /\ [Next]_vars => TypeOK'
<1> SUFFICES ASSUME MemType, WriteOK, DiskType, [Next]_vars
             PROVE  MemType' /\ WriteOK' /\ DiskType'
  <2>1. TypeOK' <=> MemType' /\ WriteOK' /\ DiskType'
    <3>1. (name \in [0..(Temp - 1) -> File \cup {NoFile}] => WriteType = Writes)'
      BY DEF WriteType, Writes, Opening, Holding
    <3> QED
      BY <3>1 DEF TypeOK, MemType, WriteOK, DiskType
  <2> QED
    BY <2>1, TypeParts
<1>1. CASE Crash
  BY <1>1, CrashType
<1>2. ASSUME NEW r \in Runner, Start(r) \/ Guest(r) \/ Save(r) \/ Finish(r)
      PROVE  MemType' /\ WriteOK' /\ DiskType'
  BY <1>2, StartType, GuestStepType, SaveType, FinishType
<1>3. CASE UNCHANGED vars
  BY <1>3 DEF vars, MemType, WriteOK, DiskType
<1> QED
  BY <1>1, <1>2, <1>3 DEF Next

(* Every variable stays in its type, and only a runner that is up writes. *)
THEOREM TypeCorrect == Spec => []TypeOK
  BY InitType, TypeStep, PTL DEF Spec

-----------------------------------------------------------------------------
(* What a step leaves alone of a runner keeps what holds of it. *)
Untouched(q) ==
    /\ kv'[q] = kv[q] /\ told'[q] = told[q] /\ pending'[q] = pending[q] /\ write'[q] = write[q]
    /\ q \in up' <=> q \in up

LEMMA UntouchedKept ==
    ASSUME NEW q, Untouched(q), LimitOf(q), GuestOf(q)
    PROVE  LimitOf(q)' /\ GuestOf(q)'
  BY DEF Untouched, LimitOf, GuestOf

(* A runner that is gone holds nothing. *)
LEMMA ForgottenKept ==
    ASSUME NEW q \in Runner, NEW rs, q \in rs, Forget(rs), write'[q] = Idle, q \notin up'
    PROVE  LimitOf(q)' /\ GuestOf(q)'
<1>1. kv'[q] = Empty
  BY DEF Forget
<1> QED
  BY <1>1, EmptyValid DEF LimitOf, GuestOf

LEMMA ApplyKept ==
    ASSUME TypeOK, NEW r \in Runner, r \in up, write[r] = Idle, LimitOf(r), GuestOf(r),
           NEW s \in Entries, Valid(s), Apply(r, s)
    PROVE  LimitOf(r)' /\ GuestOf(r)'
<1>1. /\ kv'[r] = s /\ pending'[r] = <<>> /\ up' = up
  BY TypeParts DEF Apply, MemType
<1>2. CASE persisted
  <2>1. write' = [write EXCEPT ![r] = Begun(r, FALSE)] /\ told' = told
    BY <1>2 DEF Apply
  <2>2. write'[r] = Begun(r, FALSE)
    BY <2>1, TypeParts DEF WriteOK
  <2>3. write'[r] # Idle /\ write'[r].old = kv[r]
    BY <2>2 DEF Begun, Idle
  <2>4. told[r] = kv[r]
    BY DEF GuestOf
  <2> QED
    BY <1>1, <2>1, <2>3, <2>4 DEF LimitOf, GuestOf
<1>3. CASE ~persisted
  <2>1. told' = [told EXCEPT ![r] = s] /\ write' = write
    BY <1>3 DEF Apply
  <2>2. told'[r] = s
    BY <2>1, TypeParts DEF MemType
  <2> QED
    BY <1>1, <2>1, <2>2 DEF LimitOf, GuestOf
<1> QED
  BY <1>2, <1>3

LEMMA GuestKept ==
    ASSUME TypeOK, NEW r \in Runner, Guest(r), LimitOf(r), GuestOf(r)
    PROVE  LimitOf(r)' /\ GuestOf(r)'
<1>1. MemType /\ WriteOK /\ DiskType
  BY TypeParts
<1>2. r \in up /\ write[r] = Idle /\ Valid(kv[r]) /\ kv[r] \in Entries /\ kv[r] = told[r]
  BY <1>1 DEF Guest, Get, Set, Delete, ReadResponse, LimitOf, GuestOf, MemType
<1>3. ASSUME UNCHANGED <<up, kv, told, write>>, pending'[r] = <<>>
      PROVE  LimitOf(r)' /\ GuestOf(r)'
  BY <1>2, <1>3 DEF LimitOf, GuestOf
<1>4. ASSUME NEW k \in Key, Get(r, k)
      PROVE  LimitOf(r)' /\ GuestOf(r)'
  <2>1. UNCHANGED <<up, kv, told, write>>
        /\ pending'[r] = IF kv[r][k] = Absent THEN <<>> ELSE <<k, kv[r][k]>>
    BY <1>1, <1>4 DEF Get, MemType
  <2>2. pending'[r] # <<>> => kv'[r][pending'[r][1]] = pending'[r][2]
    BY <2>1
  <2> QED
    BY <1>2, <2>1, <2>2 DEF LimitOf, GuestOf
<1>5. ASSUME NEW k \in Key, Delete(r, k)
      PROVE  LimitOf(r)' /\ GuestOf(r)'
  <2>1. CASE kv[r][k] # Absent
    <3>1. [kv[r] EXCEPT ![k] = Absent] \in Entries
      BY <1>2 DEF Entries
    <3>2. Apply(r, [kv[r] EXCEPT ![k] = Absent])
      BY <1>5, <2>1 DEF Delete
    <3> QED
      BY <1>2, <3>1, <3>2, ValidDelete, ApplyKept
  <2>2. CASE kv[r][k] = Absent
    <3>1. UNCHANGED <<up, kv, told, write>> /\ pending'[r] = <<>>
      BY <1>1, <1>5, <2>2 DEF Delete, MemType
    <3> QED
      BY <1>3, <3>1
  <2> QED
    BY <2>1, <2>2
<1>6. ASSUME NEW k \in Key, NEW v \in Value, Set(r, k, v)
      PROVE  LimitOf(r)' /\ GuestOf(r)'
  <2>1. CASE Fits(kv[r], k, v)
    <3>1. [kv[r] EXCEPT ![k] = v] \in Entries
      BY <1>2 DEF Entries
    <3>2. Apply(r, [kv[r] EXCEPT ![k] = v])
      BY <1>6, <2>1 DEF Set
    <3>3. Valid([kv[r] EXCEPT ![k] = v])
      BY <1>2, <2>1, ValidSet
    <3> QED
      BY <1>2, <3>1, <3>2, <3>3, ApplyKept
  <2>2. CASE ~Fits(kv[r], k, v)
    <3>1. UNCHANGED <<up, kv, told, write>> /\ pending'[r] = <<>>
      BY <1>1, <1>6, <2>2 DEF Set, MemType
    <3> QED
      BY <1>3, <3>1
  <2> QED
    BY <2>1, <2>2
<1>7. CASE ReadResponse(r)
  <2>1. UNCHANGED <<up, kv, told, write>> /\ pending'[r] = <<>>
    BY <1>1, <1>7 DEF ReadResponse, MemType
  <2> QED
    BY <1>3, <2>1
<1> QED
  BY <1>4, <1>5, <1>6, <1>7 DEF Guest

(* A guest's operation and the end of a write concern one runner only. *)
LEMMA GuestOthers ==
    ASSUME TypeOK, NEW r \in Runner, Guest(r)
    PROVE  /\ \A q \in Runner \ {r} : Untouched(q)
           /\ data' = data
<1>1. data' = data /\ up' = up
  BY DEF Guest, Get, Set, Delete, ReadResponse, Apply, diskVars
<1>2. \A q \in Runner \ {r} : /\ kv'[q] = kv[q] /\ told'[q] = told[q]
                              /\ pending'[q] = pending[q] /\ write'[q] = write[q]
  <2>1. MemType /\ WriteOK
    BY TypeParts
  <2> QED
    BY <2>1 DEF Guest, Get, Set, Delete, ReadResponse, Apply, MemType, WriteOK
<1> QED
  BY <1>1, <1>2 DEF Untouched

LEMMA DoneOthers ==
    ASSUME TypeOK, NEW r \in Runner, NEW s, Done(r, s)
    PROVE  \A q \in Runner \ {r} : Untouched(q)
<1>1. MemType /\ WriteOK
  BY TypeParts
<1>2. CASE write[r].last
  BY <1>1, <1>2 DEF Done, Forget, MemType, WriteOK, Untouched
<1>3. CASE ~write[r].last
  BY <1>1, <1>3 DEF Done, MemType, WriteOK, Untouched
<1> QED
  BY <1>2, <1>3

LEMMA DoneKept ==
    ASSUME TypeOK, NEW r \in Runner, LimitOf(r), GuestOf(r), write[r] # Idle,
           NEW s, Valid(s), write[r].at # "sync" => s = write[r].old, Done(r, s)
    PROVE  LimitOf(r)' /\ GuestOf(r)'
<1>1. MemType /\ WriteOK
  BY TypeParts
<1>2. write'[r] = Idle
  BY <1>1 DEF Done, WriteOK
<1>3. CASE write[r].last
  BY <1>2, <1>3, ForgottenKept DEF Done
<1>4. CASE ~write[r].last
  <2>1. /\ kv' = [kv EXCEPT ![r] = s]
        /\ told' = IF write[r].at = "sync" THEN [told EXCEPT ![r] = s] ELSE told
        /\ UNCHANGED <<up, pending>>
    BY <1>4 DEF Done
  <2>2. kv'[r] = s /\ told'[r] = s /\ pending'[r] = <<>>
    BY <1>1, <1>4, <2>1 DEF GuestOf, MemType
  <2> QED
    BY <1>2, <2>2 DEF LimitOf, GuestOf
<1> QED
  BY <1>3, <1>4

(* A step inside a write leaves what is known of its runner. *)
LEMMA WithinKept ==
    ASSUME TypeOK, NEW r \in Runner, \A q \in Runner : LimitOf(q) /\ GuestOf(q), MemSame,
           write[r] # Idle, write'[r] # Idle,
           write'[r].old = write[r].old, write'[r].last = write[r].last,
           \A q \in Runner \ {r} : write'[q] = write[q]
    PROVE  \A q \in Runner : LimitOf(q)' /\ GuestOf(q)'
<1>1. ASSUME NEW q \in Runner, q # r
      PROVE  LimitOf(q)' /\ GuestOf(q)'
  BY <1>1, UntouchedKept DEF MemSame, Untouched
<1>2. LimitOf(r)' /\ GuestOf(r)'
  BY DEF LimitOf, GuestOf, MemSame
<1> QED
  BY <1>1, <1>2

LEMMA MemInit == Init => MemInv
<1> SUFFICES ASSUME Init PROVE MemInv
  OBVIOUS
<1>1. ASSUME NEW r \in Runner
      PROVE  LimitOf(r) /\ GuestOf(r)
  BY EmptyValid DEF Init, LimitOf, GuestOf
<1>2. \A f \in File : data[f] = Partial
  BY DEF Init
<1> QED
  BY <1>1, <1>2 DEF MemInv

LEMMA MemSave ==
    ASSUME TypeOK, MemInv, NEW r \in Runner, Save(r)
    PROVE  MemInv'
<1> USE TypeParts
<1>1. MemType /\ WriteOK /\ DiskType /\ \A q \in Runner : LimitOf(q) /\ GuestOf(q)
  BY DEF MemInv
<1>2. ASSUME data' = data, \A q \in Runner : LimitOf(q)' /\ GuestOf(q)'
      PROVE  MemInv'
  BY <1>2 DEF MemInv
<1>3. ASSUME data' = data, \A q \in Runner \ {r} : Untouched(q), LimitOf(r)' /\ GuestOf(r)'
      PROVE  MemInv'
  BY <1>1, <1>2, <1>3, UntouchedKept
<1>4. CASE OpenTemp(r)
  BY <1>1, <1>2, <1>4, OpenTempStep, WithinKept DEF Opening, Holding, Idle
<1>5. CASE WriteTemp(r)
  <2>1. \A q \in Runner : LimitOf(q)' /\ GuestOf(q)'
    BY <1>1, <1>5, WriteTempStep, WithinKept DEF Holding, Idle
  <2>2. ASSUME NEW f \in File, data'[f] # Partial
        PROVE  Valid(data'[f][1])
    <3>1. data' = [data EXCEPT ![write[r].new] = <<kv[r]>>]
      BY <1>1, <1>5, WriteTempStep
    <3>2. CASE f = write[r].new
      BY <1>1, <3>1, <3>2 DEF DiskType, LimitOf
    <3>3. CASE f # write[r].new
      BY <1>1, <2>2, <3>1, <3>3 DEF DiskType, MemInv
    <3> QED
      BY <3>2, <3>3
  <2> QED
    BY <2>1, <2>2 DEF MemInv
<1>6. CASE Rename(r)
  BY <1>1, <1>2, <1>6, RenameStep, WithinKept DEF Holding, Idle
<1>7. CASE SyncDir(r)
  <2>1. Done(r, kv[r]) /\ write[r] # Idle /\ write[r].at = "sync" /\ data' = data
    BY <1>1, <1>7, SyncDirStep
  <2>2. Valid(kv[r])
    BY <1>1 DEF LimitOf
  <2>3. LimitOf(r)' /\ GuestOf(r)'
    BY <1>1, <2>1, <2>2, DoneKept
  <2> QED
    BY <1>3, <2>1, <2>3, DoneOthers
<1>8. CASE Fail(r)
  BY <1>1, <1>2, <1>8, FailStep, WithinKept DEF Holding, Idle
<1>9. CASE RemoveTemp(r)
  <2>1. Done(r, write[r].old) /\ write[r] # Idle /\ data' = data
    BY <1>1, <1>9, RemoveTempStep
  <2>2. Valid(write[r].old)
    BY <1>1, <2>1 DEF LimitOf
  <2>3. LimitOf(r)' /\ GuestOf(r)'
    BY <1>1, <2>1, <2>2, DoneKept
  <2> QED
    BY <1>3, <2>1, <2>3, DoneOthers
<1> QED
  BY <1>4, <1>5, <1>6, <1>7, <1>8, <1>9 DEF Save

LEMMA MemStart ==
    ASSUME TypeOK, MemInv, NEW r \in Runner, Start(r)
    PROVE  MemInv'
<1>1. MemType /\ WriteOK
  BY TypeParts
<1>2. /\ up' = up \cup {r} /\ r \notin up
      /\ kv' = [kv EXCEPT ![r] = Loaded[1]] /\ told' = [told EXCEPT ![r] = Loaded[1]]
      /\ pending' = [pending EXCEPT ![r] = <<>>]
      /\ UNCHANGED <<write, data>> /\ Valid(Loaded[1])
  BY DEF Start, diskVars
<1>3. ASSUME NEW q \in Runner, q # r
      PROVE  LimitOf(q)' /\ GuestOf(q)'
  BY <1>1, <1>2, <1>3, UntouchedKept DEF Untouched, MemInv, MemType
<1>4. write[r] = Idle
  BY <1>1, <1>2 DEF WriteOK
<1>5. LimitOf(r)' /\ GuestOf(r)'
  BY <1>1, <1>2, <1>4 DEF LimitOf, GuestOf, MemType
<1> QED
  BY <1>2, <1>3, <1>5 DEF MemInv

LEMMA MemFinish ==
    ASSUME TypeOK, MemInv, NEW r \in Runner, Finish(r)
    PROVE  MemInv'
<1>1. MemType /\ WriteOK
  BY TypeParts
<1>2. r \in up /\ write[r] = Idle /\ data' = data
  BY DEF Finish, diskVars
<1>3. CASE persisted /\ begun < MaxWrites
  <2>1. write' = [write EXCEPT ![r] = Begun(r, TRUE)] /\ UNCHANGED <<up, kv, told, pending>>
    BY <1>3 DEF Finish
  <2>2. write'[r] = Begun(r, TRUE)
    BY <1>1, <2>1 DEF WriteOK
  <2>3. write'[r].old = kv[r] /\ write'[r].last /\ write'[r] # Idle
    BY <2>2 DEF Begun, Idle
  <2>4. LimitOf(r)' /\ GuestOf(r)'
    BY <1>2, <2>1, <2>3 DEF MemInv, LimitOf, GuestOf
  <2>5. ASSUME NEW q \in Runner, q # r
        PROVE  LimitOf(q)' /\ GuestOf(q)'
    BY <1>1, <2>1, <2>5, UntouchedKept DEF Untouched, MemInv, WriteOK
  <2> QED
    BY <1>2, <2>4, <2>5 DEF MemInv
<1>4. CASE ~(persisted /\ begun < MaxWrites)
  <2>1. up' = up \ {r} /\ Forget({r}) /\ write' = write
    BY <1>4 DEF Finish
  <2>2. LimitOf(r)' /\ GuestOf(r)'
    BY <1>2, <2>1, ForgottenKept
  <2>3. ASSUME NEW q \in Runner, q # r
        PROVE  LimitOf(q)' /\ GuestOf(q)'
    BY <1>1, <2>1, <2>3, UntouchedKept DEF Untouched, MemInv, Forget
  <2> QED
    BY <1>2, <2>2, <2>3 DEF MemInv
<1> QED
  BY <1>3, <1>4

LEMMA MemStep == TypeOK /\ MemInv /\ [Next]_vars => MemInv'
<1> SUFFICES ASSUME TypeOK, MemInv, [Next]_vars PROVE MemInv'
  OBVIOUS
<1>1. CASE Crash
  <2>1. data' = data
    BY <1>1 DEF Crash
  <2>2. ASSUME NEW q \in Runner
        PROVE  LimitOf(q)' /\ GuestOf(q)'
    BY <1>1, ForgottenKept DEF Crash
  <2> QED
    BY <2>1, <2>2 DEF MemInv
<1>2. ASSUME NEW r \in Runner, Guest(r)
      PROVE  MemInv'
  BY <1>2, GuestKept, GuestOthers, UntouchedKept DEF MemInv
<1>3. ASSUME NEW r \in Runner, Start(r) \/ Save(r) \/ Finish(r)
      PROVE  MemInv'
  BY <1>3, MemStart, MemSave, MemFinish
<1>4. CASE UNCHANGED vars
  BY <1>4, UntouchedKept DEF vars, MemInv, Untouched
<1> QED
  BY <1>1, <1>2, <1>3, <1>4 DEF Next

LEMMA MemAlways == Spec => [](TypeOK /\ MemInv)
  BY InitType, TypeStep, MemInit, MemStep, PTL DEF Spec

(* set_value and validate_state: no sequence of replacements, deletions, failed
   saves and restarts brings a store or a file over the limits. *)
THEOREM LimitsKept == Spec => []WithinLimits
<1>1. MemInv => WithinLimits
  BY DEF MemInv, LimitOf, WithinLimits
<1> QED
  BY <1>1, MemAlways, PTL

(* set_value, delete_value and restore_value: between two calls the store holds
   what the calls that succeeded made of it, and a value that waits for the
   guest is still the value of its key. *)
THEOREM GuestTold == Spec => []GuestIsTold
<1>1. TypeOK /\ MemInv => GuestIsTold
  BY TypeParts DEF MemInv, GuestOf, GuestIsTold, MemType
<1> QED
  BY <1>1, MemAlways, PTL

-----------------------------------------------------------------------------
(* The disk.  Files are numbered as their writes begin; one writer holds a
   name until its file is renamed or removed, and a file is renamed at most
   once, when it is complete. *)
Busy(r) == write[r].at # "idle"
Holds(r) == write[r].at \in {"write", "rename", "remove"}
Unmoved(r) == write[r].at \in {"open", "write", "rename", "remove"}
Moved == Range(moved)

NumberInv ==
    /\ \A r \in Runner : Busy(r) => write[r].new <= begun
    /\ \A r, q \in Runner : Busy(r) /\ Busy(q) /\ write[r].new = write[q].new => r = q
    /\ \A n \in DOMAIN name : name[n] <= begun
    /\ \A f \in Moved : f <= begun

NameInv ==
    /\ \A r \in Runner : Holds(r) => name[write[r].temp] = write[r].new
    /\ \A r \in Runner : Busy(r) /\ ~Holds(r) => \A n \in DOMAIN name : name[n] # write[r].new
    /\ \A m, n \in DOMAIN name : name[m] # NoFile /\ name[m] = name[n] => m = n

MovedInv ==
    /\ \A i, j \in DOMAIN moved : moved[i] = moved[j] => i = j
    /\ \A r \in Runner : Unmoved(r) => write[r].new \notin Moved
    /\ \A r \in Runner : write[r].at = "sync" => write[r].new \in Moved
    /\ \A n \in DOMAIN name : name[n] \notin Moved
    /\ file \in Moved \cup {NoFile} /\ safe \in Moved \cup {NoFile}
    /\ acked \subseteq Moved

DataInv ==
    /\ \A r \in Runner : write[r].at = "rename" => data[write[r].new] # Partial
    /\ \A f \in Moved : data[f] # Partial

(* The file of a write that waits for the directory is not later than the
   state file, and a file that was reported is not later than the safe one. *)
PosIn(m, f) == IF f = NoFile THEN 0 ELSE CHOOSE i \in 1..Len(m) : m[i] = f
OrderInv ==
    /\ PosIn(moved, safe) <= PosIn(moved, file)
    /\ \A r \in Runner : write[r].at = "sync" => PosIn(moved, write[r].new) <= PosIn(moved, file)
    /\ \A f \in acked : PosIn(moved, f) <= PosIn(moved, safe)

(* A temporary file that no runner will rename or remove was left by a crash or
   could not be removed. *)
Orphan(n) == name[n] # NoFile /\ \A r \in Runner : Holds(r) => write[r].temp # n
Orphans == {n \in DOMAIN name : Orphan(n)}
OrphanInv == Cardinality(Orphans) <= crashes * Cardinality(Runner) + litter

DiskInv == NumberInv /\ NameInv /\ MovedInv /\ DataInv /\ OrderInv /\ OrphanInv

(* Positions in a sequence without repetitions. *)
LEMMA PosIs ==
    ASSUME NEW m \in Seq(File), \A i, j \in DOMAIN m : m[i] = m[j] => i = j, NEW i \in DOMAIN m
    PROVE  PosIn(m, m[i]) = i
<1>1. DOMAIN m = 1..Len(m) /\ m[i] \in File
  OBVIOUS
<1>2. m[i] # NoFile
  BY <1>1, KvAssumption DEF File, NoFile
<1> QED
  BY <1>1, <1>2 DEF PosIn

LEMMA PosAppend ==
    ASSUME NEW m \in Seq(File), \A i, j \in DOMAIN m : m[i] = m[j] => i = j,
           NEW x \in File, x \notin Range(m)
    PROVE  /\ Append(m, x) \in Seq(File)
           /\ Range(Append(m, x)) = Range(m) \cup {x}
           /\ \A i, j \in DOMAIN Append(m, x) : Append(m, x)[i] = Append(m, x)[j] => i = j
           /\ \A f \in Range(m) \cup {NoFile} :
                 PosIn(Append(m, x), f) = PosIn(m, f) /\ PosIn(m, f) <= Len(m)
           /\ PosIn(Append(m, x), x) = Len(m) + 1
<1> DEFINE a == Append(m, x)
<1>1. a \in Seq(File) /\ Len(a) = Len(m) + 1 /\ Len(m) \in Nat
  OBVIOUS
<1>2. \A i \in 1..Len(m) : a[i] = m[i]
  OBVIOUS
<1>3. a[Len(m) + 1] = x
  OBVIOUS
<1>4. DOMAIN a = 1..(Len(m) + 1) /\ DOMAIN m = 1..Len(m)
  BY <1>1
<1> HIDE DEF a
<1>5. Range(a) = Range(m) \cup {x}
  BY <1>1, <1>2, <1>3, <1>4 DEF Range
<1>6. \A i, j \in DOMAIN a : a[i] = a[j] => i = j
  BY <1>1, <1>2, <1>3, <1>4 DEF Range
<1>7. ASSUME NEW f \in Range(m) \cup {NoFile}
      PROVE  PosIn(a, f) = PosIn(m, f) /\ PosIn(m, f) <= Len(m)
  <2>1. CASE f = NoFile
    BY <1>1, <2>1 DEF PosIn
  <2>2. CASE f \in Range(m)
    <3>1. PICK i \in DOMAIN m : m[i] = f
      BY <2>2 DEF Range
    <3>2. i \in DOMAIN a /\ a[i] = f /\ i <= Len(m)
      BY <1>1, <1>2, <1>4, <3>1
    <3> QED
      BY <1>1, <1>6, <3>1, <3>2, PosIs
  <2> QED
    BY <2>1, <2>2
<1>8. PosIn(a, x) = Len(m) + 1
  <2>1. Len(m) + 1 \in DOMAIN a
    BY <1>1, <1>4
  <2> QED
    BY <1>1, <1>3, <1>6, <2>1, PosIs
<1> QED
  BY <1>1, <1>5, <1>6, <1>7, <1>8 DEF a

LEMMA PosType ==
    ASSUME NEW m \in Seq(File), \A i, j \in DOMAIN m : m[i] = m[j] => i = j,
           NEW f \in Range(m) \cup {NoFile}
    PROVE  PosIn(m, f) \in Nat
<1>1. CASE f = NoFile
  BY <1>1 DEF PosIn
<1>2. CASE f \in Range(m)
  <2>1. PICK i \in DOMAIN m : m[i] = f
    BY <1>2 DEF Range
  <2> QED
    BY <2>1, PosIs
<1> QED
  BY <1>1, <1>2

(* The facts about types that the steps need. *)
LEMMA DiskFacts ==
    ASSUME TypeOK
    PROVE  /\ MemType /\ WriteOK /\ DiskType
           /\ begun \in Nat /\ DOMAIN name = 0..(Temp - 1)
           /\ \A n \in DOMAIN name : name[n] \in Nat
           /\ Moved \subseteq File /\ NoFile \notin Moved /\ moved \in Seq(File)
           /\ \A f \in File : f \in Nat /\ f # NoFile
           /\ \A r \in Runner : Busy(r) => write[r].new \in File
           /\ \A r \in Runner : Busy(r) <=> write[r] # Idle
           /\ \A r \in Runner : Holds(r) => write[r].temp \in DOMAIN name
<1>1. MemType /\ WriteOK /\ DiskType
  BY TypeParts
<1>2. \A f \in File : f \in Nat /\ f # NoFile
  BY KvAssumption DEF File, NoFile
<1>3. begun \in Nat /\ DOMAIN name = 0..(Temp - 1) /\ \A n \in DOMAIN name : name[n] \in Nat
  BY <1>1, <1>2, KvAssumption DEF WriteOK, DiskType, NoFile
<1>4. Moved \subseteq File /\ moved \in Seq(File)
  BY <1>1 DEF Moved, Range, DiskType
<1>5. ASSUME NEW r \in Runner
      PROVE  /\ Busy(r) => write[r].new \in File
             /\ Busy(r) <=> write[r] # Idle
             /\ Holds(r) => write[r].temp \in 0..(Temp - 1)
  <2>1. write[r] \in Writes
    BY <1>1 DEF WriteOK
  <2>2. Holds(r) => write[r] \in Holding
    BY <2>1, WriteKinds DEF Holds
  <2> QED
    BY <2>1, <2>2, WriteKinds DEF Busy, Holding
<1> QED
  BY <1>1, <1>2, <1>3, <1>4, <1>5

(* A step that leaves a set of names unclaimed as it was. *)
LEMMA OrphansKept ==
    ASSUME TypeOK, OrphanInv, Orphans' \subseteq Orphans, IsFiniteSet(Orphans), UNCHANGED <<crashes, litter>>
    PROVE  OrphanInv'
<1>1. IsFiniteSet(Orphans') /\ Cardinality(Orphans') <= Cardinality(Orphans)
  BY FS_Subset
<1>2. Cardinality(Orphans') \in Nat /\ Cardinality(Orphans) \in Nat /\ Cardinality(Runner) \in Nat
  BY <1>1, FS_CardinalityType, KvAssumption
<1>3. crashes \in Nat /\ litter \in Nat
  BY KvAssumption DEF TypeOK
<1>4. crashes * Cardinality(Runner) + litter \in Nat
  BY <1>2, <1>3
<1> QED
  BY <1>1, <1>2, <1>4 DEF OrphanInv

LEMMA OrphansFinite ==
    ASSUME TypeOK
    PROVE  IsFiniteSet(Orphans) /\ IsFiniteSet(DOMAIN name)
<1>1. DOMAIN name = 0..(Temp - 1)
  BY DiskFacts
<1>2. IsFiniteSet(0..(Temp - 1))
  BY FS_Interval, KvAssumption
<1>3. Orphans \subseteq DOMAIN name
  BY DEF Orphans
<1> QED
  BY <1>1, <1>2, <1>3, FS_Subset

(* A name whose removal failed is one more. *)
LEMMA OneOrphanMore ==
    ASSUME TypeOK, OrphanInv, NEW n, Orphans' \subseteq Orphans \cup {n},
           litter' = litter + 1, UNCHANGED crashes
    PROVE  OrphanInv'
<1>1. IsFiniteSet(Orphans) /\ Cardinality(Orphans) \in Nat
  BY OrphansFinite, FS_CardinalityType
<1>2. IsFiniteSet(Orphans \cup {n}) /\ Cardinality(Orphans \cup {n}) <= Cardinality(Orphans) + 1
  <2>1. IsFiniteSet(Orphans \cup {n})
        /\ Cardinality(Orphans \cup {n}) \in {Cardinality(Orphans), Cardinality(Orphans) + 1}
    BY <1>1, FS_AddElement
  <2> QED
    BY <1>1, <2>1
<1>3. Cardinality(Orphans') <= Cardinality(Orphans \cup {n})
      /\ Cardinality(Orphans') \in Nat /\ Cardinality(Orphans \cup {n}) \in Nat
  BY <1>2, FS_Subset, FS_CardinalityType
<1>4. crashes * Cardinality(Runner) \in Nat /\ litter \in Nat
  <2>1. crashes \in Nat /\ litter \in Nat /\ Cardinality(Runner) \in Nat
    BY KvAssumption, FS_CardinalityType DEF TypeOK
  <2> QED
    BY <2>1
<1> DEFINE c == crashes * Cardinality(Runner)
<1>5. Cardinality(Orphans) <= c + litter /\ (Cardinality(Orphans') <= c + (litter + 1) => OrphanInv')
  BY DEF OrphanInv
<1> HIDE DEF c
<1>6. c \in Nat
  BY <1>4 DEF c
<1> QED
  BY <1>1, <1>2, <1>3, <1>4, <1>5, <1>6

LEMMA OpenTempDisk ==
    ASSUME TypeOK, DiskInv, NEW r \in Runner, OpenTemp(r)
    PROVE  DiskInv'
<1> DEFINE f == write[r].new
           t == write'[r].temp
<1>1. /\ MemType /\ WriteOK /\ DiskType
      /\ write[r].at = "open" /\ write'[r].at = "write" /\ write'[r].new = f
      /\ t \in DOMAIN name /\ name[t] = NoFile /\ name' = [name EXCEPT ![t] = f]
      /\ \A q \in Runner \ {r} : write'[q] = write[q]
      /\ UNCHANGED <<data, file, safe, acked, moved, begun, crashes, litter>>
  BY DiskFacts, OpenTempStep DEF Opening, Holding, MemSame
<1>2. f \in File /\ f # NoFile /\ f \in Nat /\ f <= begun
  BY <1>1, DiskFacts DEF Busy, DiskInv, NumberInv
<1>3. DOMAIN name' = DOMAIN name /\ name'[t] = f /\ \A n \in DOMAIN name \ {t} : name'[n] = name[n]
  BY <1>1
<1> HIDE DEF f, t
<1>9. \A q \in Runner : /\ write'[q].new = write[q].new
                        /\ Busy(q)' <=> Busy(q)
                        /\ q # r => write'[q] = write[q]
  BY <1>1 DEF Busy, f
<1>4. NumberInv'
  BY <1>1, <1>2, <1>3, <1>9 DEF DiskInv, NumberInv, Moved
<1>5. NameInv'
  <2>1. \A n \in DOMAIN name : name[n] # f
    BY <1>1 DEF DiskInv, NameInv, Busy, Holds, f
  <2>2. \A q \in Runner : Holds(q)' <=> Holds(q) \/ q = r
    BY <1>1 DEF Holds
  <2>3. \A q \in Runner : q # r /\ Holds(q) => write[q].temp # t
    BY <1>1, DiskFacts DEF DiskInv, NameInv, Busy, Holds, NoFile
  <2>4. \A q \in Runner : q # r /\ Busy(q) => write[q].new # f
    BY <1>1 DEF DiskInv, NumberInv, Busy, f
  <2>5. \A q \in Runner : Holds(q)' => name'[write'[q].temp] = write'[q].new
    BY <1>1, <1>3, <1>9, <2>2, <2>3, DiskFacts DEF DiskInv, NameInv, f, t
  <2>6. \A q \in Runner : Busy(q)' /\ ~Holds(q)' => \A n \in DOMAIN name : name'[n] # write'[q].new
    BY <1>1, <1>3, <1>9, <2>2, <2>4 DEF DiskInv, NameInv
  <2>7. \A m, n \in DOMAIN name : name'[m] # NoFile /\ name'[m] = name'[n] => m = n
    BY <1>3, <2>1 DEF DiskInv, NameInv
  <2> QED
    BY <1>3, <2>5, <2>6, <2>7 DEF NameInv
<1>6. MovedInv'
  BY <1>1, <1>2, <1>3 DEF DiskInv, MovedInv, Unmoved, Moved, f
<1>7. DataInv' /\ OrderInv'
  BY <1>1 DEF DiskInv, DataInv, OrderInv, Moved
<1>8. Orphans' \subseteq Orphans
  BY <1>1, <1>3 DEF Orphans, Orphan, Holds, t
<1> QED
  BY <1>1, <1>4, <1>5, <1>6, <1>7, <1>8, OrphansKept, OrphansFinite DEF DiskInv

LEMMA WriteTempDisk ==
    ASSUME TypeOK, DiskInv, NEW r \in Runner, WriteTemp(r)
    PROVE  DiskInv'
<1> DEFINE f == write[r].new
<1>1. /\ MemType /\ WriteOK /\ DiskType
      /\ write[r].at = "write" /\ write'[r].at = "rename" /\ write'[r].new = f
      /\ write'[r].temp = write[r].temp
      /\ \A q \in Runner \ {r} : write'[q] = write[q]
      /\ data' = [data EXCEPT ![f] = <<kv[r]>>]
      /\ UNCHANGED <<name, file, safe, acked, moved, begun, crashes, litter>>
  BY DiskFacts, WriteTempStep DEF MemSame
<1>2. f \in File /\ f \notin Moved
  BY <1>1, DiskFacts DEF Busy, Unmoved, DiskInv, MovedInv
<1>3. data'[f] # Partial /\ \A g \in File \ {f} : data'[g] = data[g]
  BY <1>1, <1>2 DEF DiskType, Partial
<1>4. NumberInv'
  BY <1>1 DEF DiskInv, NumberInv, Busy, Moved
<1>5. NameInv'
  BY <1>1 DEF DiskInv, NameInv, Busy, Holds
<1>6. MovedInv'
  BY <1>1 DEF DiskInv, MovedInv, Unmoved, Moved
<1>7. OrderInv'
  BY <1>1 DEF DiskInv, OrderInv
<1>8. DataInv'
  <2>1. ASSUME NEW q \in Runner, write'[q].at = "rename"
        PROVE  data'[write'[q].new] # Partial
    <3>1. CASE q = r
      BY <1>1, <1>3, <3>1
    <3>2. CASE q # r
      <4>1. write'[q] = write[q] /\ write[q].new \in File /\ write[q].new # f
        BY <1>1, <2>1, <3>2, DiskFacts DEF DiskInv, NumberInv, Busy
      <4> QED
        BY <1>3, <2>1, <4>1 DEF DiskInv, DataInv
    <3> QED
      BY <3>1, <3>2
  <2>2. \A g \in Moved : data'[g] # Partial
    BY <1>2, <1>3, DiskFacts DEF DiskInv, DataInv
  <2> QED
    BY <1>1, <2>1, <2>2 DEF DataInv, Moved
<1>9. Orphans' \subseteq Orphans
  BY <1>1 DEF Orphans, Orphan, Holds
<1> QED
  BY <1>1, <1>4, <1>5, <1>6, <1>7, <1>8, <1>9, OrphansKept, OrphansFinite DEF DiskInv

(* A name that is given up, by a runner that then has none. *)
LEMMA ReleasedName ==
    ASSUME TypeOK, DiskInv, NEW r \in Runner, Holds(r), ~Holds(r)',
           Busy(r)' => write'[r].new = write[r].new,
           \A q \in Runner \ {r} : write'[q] = write[q],
           name' = [name EXCEPT ![write[r].temp] = NoFile], UNCHANGED <<crashes, litter>>
    PROVE  NameInv' /\ OrphanInv'
<1> DEFINE t == write[r].temp
<1>1. t \in DOMAIN name /\ name[t] = write[r].new /\ write[r].new \in File /\ Busy(r)
      /\ \A g \in File : g # NoFile
  BY DiskFacts DEF DiskInv, NameInv, Busy, Holds
<1>2. DOMAIN name' = DOMAIN name /\ name'[t] = NoFile /\ \A n \in DOMAIN name \ {t} : name'[n] = name[n]
  BY <1>1
<1> HIDE DEF t
<1>3. ASSUME NEW q \in Runner, q # r
      PROVE  /\ write'[q] = write[q]
             /\ Holds(q) => write[q].temp \in DOMAIN name /\ write[q].temp # t
             /\ Busy(q) => write[q].new \in File
             /\ Holds(q)' <=> Holds(q)
             /\ Busy(q)' <=> Busy(q)
  <2>1. write'[q] = write[q] /\ (Holds(q)' <=> Holds(q)) /\ (Busy(q)' <=> Busy(q))
    BY <1>3 DEF Holds, Busy
  <2>2. Holds(q) => Busy(q)
    BY DEF Holds, Busy
  <2>3. Busy(q) => write[q].new \in File /\ write[q].new # write[r].new
    BY <1>1, <1>3, DiskFacts DEF DiskInv, NumberInv
  <2>4. Holds(q) => write[q].temp \in DOMAIN name /\ name[write[q].temp] = write[q].new
    BY DiskFacts DEF DiskInv, NameInv
  <2> QED
    BY <1>1, <2>1, <2>2, <2>3, <2>4
<1>4. NameInv'
  <2>1. ASSUME NEW q \in Runner, Holds(q)'
        PROVE  name'[write'[q].temp] = write'[q].new
    BY <1>2, <1>3, <2>1 DEF DiskInv, NameInv
  <2>2. ASSUME NEW q \in Runner, Busy(q)', ~Holds(q)', NEW n \in DOMAIN name
        PROVE  name'[n] # write'[q].new
    <3>1. CASE q = r
      <4>1. write'[r].new = name[t]
        BY <1>1, <2>2, <3>1
      <4>2. n # t => name'[n] = name[n] /\ name[n] # name[t]
        BY <1>1, <1>2 DEF DiskInv, NameInv
      <4>3. name[t] # NoFile
        BY <1>1
      <4> QED
        BY <1>2, <3>1, <4>1, <4>2, <4>3
    <3>2. CASE q # r
      <4>1. write'[q] = write[q] /\ write[q].new \in File /\ name[n] # write[q].new
        BY <1>3, <2>2, <3>2 DEF DiskInv, NameInv
      <4> QED
        BY <1>1, <1>2, <4>1
    <3> QED
      BY <3>1, <3>2
  <2>3. \A m, n \in DOMAIN name : name'[m] # NoFile /\ name'[m] = name'[n] => m = n
    BY <1>2 DEF DiskInv, NameInv
  <2> QED
    BY <1>2, <2>1, <2>2, <2>3 DEF NameInv
<1>5. Orphans' \subseteq Orphans
  <2>1. ASSUME NEW n \in DOMAIN name, Orphan(n)'
        PROVE  Orphan(n)
    <3>1. n # t /\ name[n] # NoFile
      BY <1>2, <2>1 DEF Orphan
    <3>2. \A q \in Runner : Holds(q) => write[q].temp # n
      BY <1>3, <2>1, <3>1 DEF Orphan, t
    <3> QED
      BY <3>1, <3>2 DEF Orphan
  <2> QED
    BY <1>2, <2>1 DEF Orphans
<1> QED
  BY <1>4, <1>5, OrphansKept, OrphansFinite DEF DiskInv

LEMMA RenameDisk ==
    ASSUME TypeOK, DiskInv, NEW r \in Runner, Rename(r)
    PROVE  DiskInv'
<1> DEFINE f == write[r].new
<1>1. /\ MemType /\ WriteOK /\ DiskType
      /\ write[r].at = "rename" /\ write'[r].at = "sync" /\ write'[r].new = f
      /\ \A q \in Runner \ {r} : write'[q] = write[q]
      /\ name' = [name EXCEPT ![write[r].temp] = NoFile]
      /\ file' = name[write[r].temp] /\ moved' = Append(moved, name[write[r].temp])
      /\ UNCHANGED <<data, safe, acked, begun, crashes, litter>>
  BY DiskFacts, RenameStep DEF MemSame
<1>2. /\ f \in File /\ f # NoFile /\ f \in Nat /\ f <= begun /\ f \notin Moved
      /\ name[write[r].temp] = f /\ Holds(r) /\ Busy(r) /\ write[r].temp \in DOMAIN name
  BY <1>1, DiskFacts DEF Busy, Holds, Unmoved, DiskInv, NumberInv, NameInv, MovedInv
<1>3. file' = f /\ moved' = Append(moved, f)
  BY <1>1, <1>2
<1>4. moved \in Seq(File) /\ \A i, j \in DOMAIN moved : moved[i] = moved[j] => i = j
  BY DiskFacts DEF DiskInv, MovedInv
<1>5. /\ Moved' = Moved \cup {f}
      /\ \A i, j \in DOMAIN moved' : moved'[i] = moved'[j] => i = j
      /\ \A g \in Moved \cup {NoFile} :
            PosIn(moved', g) = PosIn(moved, g) /\ PosIn(moved, g) <= Len(moved)
      /\ PosIn(moved', f) = Len(moved) + 1
  BY <1>2, <1>3, <1>4, PosAppend DEF Moved
<1>6. \A n \in DOMAIN name : name'[n] = IF n = write[r].temp THEN NoFile ELSE name[n]
  BY <1>1
<1>7. DOMAIN name' = DOMAIN name
  BY <1>1
<1> HIDE DEF f
<1>8. NumberInv'
  <2>1. \A q \in Runner : write'[q].new = write[q].new /\ (Busy(q)' <=> Busy(q))
    BY <1>1, <1>2 DEF Busy, f
  <2>2. \A n \in DOMAIN name : name'[n] <= begun
    BY <1>6, DiskFacts DEF DiskInv, NumberInv, NoFile
  <2>3. \A g \in Moved' : g <= begun
    BY <1>2, <1>5 DEF DiskInv, NumberInv
  <2> QED
    BY <1>1, <1>7, <2>1, <2>2, <2>3 DEF DiskInv, NumberInv
<1>9. NameInv' /\ OrphanInv'
  BY <1>1, <1>2, ReleasedName DEF Holds, f
<1>10. MovedInv'
  <2>1. ASSUME NEW q \in Runner, Unmoved(q)'
        PROVE  write'[q].new \notin Moved'
    <3>1. q # r /\ write'[q] = write[q]
      BY <1>1, <2>1 DEF Unmoved
    <3>2. write[q].new \notin Moved /\ write[q].new # f
      BY <1>2, <2>1, <3>1 DEF DiskInv, MovedInv, NumberInv, Unmoved, Busy, f
    <3> QED
      BY <1>5, <3>1, <3>2
  <2>2. \A q \in Runner : write'[q].at = "sync" => write'[q].new \in Moved'
    BY <1>1, <1>5 DEF DiskInv, MovedInv
  <2>3. ASSUME NEW n \in DOMAIN name
        PROVE  name'[n] \notin Moved'
    <3>1. CASE n = write[r].temp
      BY <1>2, <1>5, <1>6, <3>1, DiskFacts
    <3>2. CASE n # write[r].temp
      BY <1>2, <1>5, <1>6, <3>2 DEF DiskInv, MovedInv, NameInv
    <3> QED
      BY <3>1, <3>2
  <2>4. file' \in Moved' /\ safe' \in Moved' \cup {NoFile} /\ acked' \subseteq Moved'
    BY <1>1, <1>3, <1>5 DEF DiskInv, MovedInv
  <2> QED
    BY <1>5, <1>7, <2>1, <2>2, <2>3, <2>4 DEF MovedInv
<1>11. DataInv'
  <2>1. \A g \in Moved' : data[g] # Partial
    BY <1>1, <1>5 DEF DiskInv, DataInv, f
  <2>2. \A q \in Runner : write'[q].at = "rename" => data[write'[q].new] # Partial
    BY <1>1 DEF DiskInv, DataInv
  <2> QED
    BY <1>1, <2>1, <2>2 DEF DataInv
<1>12. OrderInv'
  <2>1. Len(moved) \in Nat /\ PosIn(moved', file') = Len(moved) + 1
    BY <1>3, <1>4, <1>5
  <2>2. \A g \in Moved' \cup {NoFile} : PosIn(moved', g) <= Len(moved) + 1
    <3>1. \A g \in Moved \cup {NoFile} : PosIn(moved, g) \in Nat
      BY <1>4, PosType DEF Moved
    <3> QED
      BY <1>5, <2>1, <3>1
  <2>3. PosIn(moved', safe') <= PosIn(moved', file')
    BY <1>10, <2>1, <2>2 DEF MovedInv
  <2>4. \A q \in Runner : write'[q].at = "sync" => PosIn(moved', write'[q].new) <= PosIn(moved', file')
    BY <1>10, <2>1, <2>2 DEF MovedInv
  <2>5. \A g \in acked' : PosIn(moved', g) <= PosIn(moved', safe')
    BY <1>1, <1>5 DEF DiskInv, MovedInv, OrderInv
  <2> QED
    BY <2>3, <2>4, <2>5 DEF OrderInv
<1> QED
  BY <1>8, <1>9, <1>10, <1>11, <1>12 DEF DiskInv

(* The end of a write, as the disk sees it. *)
LEMMA DoneWrite ==
    ASSUME TypeOK, NEW r \in Runner, NEW s, Done(r, s)
    PROVE  /\ write'[r].at = "idle" /\ write'[r] = Idle
           /\ \A q \in Runner \ {r} : write'[q] = write[q]
  BY TypeParts DEF Done, WriteOK, Idle

LEMMA SyncDirDisk ==
    ASSUME TypeOK, DiskInv, NEW r \in Runner, SyncDir(r)
    PROVE  DiskInv'
<1> DEFINE f == write[r].new
<1>1. /\ MemType /\ WriteOK /\ DiskType
      /\ write[r].at = "sync" /\ write'[r].at = "idle"
      /\ \A q \in Runner \ {r} : write'[q] = write[q]
      /\ safe' = file /\ acked' = acked \cup {f}
      /\ UNCHANGED <<name, data, file, moved, begun, crashes, litter>>
  BY DiskFacts, SyncDirStep, DoneWrite
<1>2. f \in Moved
  BY <1>1 DEF DiskInv, MovedInv
<1>3. NumberInv'
  BY <1>1 DEF DiskInv, NumberInv, Busy, Moved
<1>4. NameInv'
  BY <1>1 DEF DiskInv, NameInv, Busy, Holds
<1>5. MovedInv'
  BY <1>1, <1>2 DEF DiskInv, MovedInv, Unmoved, Moved
<1>6. DataInv'
  BY <1>1 DEF DiskInv, DataInv, Moved
<1>7. OrderInv'
  <2>1. \A g \in Moved \cup {NoFile} : PosIn(moved, g) \in Nat
    BY DiskFacts, PosType DEF Moved, DiskInv, MovedInv
  <2>2. file \in Moved \cup {NoFile} /\ safe \in Moved \cup {NoFile} /\ acked \subseteq Moved
    BY DEF DiskInv, MovedInv
  <2>3. PosIn(moved, safe) <= PosIn(moved, file) /\ PosIn(moved, f) <= PosIn(moved, file)
    BY <1>1 DEF DiskInv, OrderInv
  <2>4. ASSUME NEW g \in acked'
        PROVE  PosIn(moved, g) <= PosIn(moved, file)
    <3>1. CASE g = f
      BY <2>3, <3>1
    <3>2. CASE g \in acked
      <4>1. PosIn(moved, g) <= PosIn(moved, safe)
        BY <3>2 DEF DiskInv, OrderInv
      <4>2. PosIn(moved, g) \in Nat /\ PosIn(moved, safe) \in Nat /\ PosIn(moved, file) \in Nat
        BY <2>1, <2>2, <3>2
      <4> QED
        BY <2>3, <4>1, <4>2
    <3> QED
      BY <1>1, <3>1, <3>2
  <2>5. PosIn(moved, file) <= PosIn(moved, file)
    BY <2>1, <2>2
  <2>6. \A q \in Runner : write'[q].at = "sync" => PosIn(moved, write'[q].new) <= PosIn(moved, file)
    BY <1>1 DEF DiskInv, OrderInv
  <2> QED
    BY <1>1, <2>4, <2>5, <2>6 DEF OrderInv
<1>8. Orphans' \subseteq Orphans
  BY <1>1 DEF Orphans, Orphan, Holds
<1> QED
  BY <1>1, <1>3, <1>4, <1>5, <1>6, <1>7, <1>8, OrphansKept, OrphansFinite DEF DiskInv

LEMMA FailDisk ==
    ASSUME TypeOK, DiskInv, NEW r \in Runner, Fail(r), ~dirFailed'
    PROVE  DiskInv'
<1>1. /\ write[r].at \in {"write", "rename"} /\ write'[r].at = "remove"
      /\ write'[r].new = write[r].new /\ write'[r].temp = write[r].temp
      /\ \A q \in Runner \ {r} : write'[q] = write[q]
      /\ UNCHANGED <<name, data, file, safe, acked, moved, begun, crashes, litter>>
  BY DiskFacts, FailStep DEF MemSame
<1>2. NumberInv'
  BY <1>1 DEF DiskInv, NumberInv, Busy, Moved
<1>3. NameInv'
  BY <1>1 DEF DiskInv, NameInv, Busy, Holds
<1>4. MovedInv'
  BY <1>1 DEF DiskInv, MovedInv, Unmoved, Moved
<1>5. DataInv' /\ OrderInv'
  BY <1>1 DEF DiskInv, DataInv, OrderInv, Moved
<1>6. Orphans' \subseteq Orphans
  BY <1>1 DEF Orphans, Orphan, Holds
<1> QED
  BY <1>1, <1>2, <1>3, <1>4, <1>5, <1>6, OrphansKept, OrphansFinite DEF DiskInv

LEMMA RemoveTempDisk ==
    ASSUME TypeOK, DiskInv, NEW r \in Runner, RemoveTemp(r)
    PROVE  DiskInv'
<1>1. /\ write[r].at \in {"open", "remove"} /\ write'[r].at = "idle"
      /\ \A q \in Runner \ {r} : write'[q] = write[q]
      /\ \/ write[r].at = "open" /\ name' = name /\ litter' = litter
         \/ /\ write[r].at = "remove" /\ litter' = litter
            /\ name' = [name EXCEPT ![write[r].temp] = NoFile]
         \/ write[r].at = "remove" /\ name' = name /\ litter' = litter + 1
      /\ UNCHANGED <<data, file, safe, acked, moved, begun, crashes>>
  BY DiskFacts, RemoveTempStep, DoneWrite
<1>2. NameInv' /\ OrphanInv'
  <2>1. CASE /\ write[r].at = "remove" /\ litter' = litter
             /\ name' = [name EXCEPT ![write[r].temp] = NoFile]
    BY <1>1, <2>1, ReleasedName DEF Holds, Busy
  <2>3. CASE write[r].at = "remove" /\ name' = name /\ litter' = litter + 1
    <3>1. NameInv'
      BY <1>1, <2>3 DEF DiskInv, NameInv, Busy, Holds
    <3>2. Orphans' \subseteq Orphans \cup {write[r].temp}
      BY <1>1, <2>3 DEF Orphans, Orphan, Holds
    <3>3. OrphanInv'
      BY <1>1, <2>3, <3>2, OneOrphanMore DEF DiskInv
    <3> QED
      BY <3>1, <3>3
  <2>2. CASE write[r].at = "open" /\ name' = name /\ litter' = litter
    <3>1. NameInv'
      BY <1>1, <2>2 DEF DiskInv, NameInv, Busy, Holds
    <3>2. Orphans' \subseteq Orphans
      BY <1>1, <2>2 DEF Orphans, Orphan, Holds
    <3> QED
      BY <1>1, <2>2, <3>1, <3>2, OrphansKept, OrphansFinite DEF DiskInv
  <2> QED
    BY <1>1, <2>1, <2>2, <2>3
<1>3. DOMAIN name' = DOMAIN name /\ \A n \in DOMAIN name : name'[n] \in {name[n], NoFile}
  BY <1>1
<1>4. NumberInv'
  BY <1>1, <1>3, DiskFacts DEF DiskInv, NumberInv, Busy, Moved, NoFile
<1>5. MovedInv'
  BY <1>1, <1>3, DiskFacts DEF DiskInv, MovedInv, Unmoved, Moved
<1>6. DataInv' /\ OrderInv'
  BY <1>1 DEF DiskInv, DataInv, OrderInv, Moved
<1> QED
  BY <1>2, <1>4, <1>5, <1>6 DEF DiskInv

(* A write that begins takes a number that no file has yet. *)
LEMMA BeginDisk ==
    ASSUME TypeOK, DiskInv, NEW r \in Runner, write[r] = Idle, NEW last,
           write' = [write EXCEPT ![r] = Begun(r, last)], begun' = begun + 1,
           DiskSame, UNCHANGED <<crashes, litter>>
    PROVE  DiskInv'
<1> DEFINE f == begun + 1
<1>1. write'[r] = Begun(r, last) /\ \A q \in Runner \ {r} : write'[q] = write[q]
  BY TypeParts DEF WriteOK
<1>2. write'[r].at = "open" /\ write'[r].new = f
  BY <1>1 DEF Begun
<1>3. UNCHANGED <<name, data, file, safe, acked, moved, crashes, litter>>
  BY DEF DiskSame
<1>4. begun \in Nat /\ f \in Nat /\ (\A n \in DOMAIN name : name[n] \in Nat) /\ Moved \subseteq Nat
  BY DiskFacts
<1>5. (\A n \in DOMAIN name : name[n] # f) /\ f \notin Moved
  BY <1>4 DEF DiskInv, NumberInv
<1>6. \A q \in Runner : q # r /\ Busy(q) => write[q].new \in Nat /\ write[q].new # f /\ write[q].new <= begun
  BY <1>4, DiskFacts DEF DiskInv, NumberInv
<1>7. NumberInv'
  <2>1. \A q \in Runner : Busy(q)' => write'[q].new <= begun'
    BY <1>1, <1>2, <1>4, <1>6 DEF Busy
  <2>2. \A q, p \in Runner : Busy(q)' /\ Busy(p)' /\ write'[q].new = write'[p].new => q = p
    BY <1>1, <1>2, <1>6 DEF Busy, DiskInv, NumberInv
  <2>3. /\ \A n \in DOMAIN name : name[n] <= begun + 1
        /\ \A g \in Moved : g <= begun + 1
    BY <1>4 DEF DiskInv, NumberInv
  <2> QED
    BY <1>3, <2>1, <2>2, <2>3 DEF NumberInv, Moved
<1>8. NameInv'
  BY <1>1, <1>2, <1>3, <1>5 DEF DiskInv, NameInv, Busy, Holds
<1>9. MovedInv'
  BY <1>1, <1>2, <1>3, <1>5 DEF DiskInv, MovedInv, Unmoved, Moved
<1>10. DataInv' /\ OrderInv'
  BY <1>1, <1>2, <1>3 DEF DiskInv, DataInv, OrderInv, Moved
<1>11. Orphans' \subseteq Orphans
  BY <1>1, <1>2, <1>3 DEF Orphans, Orphan, Holds, Idle
<1> QED
  BY <1>3, <1>7, <1>8, <1>9, <1>10, <1>11, OrphansKept, OrphansFinite DEF DiskInv

(* What the disk does not notice. *)
LEMMA SameDisk ==
    ASSUME DiskInv, DiskSame, UNCHANGED <<write, begun, crashes, litter>>
    PROVE  DiskInv'
  BY DEF DiskInv, NumberInv, NameInv, MovedInv, DataInv, OrderInv, OrphanInv, DiskSame,
         Busy, Holds, Unmoved, Moved, Orphans, Orphan

LEMMA GuestDisk ==
    ASSUME TypeOK, DiskInv, NEW r \in Runner, Start(r) \/ Guest(r) \/ Finish(r)
    PROVE  DiskInv'
<1>1. DiskSame /\ UNCHANGED <<crashes, litter>>
  BY DEF Start, Guest, Get, Set, Delete, ReadResponse, Apply, Finish, diskVars, DiskSame
<1>2. \/ UNCHANGED <<write, begun>>
      \/ /\ write[r] = Idle /\ begun' = begun + 1
         /\ \E last \in BOOLEAN : write' = [write EXCEPT ![r] = Begun(r, last)]
  BY DEF Start, Guest, Get, Set, Delete, ReadResponse, Apply, Finish
<1> QED
  BY <1>1, <1>2, SameDisk, BeginDisk

(* A crash leaves at most one name behind for each runner. *)
Holders == {r \in Runner : Holds(r)}
OwnedBy == [r \in Holders |-> write[r].temp]
Owned == {OwnedBy[r] : r \in Holders}

LEMMA OwnedFew ==
    ASSUME TypeOK
    PROVE  /\ IsFiniteSet(Owned) /\ Cardinality(Owned) \in Nat
           /\ IsFiniteSet(Holders) /\ Cardinality(Holders) \in Nat
           /\ Cardinality(Owned) <= Cardinality(Holders)
           /\ Cardinality(Holders) <= Cardinality(Runner)
           /\ {n \in DOMAIN name : name[n] # NoFile} \subseteq Orphans \cup Owned
<1>1. IsFiniteSet(Holders) /\ Cardinality(Holders) <= Cardinality(Runner)
  BY FS_Subset, KvAssumption DEF Holders
<1>2. OwnedBy \in Surjection(Holders, Owned)
  BY DEF Surjection, OwnedBy, Owned
<1>3. IsFiniteSet(Owned) /\ Cardinality(Owned) <= Cardinality(Holders)
  BY <1>1, <1>2, FS_Surjection
<1>4. {n \in DOMAIN name : name[n] # NoFile} \subseteq Orphans \cup Owned
  BY DEF Orphans, Orphan, Owned, OwnedBy, Holders
<1> QED
  BY <1>1, <1>3, <1>4, FS_CardinalityType

LEMMA NamesFew ==
    ASSUME TypeOK, OrphanInv
    PROVE  LET N == {n \in DOMAIN name : name[n] # NoFile}
           IN  /\ IsFiniteSet(N)
               /\ Cardinality(N) \in Nat
               /\ Cardinality(N) <= Cardinality(Holders)
                                        + (crashes * Cardinality(Runner) + litter)
<1> DEFINE N == {n \in DOMAIN name : name[n] # NoFile}
           c == crashes * Cardinality(Runner) + litter
<1>1. IsFiniteSet(Orphans) /\ Cardinality(Orphans) \in Nat
  BY OrphansFinite, FS_CardinalityType
<1>2. IsFiniteSet(Orphans \cup Owned)
      /\ Cardinality(Orphans \cup Owned)
            = Cardinality(Orphans) + Cardinality(Owned) - Cardinality(Orphans \cap Owned)
  BY <1>1, OwnedFew, FS_Union
<1>3. Cardinality(Orphans \cap Owned) \in Nat
  BY <1>1, FS_Intersection, FS_CardinalityType
<1>4. IsFiniteSet(N) /\ Cardinality(N) \in Nat /\ Cardinality(N) <= Cardinality(Orphans \cup Owned)
  BY <1>2, OwnedFew, FS_Subset, FS_CardinalityType
<1>5. Cardinality(Orphans) <= c
  BY DEF OrphanInv
<1>6. c \in Nat
  <2>1. crashes \in Nat /\ litter \in Nat /\ Cardinality(Runner) \in Nat
    BY KvAssumption, FS_CardinalityType DEF TypeOK
  <2> QED
    BY <2>1
<1> HIDE DEF N, c
<1>7. Cardinality(N) <= Cardinality(Holders) + c
  <2>1. Cardinality(Owned) \in Nat /\ Cardinality(Holders) \in Nat /\ Cardinality(Owned) <= Cardinality(Holders)
    BY OwnedFew
  <2>2. Cardinality(Orphans \cup Owned) \in Nat
    BY <1>2, FS_CardinalityType
  <2> QED
    BY <1>1, <1>2, <1>3, <1>4, <1>5, <1>6, <2>1, <2>2
<1> QED
  BY <1>4, <1>7 DEF N, c

LEMMA CrashDisk ==
    ASSUME TypeOK, DiskInv, Crash
    PROVE  DiskInv'
<1>1. /\ \A r \in Runner : write'[r].at = "idle"
      /\ file' \in {file, safe} /\ safe' = file' /\ crashes' = crashes + 1 /\ litter' = litter
      /\ UNCHANGED <<begun, name, data, acked, moved>>
  BY DEF Crash, Idle
<1>2. NumberInv' /\ NameInv' /\ DataInv'
  BY <1>1 DEF DiskInv, NumberInv, NameInv, DataInv, Busy, Holds, Moved
<1>3. MovedInv'
  BY <1>1 DEF DiskInv, MovedInv, Unmoved, Moved
<1>4. OrderInv'
  <2>1. \A g \in Moved \cup {NoFile} : PosIn(moved, g) \in Nat
    BY DiskFacts, PosType DEF Moved, DiskInv, MovedInv
  <2>2. file \in Moved \cup {NoFile} /\ safe \in Moved \cup {NoFile} /\ acked \subseteq Moved
    BY DEF DiskInv, MovedInv
  <2>3. PosIn(moved, safe) <= PosIn(moved, file)
        /\ \A g \in acked : PosIn(moved, g) <= PosIn(moved, safe)
    BY DEF DiskInv, OrderInv
  <2>4. ASSUME NEW g \in acked
        PROVE  PosIn(moved, g) <= PosIn(moved, file')
    <3>1. PosIn(moved, g) \in Nat /\ PosIn(moved, safe) \in Nat /\ PosIn(moved, file) \in Nat
      BY <2>1, <2>2
    <3>2. PosIn(moved, g) <= PosIn(moved, safe) /\ PosIn(moved, g) <= PosIn(moved, file)
      BY <2>3, <3>1
    <3> QED
      BY <1>1, <3>2
  <2>5. PosIn(moved, file') <= PosIn(moved, file')
    BY <1>1, <2>1, <2>2
  <2> QED
    BY <1>1, <2>4, <2>5 DEF OrderInv
<1>5. OrphanInv'
  <2> DEFINE n == Cardinality(Runner)
  <2>1. Orphans' = {m \in DOMAIN name : name[m] # NoFile}
    BY <1>1 DEF Orphans, Orphan, Holds
  <2>2. Cardinality(Orphans') \in Nat
        /\ Cardinality(Orphans') <= Cardinality(Holders) + (crashes * n + litter)
    BY <2>1, NamesFew DEF DiskInv
  <2>3. Cardinality(Holders) \in Nat /\ Cardinality(Holders) <= n /\ n \in Nat
        /\ crashes \in Nat /\ litter \in Nat
    BY OwnedFew, FS_CardinalityType, KvAssumption DEF TypeOK
  <2> HIDE DEF n
  <2>4. crashes * n \in Nat /\ (crashes + 1) * n = crashes * n + n
    BY <2>3
  <2>5. Cardinality(Orphans') <= (crashes + 1) * n + litter
    BY <2>2, <2>3, <2>4
  <2> QED
    BY <1>1, <2>5 DEF OrphanInv, n
<1> QED
  BY <1>2, <1>3, <1>4, <1>5 DEF DiskInv

LEMMA DiskInit == Init => DiskInv
<1> SUFFICES ASSUME Init PROVE DiskInv
  OBVIOUS
<1>1. Moved = {} /\ moved = <<>> /\ \A r \in Runner : write[r].at = "idle"
  BY DEF Init, Moved, Range, Idle
<1>2. NumberInv /\ NameInv
  BY <1>1 DEF Init, NumberInv, NameInv, Busy, Holds, NoFile
<1>3. MovedInv /\ DataInv /\ OrderInv
  BY <1>1 DEF Init, MovedInv, DataInv, OrderInv, Unmoved, PosIn
<1>4. OrphanInv
  <2>1. Orphans = {}
    BY DEF Init, Orphans, Orphan
  <2>2. Cardinality(Runner) \in Nat
    BY FS_CardinalityType, KvAssumption
  <2>3. crashes * Cardinality(Runner) + litter = 0
    BY <2>2 DEF Init
  <2> QED
    BY <2>1, <2>3, FS_EmptySet DEF OrphanInv
<1> QED
  BY <1>2, <1>3, <1>4 DEF DiskInv

LEMMA DiskStep == TypeOK /\ (~dirFailed => DiskInv) /\ [Next]_vars => (~dirFailed => DiskInv)'
<1> SUFFICES ASSUME TypeOK, ~dirFailed => DiskInv, [Next]_vars, ~dirFailed'
             PROVE  DiskInv'
  OBVIOUS
<1>1. CASE Crash
  BY <1>1, CrashDisk DEF Crash
<1>2. ASSUME NEW r \in Runner, Start(r) \/ Guest(r) \/ Finish(r)
      PROVE  DiskInv'
  <2>1. dirFailed' = dirFailed
    BY <1>2 DEF Start, Guest, Get, Set, Delete, ReadResponse, Apply, Finish, diskVars
  <2> QED
    BY <1>2, <2>1, GuestDisk
<1>3. ASSUME NEW r \in Runner, Save(r)
      PROVE  DiskInv'
  <2>1. ~dirFailed
    BY <1>3 DEF Save, OpenTemp, WriteTemp, Rename, SyncDir, Fail, RemoveTemp
  <2> QED
    BY <1>3, <2>1, OpenTempDisk, WriteTempDisk, RenameDisk, SyncDirDisk, FailDisk, RemoveTempDisk
       DEF Save
<1>4. CASE UNCHANGED vars
  BY <1>4, SameDisk DEF vars, DiskSame
<1> QED
  BY <1>1, <1>2, <1>3, <1>4 DEF Next

LEMMA DiskAtomic == TypeOK /\ (~dirFailed => DiskInv) => WritesAreAtomic
<1> SUFFICES ASSUME TypeOK, DiskInv, ~dirFailed
             PROVE  /\ \A f \in {file, safe} : f # NoFile => data[f] # Partial
                    /\ \A f \in acked : Position(f) <= Position(safe)
                    /\ Cardinality({n \in DOMAIN name : name[n] # NoFile})
                          <= Cardinality({r \in Runner : write[r] # Idle})
                                + crashes * Cardinality(Runner) + litter
  BY DEF WritesAreAtomic
<1>1. \A f \in {file, safe} : f # NoFile => data[f] # Partial
  BY DEF DiskInv, MovedInv, DataInv
<1>2. \A f \in acked : Position(f) <= Position(safe)
  BY DEF DiskInv, OrderInv, Position, PosIn
<1>3. Cardinality({n \in DOMAIN name : name[n] # NoFile})
         <= Cardinality({r \in Runner : write[r] # Idle})
               + crashes * Cardinality(Runner) + litter
  <2> DEFINE B == {r \in Runner : write[r] # Idle}
             N == {n \in DOMAIN name : name[n] # NoFile}
             c == crashes * Cardinality(Runner)
  <2>1. Cardinality(N) \in Nat /\ Cardinality(N) <= Cardinality(Holders) + (c + litter)
    BY NamesFew DEF DiskInv
  <2>2. Holders \subseteq B
    BY DEF Holders, Holds, Idle
  <2>3. IsFiniteSet(B) /\ Cardinality(B) \in Nat
    BY FS_Subset, FS_CardinalityType, KvAssumption
  <2>4. Cardinality(Holders) \in Nat /\ Cardinality(Holders) <= Cardinality(B)
    BY <2>2, <2>3, FS_Subset, OwnedFew
  <2>5. crashes \in Nat /\ litter \in Nat /\ Cardinality(Runner) \in Nat
    BY FS_CardinalityType, KvAssumption DEF TypeOK
  <2>6. c \in Nat
    BY <2>5
  <2> HIDE DEF N, B, c
  <2>7. Cardinality(N) <= Cardinality(B) + c + litter
    BY <2>1, <2>3, <2>4, <2>5, <2>6
  <2> QED
    BY <2>7 DEF N, B, c
<1> QED
  BY <1>1, <1>2, <1>3

(* atomic_write: the state file is always one that was written completely, also
   after a loss of power, and a write that was reported a success is in it or
   was replaced by a later one, as long as no directory failed to sync; and the
   temporary names in use are those of writes in progress, of crashes and of
   removals that failed. *)
THEOREM AtomicWrites == Spec => []WritesAreAtomic
<1>1. Init => (~dirFailed => DiskInv)
  BY DiskInit
<1>2. Spec => [](TypeOK /\ (~dirFailed => DiskInv))
  BY <1>1, InitType, TypeStep, DiskStep, PTL DEF Spec
<1> QED
  BY <1>2, DiskAtomic, PTL
=============================================================================

------------------------- MODULE StoreReadersProofs -------------------------
(***************************************************************************)
(* What readers of the store are promised, proved for every set of         *)
(* transactions and lots, every page size, any number of kills and every   *)
(* failing call except a power cut.                                        *)
(***************************************************************************)
EXTENDS StoreReaders, StoreProofs, FiniteSetTheorems, WellFoundedInduction

----------------------------------------------------------------------------
(* Pages.                                                                  *)

LEMMA LeastNumber ==
  ASSUME NEW S \in SUBSET Nat, S # {}
  PROVE  \E x \in S : \A y \in S : x <= y
<1>1. PICK x \in S : \A y \in S : ~(<<y, x>> \in OpToRel(<, Nat))
  BY WFMin, NatLessThanWellFounded
<1>2. \A y \in S : y < x => <<y, x>> \in OpToRel(<, Nat)
  BY DEF OpToRel
<1>3. \A y \in S : ~(y < x)
  BY <1>1, <1>2, Zenon
<1>4. \A y \in S : x <= y
  BY <1>3
<1> QED
  BY <1>4, Zenon

\* The entries of a page up to one of them.
UpTo(S, k) == {d \in S : d.key <= k}

LEMMA UpToCounts ==
  ASSUME NEW S, IsFiniteSet(S), \A e \in S : e.key \in Nat,
         NEW d \in S, NEW e \in S, d.key <= e.key
  PROVE  /\ Cardinality(UpTo(S, d.key)) \in Nat /\ Cardinality(UpTo(S, e.key)) \in Nat
         /\ Cardinality(UpTo(S, d.key)) <= Cardinality(UpTo(S, e.key))
         /\ d.key < e.key => Cardinality(UpTo(S, d.key)) < Cardinality(UpTo(S, e.key))
<1>1. UpTo(S, d.key) \in SUBSET UpTo(S, e.key) /\ UpTo(S, e.key) \in SUBSET S
  BY DEF UpTo
<1>2. IsFiniteSet(UpTo(S, d.key)) /\ IsFiniteSet(UpTo(S, e.key))
  BY <1>1, FS_Subset
<1>3. Cardinality(UpTo(S, d.key)) \in Nat /\ Cardinality(UpTo(S, e.key)) \in Nat
  BY <1>2, FS_CardinalityType
<1>4. /\ Cardinality(UpTo(S, d.key)) <= Cardinality(UpTo(S, e.key))
      /\ Cardinality(UpTo(S, e.key)) = Cardinality(UpTo(S, d.key))
           => UpTo(S, e.key) = UpTo(S, d.key)
  BY <1>1, <1>2, FS_Subset
<1>5. d.key < e.key => e \in UpTo(S, e.key) /\ e \notin UpTo(S, d.key)
  BY DEF UpTo
<1> QED
  BY <1>3, <1>4, <1>5

\* The least of the entries is the only one up to itself.
LEMMA FirstEntry ==
  ASSUME NEW S, S # {}, \A e \in S : e.key \in Nat,
         \A d, e \in S : d.key = e.key => d = e
  PROVE  \E e \in S : Cardinality(UpTo(S, e.key)) = 1
<1>1. Keys(S) \in SUBSET Nat /\ Keys(S) # {}
  BY DEF Keys
<1>2. PICK k \in Keys(S) : \A l \in Keys(S) : k <= l
  BY <1>1, LeastNumber
<1>3. PICK e \in S : e.key = k
  BY DEF Keys
<1>4. UpTo(S, e.key) = {e}
  BY <1>2, <1>3 DEF UpTo, Keys
<1> QED
  BY <1>4, FS_Singleton

\* A page is a run of the entries past the cursor, from the first of them; it
\* is all of them, or its last entry is where the client goes on.
LEMMA PageFacts ==
  ASSUME NEW S, IsFiniteSet(S), NEW c \in Nat, \A e \in S : e.key \in Nat,
         \A d, e \in S : d.key = e.key => d = e
  PROVE  LET page == Page(S, c)
         IN /\ page.out \subseteq S /\ \A e \in page.out : e.key > c
            /\ \A d \in S, e \in page.out : d.key > c /\ d.key <= e.key => d \in page.out
            /\ page.next \in Nat
            /\ page.next = 0 => \A d \in S : d.key > c => d \in page.out
            /\ page.next # 0 =>
                 /\ \E e \in page.out : e.key = page.next
                 /\ \A e \in page.out : e.key <= page.next
<1> DEFINE rest == Beyond(S, c)
           out == {e \in rest : Cardinality(UpTo(rest, e.key)) <= Limit}
<1>1. rest \in SUBSET S /\ \A e \in S : e \in rest <=> e.key > c
  BY DEF Beyond
<1>2. IsFiniteSet(rest) /\ \A e \in rest : e.key \in Nat /\ e.key > c
  BY <1>1, FS_Subset
<1>3. Page(S, c) = [out |-> out, next |-> IF out = rest THEN 0 ELSE Max(Keys(out))]
  BY DEF Page, UpTo
<1>4. Page(S, c).out = out /\ Page(S, c).next = IF out = rest THEN 0 ELSE Max(Keys(out))
  BY <1>3
<1> HIDE DEF rest
<1>5. ASSUME NEW d \in rest, NEW e \in out, d.key <= e.key
      PROVE  d \in out
  <2>1. /\ Cardinality(UpTo(rest, d.key)) <= Cardinality(UpTo(rest, e.key))
        /\ Cardinality(UpTo(rest, d.key)) \in Nat /\ Cardinality(UpTo(rest, e.key)) \in Nat
    BY <1>2, <1>5, UpToCounts
  <2>2. Cardinality(UpTo(rest, e.key)) <= Limit
    OBVIOUS
  <2> QED
    BY <2>1, <2>2, ReadersAssumption
<1>6. ASSUME out # rest
      PROVE  \E e \in out : \A d \in out : d.key <= e.key
  <2> DEFINE Rank(e) == Cardinality(UpTo(rest, e.key))
             Left == {Limit - Rank(e) : e \in out}
  <2>1. \A e \in out : Rank(e) \in Nat /\ Rank(e) <= Limit
    BY <1>2, UpToCounts
  <2>2. Left \in SUBSET Nat
    BY <2>1, ReadersAssumption
  <2>3. out # {}
    <3>1. rest # {}
      BY <1>6
    <3>2. PICK e \in rest : Cardinality(UpTo(rest, e.key)) = 1
      BY <1>1, <1>2, <3>1, FirstEntry
    <3> QED
      BY <3>2, ReadersAssumption
  <2>4. Left # {}
    BY <2>3
  <2>5. PICK l \in Left : \A m \in Left : l <= m
    <3> HIDE DEF Left
    <3> QED
      BY <2>2, <2>4, LeastNumber
  <2>6. PICK e \in out : l = Limit - Rank(e)
    OBVIOUS
  <2>7. ASSUME NEW d \in out PROVE d.key <= e.key
    <3>1. Rank(d) <= Rank(e) /\ Rank(d) \in Nat /\ Rank(e) \in Nat
      <4>1. Limit - Rank(e) <= Limit - Rank(d)
        BY <2>5, <2>6
      <4> QED
        BY <2>1, <4>1, ReadersAssumption
    <3>2. e.key \in Nat /\ d.key \in Nat
      BY <1>2
    <3>3. e.key < d.key => Rank(e) < Rank(d)
      BY <1>2, <3>2, UpToCounts
    <3> HIDE DEF Rank
    <3> QED
      BY <3>1, <3>2, <3>3
  <2> QED
    BY <2>7
<1>7. ASSUME out # rest
      PROVE  /\ Max(Keys(out)) \in Nat /\ Max(Keys(out)) # 0
             /\ \E e \in out : e.key = Max(Keys(out))
             /\ \A e \in out : e.key <= Max(Keys(out))
  <2>1. PICK e \in out : \A d \in out : d.key <= e.key
    BY <1>6, <1>7
  <2>2. e.key \in Keys(out) /\ \A k \in Keys(out) : e.key >= k
    BY <1>2, <2>1 DEF Keys
  <2>3. Max(Keys(out)) \in Keys(out) /\ \A k \in Keys(out) : Max(Keys(out)) >= k
    BY <2>2, Zenon DEF Max
  <2>4. PICK d \in out : d.key = Max(Keys(out))
    BY <2>3 DEF Keys
  <2>5. d.key \in Nat /\ d.key > c
    BY <1>2
  <2>6. \A f \in out : f.key \in Keys(out) /\ f.key \in Nat
    BY <1>2 DEF Keys
  <2> HIDE DEF out
  <2> QED
    BY <2>3, <2>4, <2>5, <2>6
<1> QED
  BY <1>1, <1>2, <1>4, <1>5, <1>7

----------------------------------------------------------------------------
(* Listings.                                                               *)

\* The transactions a listing is made of.
Shown(lot, s) ==
  IF lot = NoLot THEN {j \in 1..Len(s) : LotOf[s[j]] # NoLot}
                 ELSE {j \in 1..Len(s) : LotOf[s[j]] = lot}

EntryOf(lot, s, i) ==
  IF lot = NoLot THEN [key |-> LotOf[s[i]], entry |-> LotOf[s[i]]]
                 ELSE [key |-> i, entry |-> s[i]]

LEMMA ListingIs ==
  ASSUME NEW lot, NEW s
  PROVE  Listing(lot, s) = {EntryOf(lot, s, i) : i \in Shown(lot, s)}
BY DEF Listing, EntryOf, Shown

LEMMA StateElements ==
  ASSUME NEW s \in State, NEW i \in 1..Len(s)
  PROVE  s[i] \in Tx /\ LotOf[s[i]] \in Nat
<1>1. s[i] \in Tx
  BY ElementOfSeq DEF State
<1> QED
  BY <1>1, ReadersAssumption

\* A listing is finite and its entries have numbers of their own.
LEMMA ListingFacts ==
  ASSUME NEW lot, NEW s \in State
  PROVE  /\ IsFiniteSet(Listing(lot, s))
         /\ \A e \in Listing(lot, s) : e.key \in Nat \ {0}
         /\ \A d, e \in Listing(lot, s) : d.key = e.key => d = e
         /\ lot # NoLot => \A e \in Listing(lot, s) : e.key <= Len(s)
<1>1. Len(s) \in Nat
  BY StateLen
<1>2. Shown(lot, s) \subseteq 1..Len(s)
  BY DEF Shown
<1>3. IsFiniteSet(Shown(lot, s))
  <2>1. IsFiniteSet(1..Len(s))
    BY <1>1, FS_Interval
  <2> QED
    BY <1>2, <2>1, FS_Subset
<1>4. IsFiniteSet(Listing(lot, s))
  <2> DEFINE f == [i \in Shown(lot, s) |-> EntryOf(lot, s, i)]
  <2>1. f \in Surjection(Shown(lot, s), Listing(lot, s))
    <3>1. \A i \in Shown(lot, s) : f[i] = EntryOf(lot, s, i)
      OBVIOUS
    <3>2. f \in [Shown(lot, s) -> Listing(lot, s)]
      BY ListingIs
    <3>3. \A e \in Listing(lot, s) : \E i \in Shown(lot, s) : f[i] = e
      BY <3>1, ListingIs
    <3> HIDE DEF f
    <3> QED
      BY <3>2, <3>3 DEF Surjection
  <2> HIDE DEF f
  <2> QED
    BY <1>3, <2>1, FS_Surjection
<1>5. ASSUME NEW e \in Listing(lot, s)
      PROVE  e.key \in Nat \ {0} /\ (lot # NoLot => e.key <= Len(s))
  <2>1. PICK i \in Shown(lot, s) : e = EntryOf(lot, s, i)
    BY ListingIs
  <2>2. i \in 1..Len(s) /\ LotOf[s[i]] \in Nat /\ (lot = NoLot => LotOf[s[i]] # 0)
    BY <1>2, StateElements DEF Shown, NoLot
  <2>3. e.key = IF lot = NoLot THEN LotOf[s[i]] ELSE i
    BY <2>1 DEF EntryOf
  <2> QED
    BY <1>1, <2>2, <2>3
<1>6. ASSUME NEW d \in Listing(lot, s), NEW e \in Listing(lot, s), d.key = e.key
      PROVE  d = e
  <2>1. PICK i \in Shown(lot, s) : d = EntryOf(lot, s, i)
    BY ListingIs
  <2>2. PICK j \in Shown(lot, s) : e = EntryOf(lot, s, j)
    BY ListingIs
  <2> QED
    BY <1>6, <2>1, <2>2 DEF EntryOf
<1> QED
  BY <1>4, <1>5, <1>6

\* As the state goes on, nothing leaves a listing; to an audit, entries come
\* at its end only.
LEMMA ListingGrows ==
  ASSUME NEW lot, NEW s \in State, NEW t \in State, Agree(s, t)
  PROVE  /\ Listing(lot, s) \subseteq Listing(lot, t)
         /\ lot # NoLot =>
              \A e \in Listing(lot, t) : e.key <= Len(s) => e \in Listing(lot, s)
<1>1. Len(s) \in Nat /\ Len(t) \in Nat /\ Len(s) <= Len(t) /\ \A i \in 1..Len(s) : s[i] = t[i]
  BY StateLen DEF Agree
<1>2. \A i \in 1..Len(s) : /\ i \in 1..Len(t)
                           /\ EntryOf(lot, s, i) = EntryOf(lot, t, i)
                           /\ i \in Shown(lot, s) <=> i \in Shown(lot, t)
  BY <1>1 DEF EntryOf, Shown
<1>3. Shown(lot, s) \subseteq 1..Len(s) /\ Shown(lot, t) \subseteq 1..Len(t)
  BY DEF Shown
<1>4. ASSUME NEW e \in Listing(lot, s) PROVE e \in Listing(lot, t)
  <2>1. PICK i \in Shown(lot, s) : e = EntryOf(lot, s, i)
    BY ListingIs
  <2>2. i \in Shown(lot, t) /\ e = EntryOf(lot, t, i)
    BY <1>2, <1>3, <2>1
  <2> QED
    BY <2>2, ListingIs
<1>5. ASSUME NEW e \in Listing(lot, t), lot # NoLot, e.key <= Len(s)
      PROVE  e \in Listing(lot, s)
  <2>1. PICK i \in Shown(lot, t) : e = EntryOf(lot, t, i)
    BY ListingIs
  <2>2. i = e.key
    BY <1>5, <2>1 DEF EntryOf
  <2>3. i \in 1..Len(s)
    BY <1>1, <1>3, <1>5, <2>2
  <2>4. i \in Shown(lot, s) /\ e = EntryOf(lot, s, i)
    BY <1>2, <2>1, <2>3
  <2> QED
    BY <2>4, ListingIs
<1> QED
  BY <1>4, <1>5

----------------------------------------------------------------------------
(* The audit chain.                                                        *)

LEMMA AuditFacts ==
  ASSUME NEW s \in State
  PROVE  /\ Len(Audit(s)) = Len(s) /\ DOMAIN Audit(s) = 1..Len(s)
         /\ \A i \in 1..Len(s) :
              /\ Audit(s)[i].sequence = i /\ Audit(s)[i].tx = s[i]
              /\ Audit(s)[i].previous = HashOf(s, i-1)
              /\ Audit(s)[i].hash = Append(HashOf(s, i-1), <<i, s[i]>>)
<1>1. Len(s) \in Nat
  BY StateLen
<1>2. DOMAIN Audit(s) = 1..Len(s)
  BY DEF Audit
<1>3. Len(Audit(s)) = Len(s)
  BY <1>1, <1>2 DEF Audit
<1> QED
  BY <1>2, <1>3 DEF Audit, AuditHash

LEMMA AuditIsSeq ==
  ASSUME NEW s \in State
  PROVE  /\ Audit(s) \in Seq(Range(Audit(s)))
         /\ \A i \in 1..Len(s) : Audit(s)[i] \in Range(Audit(s))
<1> DEFINE a == Audit(s)
<1>1. Len(s) \in Nat /\ DOMAIN a = 1..Len(s)
  BY StateLen, AuditFacts
<1>2. a = [i \in 1..Len(s) |-> a[i]]
  BY <1>1 DEF Audit
<1> HIDE DEF a
<1>3. \A i \in 1..Len(s) : a[i] \in Range(a)
  BY <1>1 DEF Range
<1>4. a \in [1..Len(s) -> Range(a)]
  BY <1>2, <1>3
<1>5. a \in Seq(Range(a))
  BY <1>1, <1>4, SeqDef
<1> QED
  BY <1>3, <1>5 DEF a

\* The hash of an event continues the hash of the event before it.
LEMMA HashContinues ==
  ASSUME NEW s \in State, NEW n \in 1..Len(s)
  PROVE  /\ HashOf(s, n-1) \in Seq(Nat \X Tx) /\ Len(HashOf(s, n-1)) = n - 1
         /\ <<n, s[n]>> \in Nat \X Tx
         /\ Append(HashOf(s, n-1), <<n, s[n]>>) = HashOf(s, n)
<1>1. n \in Nat \ {0} /\ n - 1 \in Nat /\ \A k \in 1..n : k \in 1..Len(s) /\ s[k] \in Tx
  BY StateLen, StateElements
<1>2. ASSUME NEW m \in {n - 1, n}
      PROVE  /\ HashOf(s, m) \in Seq(Nat \X Tx) /\ Len(HashOf(s, m)) = m
             /\ \A k \in 1..m : HashOf(s, m)[k] = <<k, s[k]>>
  <2>1. m \in Nat /\ \A k \in 1..m : k \in Nat /\ s[k] \in Tx
    BY <1>1
  <2>2. HashOf(s, m) \in [1..m -> Nat \X Tx]
    BY <2>1 DEF HashOf
  <2>3. \A k \in 1..m : HashOf(s, m)[k] = <<k, s[k]>>
    BY DEF HashOf
  <2> HIDE DEF HashOf
  <2> QED
    BY <2>1, <2>2, <2>3, SeqDef, LenProperties
<1>3. <<n, s[n]>> \in Nat \X Tx
  BY <1>1
<1> DEFINE a == HashOf(s, n-1)
           b == HashOf(s, n)
           e == <<n, s[n]>>
           c == Append(a, e)
<1>4. /\ c \in Seq(Nat \X Tx) /\ Len(c) = Len(a) + 1 /\ c[Len(a) + 1] = e
      /\ \A i \in 1..Len(a) : c[i] = a[i]
  <2> HIDE DEF a, e
  <2> QED
    BY <1>2, <1>3, AppendProperties DEF a, e
<1>5. Len(c) = Len(b) /\ \A i \in 1..Len(c) : c[i] = b[i]
  <2>1. Len(a) = n - 1 /\ Len(b) = n
    BY <1>2
  <2>2. \A i \in 1..Len(c) : i \in 1..Len(a) \/ i = Len(a) + 1
    BY <1>1, <1>4, <2>1
  <2>3. \A i \in 1..Len(a) : a[i] = <<i, s[i]>> /\ b[i] = <<i, s[i]>>
    BY <1>1, <1>2, <2>1
  <2>4. b[Len(a) + 1] = e
    BY <1>1, <1>2, <2>1
  <2>5. Len(c) = Len(b)
    BY <1>1, <1>4, <2>1
  <2> HIDE DEF a, b, e, c
  <2>6. \A i \in 1..Len(a) : c[i] = b[i]
    BY <1>4, <2>3
  <2>7. c[Len(a) + 1] = b[Len(a) + 1]
    BY <1>4, <2>4
  <2> QED
    BY <2>2, <2>5, <2>6, <2>7, Zenon
<1>6. b \in Seq(Nat \X Tx)
  BY <1>2
<1>7. c = b
  <2> HIDE DEF a, b, e, c
  <2> QED
    BY <1>4, <1>5, <1>6, SeqEqual
<1> QED
  BY <1>2, <1>3, <1>7

----------------------------------------------------------------------------
(* Backups.                                                                *)

LEMMA HashIs ==
  ASSUME NEW s \in State, NEW i \in 1..Len(s)
  PROVE  Audit(s)[i].hash = HashOf(s, i)
<1>1. Audit(s)[i].hash = Append(HashOf(s, i-1), <<i, s[i]>>)
  BY AuditFacts
<1>2. Append(HashOf(s, i-1), <<i, s[i]>>) = HashOf(s, i)
  BY HashContinues
<1> QED
  BY <1>1, <1>2, Zenon

LEMMA ChainVerifies ==
  ASSUME NEW s \in State, ChainHolds(s)
  PROVE  VerifyAudit(Audit(s))
<1> SUFFICES ASSUME NEW i \in 1..Len(s)
             PROVE  /\ Audit(s)[i].previous = IF i = 1 THEN <<>> ELSE Audit(s)[i-1].hash
                    /\ Audit(s)[i].hash = AuditHash(Audit(s)[i])
  BY AuditFacts DEF VerifyAudit, ChainHolds
<1> DEFINE e == Audit(s)[i]
<1>1. e.hash = AuditHash(e)
  <2>1. /\ e.sequence = i /\ e.tx = s[i] /\ e.previous = HashOf(s, i-1)
        /\ e.hash = Append(HashOf(s, i-1), <<i, s[i]>>)
    BY AuditFacts
  <2> HIDE DEF e
  <2> QED
    BY <2>1, Zenon DEF AuditHash
<1>2. CASE i = 1
  <2>1. Audit(s)[i].previous = HashOf(s, 0)
    BY <1>2, AuditFacts
  <2>2. HashOf(s, 0) = <<>>
    BY DEF HashOf
  <2> QED
    BY <1>1, <1>2, <2>1, <2>2
<1>3. CASE i # 1
  <2>1. i - 1 \in 1..Len(s)
    BY <1>3, StateLen
  <2>2. Audit(s)[i-1].hash = HashOf(s, i-1)
    BY <2>1, HashIs
  <2> QED
    BY <1>1, <1>3, <2>2, AuditFacts
<1> QED
  BY <1>2, <1>3

LEMMA BackupFields ==
  ASSUME NEW s
  PROVE  LET b == BackupOf(s)
         IN /\ b.format = "v1" /\ b.revision = Len(s) /\ b.checksum = b.state
            /\ b.state.revision = Len(s) /\ b.state.audit = Audit(s)
            /\ b.state.schema = SchemaVersion /\ b.auditHead = AuditHead(Audit(s))
            /\ b.state = [schema |-> SchemaVersion, revision |-> Len(s), audit |-> Audit(s)]
BY DEF BackupOf, Revision

\* What WriteBackup finds to be a chain is one to ValidateBackup, which refuses
\* nothing of it but its size.
LEMMA BackupValid ==
  ASSUME NEW s \in State, VerifyAudit(Audit(s))
  PROVE  ValidateBackup(BackupOf(s)) <=> Len(BackupOf(s).state.audit) <= ReadLimit
BY BackupFields DEF ValidateBackup

\* What Open asks of a loaded state in module Store is what VerifyAudit computes:
\* the chain breaks at an actor that is not UTF-8, and nowhere else.
THEOREM ChainHoldsIfVerified ==
  ASSUME NEW s \in State
  PROVE  VerifyAudit(Audit(s)) <=> ChainHolds(s)
<1>1. VerifyAudit(Audit(s)) => ChainHolds(s)
  BY AuditFacts DEF VerifyAudit, ChainHolds
<1> QED
  BY <1>1, ChainVerifies

\* The head of a chain is the hash of its last event.
LEMMA HeadIs ==
  ASSUME NEW s \in State, Len(s) # 0
  PROVE  /\ Audit(s) # <<>> /\ AuditHead(Audit(s)) = HashOf(s, Len(s))
         /\ Len(HashOf(s, Len(s))) = Len(s)
<1>1. Len(s) \in 1..Len(s)
  BY StateLen
<1>2. Len(Audit(s)) = Len(s) /\ Audit(s) # <<>>
  BY <1>1, AuditFacts
<1>3. Audit(s)[Len(s)].hash = HashOf(s, Len(s))
  BY <1>1, HashIs
<1>4. Len(HashOf(s, Len(s))) = Len(s)
  <2>1. Len(HashOf(s, Len(s) - 1)) = Len(s) - 1 /\ HashOf(s, Len(s) - 1) \in Seq(Nat \X Tx)
        /\ <<Len(s), s[Len(s)]>> \in Nat \X Tx
        /\ HashOf(s, Len(s)) = Append(HashOf(s, Len(s) - 1), <<Len(s), s[Len(s)]>>)
    BY <1>1, HashContinues
  <2>2. Len(HashOf(s, Len(s))) = Len(HashOf(s, Len(s) - 1)) + 1
    BY <2>1, AppendProperties
  <2> QED
    BY <1>1, <2>1, <2>2
<1> QED
  BY <1>2, <1>3, <1>4 DEF AuditHead, Last

LEMMA ExceptState ==
  ASSUME NEW s, NEW b, b = BackupOf(s), NEW st
  PROVE  /\ [b EXCEPT !.state = st].state = st
         /\ [b EXCEPT !.state = st].checksum = b.checksum
         /\ [b EXCEPT !.state = st, !.checksum = st].state = st
         /\ [b EXCEPT !.state = st, !.checksum = st].auditHead = b.auditHead
BY DEF BackupOf

LEMMA ExceptHead ==
  ASSUME NEW s, NEW b, b = BackupOf(s), NEW r
  PROVE  /\ [b EXCEPT !.revision = r].revision = r
         /\ [b EXCEPT !.revision = r].state = b.state
         /\ [b EXCEPT !.auditHead = r].auditHead = r
         /\ [b EXCEPT !.auditHead = r].state = b.state
BY DEF BackupOf

----------------------------------------------------------------------------
(* Readers beside the store: its own steps stay what they were.            *)

LEMMA ReadersRunTheStore == ReadersSpec => Spec
<1>1. ReadersInit => Init
  BY DEF ReadersInit
<1>2. [ReadersNext]_allVars => [Next]_vars
  BY DEF ReadersNext, WriteBackup, ReadPage, allVars
<1> QED
  BY <1>1, <1>2, PTL DEF ReadersSpec, Spec

\* What a reader finds on the store's lock.
LEMMA WhatIsRead ==
  ASSUME TypeOK, IInv, pc = "idle"
  PROVE  mem = promised /\ mem \in State
BY DEF TypeOK, IInv, ServingOK, Up

\* A step of the store takes nothing of what was promised back, and a reader's
\* step changes nothing of the store.
LEMMA PromiseGrows ==
  ASSUME "power" \notin Faults, TypeOK, TypeOK', IInv, [ReadersNext]_allVars
  PROVE  /\ promised \in State /\ promised' \in State /\ Agree(promised, promised')
         /\ UNCHANGED readers \/ UNCHANGED promised
<1>1. promised \in State /\ promised' \in State
  BY DEF TypeOK
<1>2. [Next]_vars /\ (UNCHANGED readers \/ UNCHANGED promised)
  BY DEF ReadersNext, WriteBackup, ReadPage, allVars, vars
<1> QED
  BY <1>1, <1>2, StepKeeps

----------------------------------------------------------------------------
(* Backups, continued.                                                     *)

\* A backup that was written holds a state callers have been shown.
BackupOK ==
  backup # NoBackup =>
    \E s \in State : Agree(s, promised) /\ VerifyAudit(Audit(s)) /\ backup = BackupOf(s)

LEMMA BackupKeeps ==
  ASSUME "power" \notin Faults, TypeOK, TypeOK', IInv, BackupOK, [ReadersNext]_allVars
  PROVE  BackupOK'
<1>1. promised \in State /\ promised' \in State /\ Agree(promised, promised')
  BY PromiseGrows
<1>2. CASE backup' = backup
  <2> SUFFICES ASSUME backup # NoBackup
               PROVE  \E s \in State :
                        Agree(s, promised') /\ VerifyAudit(Audit(s)) /\ backup' = BackupOf(s)
    BY <1>2 DEF BackupOK
  <2>1. PICK s \in State :
          Agree(s, promised) /\ VerifyAudit(Audit(s)) /\ backup = BackupOf(s)
    BY DEF BackupOK
  <2>2. Agree(s, promised')
    BY <1>1, <2>1, AgreeTransitive
  <2> QED
    BY <1>2, <2>1, <2>2
<1>3. CASE WriteBackup
  <2>1. /\ mem = promised /\ mem \in State /\ promised' = promised
        /\ VerifyAudit(Audit(mem)) /\ backup' = BackupOf(mem)
    BY <1>3, WhatIsRead DEF WriteBackup, vars
  <2>2. Agree(mem, promised')
    BY <2>1, AgreeReflexive
  <2> QED
    BY <2>1, <2>2 DEF BackupOK
<1> QED
  BY <1>2, <1>3 DEF ReadersNext, ReadPage, readers, allVars

LEMMA BackupsInOrder ==
  ASSUME "power" \notin Faults
  PROVE  ReadersSpec => []BackupOK
<1>1. ReadersInit => BackupOK
  BY DEF ReadersInit, BackupOK
<1>2. TypeOK /\ TypeOK' /\ IInv /\ BackupOK /\ [ReadersNext]_allVars => BackupOK'
  BY BackupKeeps
<1> QED
  BY <1>1, <1>2, ReadersRunTheStore, TypeCorrect, FilesInOrder, PTL DEF ReadersSpec

\* A backup taken while the store is written, fails and restarts holds a state
\* that callers were shown and that later ones go on from.  It validates up to
\* the size that ValidateBackup reads, and is refused beyond (WriteBackup and
\* ValidateBackup beside Update, load and Compact).
THEOREM BackupsArePromised ==
  ASSUME "power" \notin Faults
  PROVE  ReadersSpec => []BackupIsPromised
<1>1. TypeOK /\ BackupOK => BackupIsPromised
  <2> SUFFICES ASSUME TypeOK, BackupOK, backup # NoBackup
               PROVE  /\ ValidateBackup(backup) <=> Len(backup.state.audit) <= ReadLimit
                      /\ \E s \in {SubSeq(promised, 1, n) : n \in 0..Len(promised)} :
                           backup = BackupOf(s)
    BY DEF BackupIsPromised
  <2>1. PICK s \in State :
          Agree(s, promised) /\ VerifyAudit(Audit(s)) /\ backup = BackupOf(s)
    BY DEF BackupOK
  <2>2. promised \in State /\ s = SubSeq(promised, 1, Len(s))
    BY <2>1, AgreeSubSeq DEF TypeOK
  <2>3. Len(s) \in 0..Len(promised)
    BY <2>1, <2>2, StateLen DEF Agree
  <2>4. ValidateBackup(backup) <=> Len(backup.state.audit) <= ReadLimit
    BY <2>1, BackupValid
  <2> QED
    BY <2>1, <2>2, <2>3, <2>4
<1> QED
  BY <1>1, BackupsInOrder, ReadersRunTheStore, TypeCorrect, PTL

\* A chain with an event lost, changed or repeated.
LEMMA LostEventShows ==
  ASSUME NEW s \in State, NEW i \in 1..Len(s)
  PROVE  LET left == RemoveAt(Audit(s), i)
         IN /\ i # Len(s) => ~VerifyAudit(left)
            /\ i = Len(s) /\ left # <<>> => AuditHead(left) # AuditHead(Audit(s))
<1> DEFINE a == Audit(s)
           n == Len(s)
           A == SubSeq(a, 1, i-1)
           B == SubSeq(a, i+1, Len(a))
           left == A \o B
<1>1. n \in Nat \ {0} /\ i \in 1..n
  BY StateLen
<1>2. a \in Seq(Range(a)) /\ Len(a) = n /\ \A k \in 1..n : a[k] \in Range(a)
  BY AuditFacts, AuditIsSeq
<1>3. /\ A \in Seq(Range(a)) /\ Len(A) = i - 1 /\ \A k \in 1..i-1 : A[k] = a[k]
  <2>1. \A k \in 1..i-1 : a[k] \in Range(a)
    BY <1>1, <1>2
  <2>2. /\ A \in Seq(Range(a)) /\ Len(A) = IF 1 <= i-1 THEN (i-1)-1+1 ELSE 0
        /\ \A k \in 1..(i-1)-1+1 : A[k] = a[1+k-1]
    <3> HIDE DEF a
    <3> QED
      BY <1>1, <2>1, SubSeqProperties
  <2> HIDE DEF a, A
  <2> QED
    BY <1>1, <2>2
<1>4. /\ B \in Seq(Range(a)) /\ Len(B) = n - i /\ \A k \in 1..n-i : B[k] = a[i+k]
  <2>1. \A k \in i+1..n : a[k] \in Range(a)
    BY <1>1, <1>2
  <2>2. /\ SubSeq(a, i+1, n) \in Seq(Range(a))
        /\ Len(SubSeq(a, i+1, n)) = IF i+1 <= n THEN n-(i+1)+1 ELSE 0
        /\ \A k \in 1..n-(i+1)+1 : SubSeq(a, i+1, n)[k] = a[(i+1)+k-1]
    <3> HIDE DEF a, n
    <3> QED
      BY <1>1, <2>1, SubSeqProperties
  <2>3. B = SubSeq(a, i+1, n)
    BY <1>2
  <2> HIDE DEF a, n, B
  <2> QED
    BY <1>1, <2>2, <2>3
<1>5. /\ left \in Seq(Range(a)) /\ Len(left) = n - 1
      /\ \A k \in 1..i-1 : left[k] = a[k]
      /\ \A k \in i..n-1 : left[k] = a[k+1]
  <2>1. /\ left \in Seq(Range(a)) /\ Len(left) = Len(A) + Len(B)
        /\ \A k \in 1..Len(A)+Len(B) : left[k] = IF k <= Len(A) THEN A[k] ELSE B[k - Len(A)]
    <3> HIDE DEF a, A, B
    <3> QED
      BY <1>3, <1>4, ConcatProperties
  <2> HIDE DEF a, n, A, B, left
  <2>2. Len(left) = n - 1
    BY <1>1, <1>3, <1>4, <2>1
  <2>3. \A k \in 1..i-1 : left[k] = a[k]
    BY <1>1, <1>3, <1>4, <2>1
  <2>4. ASSUME NEW k \in i..n-1 PROVE left[k] = a[k+1]
    <3>1. left[k] = B[k - (i - 1)]
      BY <1>1, <1>3, <1>4, <2>1
    <3>2. k - (i - 1) \in 1..n-i /\ i + (k - (i - 1)) = k + 1
      BY <1>1
    <3> QED
      BY <1>4, <3>1, <3>2
  <2> QED
    BY <2>1, <2>2, <2>3, <2>4
<1>6. left = RemoveAt(Audit(s), i)
  BY DEF RemoveAt
<1>7. ASSUME i # n
      PROVE  ~VerifyAudit(left)
  <2>1. i \in 1..Len(left) /\ left[i] = a[i+1] /\ i + 1 \in 1..n
    <3> HIDE DEF left, a
    <3> QED
      BY <1>1, <1>5, <1>7
  <2>2. left[i].sequence = i + 1
    BY <2>1, AuditFacts
  <2> HIDE DEF left
  <2> QED
    BY <1>1, <2>1, <2>2 DEF VerifyAudit
<1>8. ASSUME i = n, left # <<>>
      PROVE  AuditHead(left) # AuditHead(Audit(s))
  <2>1. n - 1 \in 1..n-1 /\ left[n-1] = a[n-1] /\ n - 1 \in 1..n
    <3>1. Len(left) # 0
      <4> HIDE DEF left
      <4> QED
        BY <1>5, <1>8, EmptySeq
    <3> HIDE DEF left, a, n
    <3> QED
      BY <1>1, <1>5, <1>8, <3>1
  <2>2. AuditHead(left) = HashOf(s, n-1)
    <3>1. AuditHead(left) = left[n-1].hash
      <4> HIDE DEF left, n
      <4> QED
        BY <1>5, <1>8 DEF AuditHead, Last
    <3>2. a[n-1].hash = HashOf(s, n-1)
      BY <2>1, HashIs
    <3> QED
      BY <2>1, <3>1, <3>2, Zenon
  <2>3. Len(HashOf(s, n-1)) = n - 1
    <3>1. n \in 1..Len(s)
      BY <1>1
    <3> HIDE DEF n
    <3> QED
      BY <3>1, HashContinues
  <2>4. AuditHead(Audit(s)) = HashOf(s, n) /\ Len(HashOf(s, n)) = n
    BY <1>1, HeadIs
  <2> HIDE DEF left, n
  <2> QED
    BY <1>1, <2>2, <2>3, <2>4
<1> QED
  BY <1>6, <1>7, <1>8

LEMMA ChangedEventShows ==
  ASSUME NEW s \in State, NEW i \in 1..Len(s), NEW t \in Tx, t # s[i]
  PROVE  ~VerifyAudit([Audit(s) EXCEPT ![i].tx = t])
<1> DEFINE a == Audit(s)
           b == [a EXCEPT ![i].tx = t]
<1>1. /\ Len(a) = Len(s) /\ DOMAIN a = 1..Len(s) /\ Len(s) \in Nat
      /\ a[i].sequence = i /\ a[i].tx = s[i] /\ a[i].previous = HashOf(s, i-1)
      /\ a[i].hash = Append(HashOf(s, i-1), <<i, s[i]>>)
  BY AuditFacts, StateLen
<1>2. b[i] = [a[i] EXCEPT !.tx = t] /\ DOMAIN b = 1..Len(s)
  <2> HIDE DEF a
  <2> QED
    BY <1>1, Zenon
<1>3. Len(b) = Len(s)
  <2> HIDE DEF b
  <2> QED
    BY <1>1, <1>2
<1>4. a[i] = [sequence |-> i, tx |-> s[i], previous |-> HashOf(s, i-1),
              hash |-> AuditHash([sequence |-> i, tx |-> s[i], previous |-> HashOf(s, i-1)])]
  BY <1>1 DEF Audit
<1>5. /\ b[i].sequence = i /\ b[i].tx = t /\ b[i].previous = HashOf(s, i-1)
      /\ b[i].hash = a[i].hash
  <2> HIDE DEF b, a
  <2> QED
    BY <1>2, <1>4
<1>6. b[i].hash # AuditHash(b[i]) => ~VerifyAudit(b)
  <2> HIDE DEF b
  <2> QED
    BY <1>3 DEF VerifyAudit
<1>7. AuditHash(b[i]) = Append(HashOf(s, i-1), <<i, t>>)
  <2> HIDE DEF b
  <2> QED
    BY <1>5, Zenon DEF AuditHash
<1> DEFINE h == HashOf(s, i-1)
<1>8. h \in Seq(Nat \X Tx) /\ <<i, s[i]>> \in Nat \X Tx /\ <<i, t>> \in Nat \X Tx
  BY HashContinues
<1>9. Append(h, <<i, t>>)[Len(h)+1] = <<i, t>> /\ Append(h, <<i, s[i]>>)[Len(h)+1] = <<i, s[i]>>
  <2> HIDE DEF h
  <2> QED
    BY <1>8, AppendProperties
<1>10. <<i, t>> # <<i, s[i]>>
  OBVIOUS
<1>11. b[i].hash # AuditHash(b[i])
  <2> HIDE DEF a, b, h
  <2> QED
    BY <1>1, <1>5, <1>7, <1>9, <1>10 DEF h
<1> QED
  BY <1>6, <1>11

LEMMA ForgottenHashShows ==
  ASSUME NEW s \in State, NEW i \in 2..Len(s)
  PROVE  ~VerifyAudit([Audit(s) EXCEPT ![i].previous = <<>>])
<1> DEFINE a == Audit(s)
           b == [a EXCEPT ![i].previous = <<>>]
<1>1. /\ Len(s) \in Nat /\ i \in 1..Len(s) /\ i - 1 \in 1..Len(s) /\ i # 1
      /\ Len(a) = Len(s) /\ DOMAIN a = 1..Len(s)
  BY AuditFacts, StateLen
<1>2. b[i] = [a[i] EXCEPT !.previous = <<>>] /\ DOMAIN b = 1..Len(s)
  <2> HIDE DEF a
  <2> QED
    BY <1>1, Zenon
<1>3. Len(b) = Len(s)
  <2> HIDE DEF b
  <2> QED
    BY <1>1, <1>2
<1>4. a[i] = [sequence |-> i, tx |-> s[i], previous |-> HashOf(s, i-1),
              hash |-> AuditHash([sequence |-> i, tx |-> s[i], previous |-> HashOf(s, i-1)])]
  BY <1>1 DEF Audit
<1>5. b[i].previous = <<>>
  <2> HIDE DEF b, a
  <2> QED
    BY <1>2, <1>4
<1>6. b[i-1] = a[i-1]
  <2> HIDE DEF a
  <2> QED
    BY <1>1
<1>7. b[i-1].hash = HashOf(s, i-1)
  BY <1>1, <1>6, HashIs
<1>8. Len(HashOf(s, i-1)) # 0
  <2>1. Len(HashOf(s, i-1)) = i - 1
    BY <1>1, HashContinues
  <2> QED
    BY <1>1, <2>1
<1>9. HashOf(s, i-1) # <<>>
  BY <1>8
<1>10. ~VerifyAudit(b)
  <2> HIDE DEF b
  <2> QED
    BY <1>1, <1>3, <1>5, <1>7, <1>9 DEF VerifyAudit
<1> QED
  BY <1>10

LEMMA RepeatedEventShows ==
  ASSUME NEW s \in State, NEW i \in 1..Len(s)
  PROVE  ~VerifyAudit(Append(Audit(s), Audit(s)[i]))
<1> DEFINE a == Audit(s)
           b == Append(a, a[i])
<1>1. Len(a) = Len(s) /\ Len(s) \in Nat /\ a[i].sequence = i
  BY AuditFacts, StateLen
<1>2. a \in Seq(Range(a)) /\ a[i] \in Range(a)
  BY AuditIsSeq
<1>3. Len(b) = Len(s) + 1 /\ b[Len(s) + 1] = a[i]
  <2> HIDE DEF a
  <2> QED
    BY <1>1, <1>2, AppendProperties
<1>4. Len(s) + 1 \in 1..Len(b) /\ b[Len(s) + 1].sequence # Len(s) + 1
  <2> HIDE DEF b, a
  <2> QED
    BY <1>1, <1>3
<1>5. ~VerifyAudit(b)
  <2> HIDE DEF b
  <2> QED
    BY <1>4 DEF VerifyAudit
<1> QED
  BY <1>5

LEMMA SameEvent ==
  ASSUME NEW s \in State, NEW i \in 1..Len(s)
  PROVE  [Audit(s) EXCEPT ![i].tx = s[i]] = Audit(s)
<1> DEFINE a == Audit(s)
           h == HashOf(s, i-1)
           e == [sequence |-> i, tx |-> s[i], previous |-> h,
                 hash |-> AuditHash([sequence |-> i, tx |-> s[i], previous |-> h])]
<1>1. a[i] = e /\ DOMAIN a = 1..Len(s) /\ a = [k \in 1..Len(s) |-> a[k]]
  BY AuditFacts DEF Audit
<1>2. [e EXCEPT !.tx = s[i]] = e
  <2> HIDE DEF h
  <2> QED
    OBVIOUS
<1>3. [a EXCEPT ![i].tx = s[i]] = [a EXCEPT ![i] = [a[i] EXCEPT !.tx = s[i]]]
  <2> HIDE DEF a
  <2> QED
    BY <1>1
<1>4. [a EXCEPT ![i] = a[i]] = a
  <2> HIDE DEF a
  <2> QED
    BY <1>1
<1>5. [a[i] EXCEPT !.tx = s[i]] = a[i]
  <2> HIDE DEF a, e
  <2> QED
    BY <1>1, <1>2
<1>6. [a EXCEPT ![i].tx = s[i]] = a
  <2> HIDE DEF a
  <2> QED
    BY <1>3, <1>4, <1>5
<1> QED
  BY <1>6

\* A state that differs by one event, and has one, is told by its chain or by
\* the head that was saved with it; one of another schema by that.
LEMMA AlteredShows ==
  ASSUME NEW s \in State, NEW st \in Altered(BackupOf(s).state),
         st # BackupOf(s).state, st.audit # <<>>
  PROVE  \/ ~VerifyAudit(st.audit) \/ AuditHead(st.audit) # AuditHead(Audit(s))
         \/ st.schema # SchemaVersion
<1> DEFINE r == [schema |-> SchemaVersion, revision |-> Len(s), audit |-> Audit(s)]
           With(events) == [r EXCEPT !.audit = events]
<1>1. /\ BackupOf(s).state = r /\ r.audit = Audit(s) /\ Len(Audit(s)) = Len(s)
      /\ With(Audit(s)) = r /\ \A events : With(events).audit = events
  BY BackupFields, AuditFacts
<1> DEFINE Lost == {With(RemoveAt(Audit(s), i)) : i \in 1..Len(s)}
           Changed == {With([Audit(s) EXCEPT ![i].tx = t]) : i \in 1..Len(s), t \in Tx}
           Forgot == {With([Audit(s) EXCEPT ![i].previous = <<>>]) : i \in 2..Len(s)}
           Again == {With(Append(Audit(s), Audit(s)[i])) : i \in 1..Len(s)}
           Other == [r EXCEPT !.schema = SchemaVersion + 1]
<1>2. st \in Lost \cup Changed \cup Forgot \cup Again \cup {Other}
  BY <1>1 DEF Altered
<1> HIDE DEF With
<1>3. CASE st \in Lost
  BY <1>1, <1>3, LostEventShows
<1>4. CASE st \in Changed
  <2>1. PICK i \in 1..Len(s), t \in Tx : st = With([Audit(s) EXCEPT ![i].tx = t])
    BY <1>4
  <2>2. t # s[i]
    <3> SUFFICES ASSUME t = s[i]
                 PROVE  FALSE
      OBVIOUS
    <3>1. [Audit(s) EXCEPT ![i].tx = t] = Audit(s)
      BY SameEvent
    <3>2. st = With(Audit(s))
      BY <2>1, <3>1
    <3> HIDE DEF r
    <3> QED
      BY <1>1, <3>2
  <2>3. ~VerifyAudit([Audit(s) EXCEPT ![i].tx = t])
    BY <2>2, ChangedEventShows
  <2>4. st.audit = [Audit(s) EXCEPT ![i].tx = t]
    BY <1>1, <2>1, Zenon
  <2> QED
    BY <2>3, <2>4, Zenon
<1>5. CASE st \in Forgot
  <2>1. PICK i \in 2..Len(s) : st = With([Audit(s) EXCEPT ![i].previous = <<>>])
    BY <1>5
  <2>2. ~VerifyAudit([Audit(s) EXCEPT ![i].previous = <<>>])
    BY ForgottenHashShows
  <2>3. st.audit = [Audit(s) EXCEPT ![i].previous = <<>>]
    BY <1>1, <2>1, Zenon
  <2> QED
    BY <2>2, <2>3, Zenon
<1>6. CASE st \in Again
  BY <1>1, <1>6, RepeatedEventShows
<1>7. CASE st = Other
  <2>1. st.schema = SchemaVersion + 1
    BY <1>7
  <2> QED
    BY <2>1 DEF SchemaVersion
<1> HIDE DEF Lost, Changed, Forgot, Again, Other
<1> QED
  BY <1>2, <1>3, <1>4, <1>5, <1>6, <1>7

\* A damaged backup is refused, whoever computes its checksum anew, save one
\* that lost all its events (ValidateBackup).
THEOREM DamageIsAlwaysNoticed ==
  ASSUME "power" \notin Faults
  PROVE  ReadersSpec => []DamageIsNoticed
<1>1. BackupOK => DamageIsNoticed
  <2> SUFFICES ASSUME BackupOK, backup # NoBackup
               PROVE  /\ \A st \in Altered(backup.state) \ {backup.state} :
                           /\ ~ValidateBackup([backup EXCEPT !.state = st])
                           /\ st.audit # <<>> =>
                                ~ValidateBackup([backup EXCEPT !.state = st, !.checksum = st])
                      /\ \A r \in 0..Cardinality(Tx) \ {backup.revision} :
                           ~ValidateBackup([backup EXCEPT !.revision = r])
                      /\ backup.auditHead # <<>> =>
                           ~ValidateBackup([backup EXCEPT !.auditHead = <<>>])
    BY DEF DamageIsNoticed
  <2>1. PICK s \in State : backup = BackupOf(s)
    BY DEF BackupOK
  <2>2. ASSUME NEW st \in Altered(backup.state) \ {backup.state}
        PROVE  /\ ~ValidateBackup([backup EXCEPT !.state = st])
               /\ st.audit # <<>> =>
                    ~ValidateBackup([backup EXCEPT !.state = st, !.checksum = st])
    <3>1. ~ValidateBackup([backup EXCEPT !.state = st])
      <4>1. /\ [backup EXCEPT !.state = st].state = st
            /\ [backup EXCEPT !.state = st].checksum = backup.state
        <5>1. /\ [backup EXCEPT !.state = st].state = st
              /\ [backup EXCEPT !.state = st].checksum = backup.checksum
          BY <2>1, ExceptState
        <5>2. backup.checksum = backup.state
          BY <2>1, BackupFields
        <5> QED
          BY <5>1, <5>2, Zenon
      <4> DEFINE d == [backup EXCEPT !.state = st]
      <4>2. d.checksum # d.state
        BY <2>2, <4>1
      <4>3. ~ValidateBackup(d)
        <5> HIDE DEF d
        <5> QED
          BY <4>2 DEF ValidateBackup
      <4> QED
        BY <4>3
    <3>2. ASSUME st.audit # <<>>
          PROVE  ~ValidateBackup([backup EXCEPT !.state = st, !.checksum = st])
      <4> DEFINE d == [backup EXCEPT !.state = st, !.checksum = st]
      <4>1. d.state = st /\ d.auditHead = AuditHead(Audit(s))
        <5>1. d.state = st /\ d.auditHead = backup.auditHead
          BY <2>1, ExceptState
        <5>2. backup.auditHead = AuditHead(Audit(s))
          BY <2>1, BackupFields
        <5> QED
          BY <5>1, <5>2, Zenon
      <4>2. \/ ~VerifyAudit(st.audit) \/ AuditHead(st.audit) # AuditHead(Audit(s))
            \/ st.schema # SchemaVersion
        BY <2>1, <2>2, <3>2, AlteredShows
      <4>3. ~ValidateBackup(d)
        <5> HIDE DEF d
        <5> QED
          BY <3>2, <4>1, <4>2 DEF ValidateBackup
      <4> QED
        BY <4>3
    <3> QED
      BY <3>1, <3>2
  <2>3. ASSUME NEW r, r # backup.revision
        PROVE  ~ValidateBackup([backup EXCEPT !.revision = r])
    <3> DEFINE d == [backup EXCEPT !.revision = r]
    <3>1. d.revision = r /\ d.state.revision = backup.revision
      <4>1. d.revision = r /\ d.state = backup.state
        BY <2>1, ExceptHead
      <4>2. backup.state.revision = backup.revision
        BY <2>1, BackupFields
      <4> QED
        BY <4>1, <4>2, Zenon
    <3>2. ~ValidateBackup(d)
      <4> HIDE DEF d
      <4> QED
        BY <2>3, <3>1 DEF ValidateBackup
    <3> QED
      BY <3>2
  <2>4. ASSUME backup.auditHead # <<>>
        PROVE  ~ValidateBackup([backup EXCEPT !.auditHead = <<>>])
    <3> DEFINE d == [backup EXCEPT !.auditHead = <<>>]
    <3>1. /\ d.auditHead = <<>> /\ d.state.audit = Audit(s)
          /\ backup.auditHead = AuditHead(Audit(s))
      <4>1. d.auditHead = <<>> /\ d.state = backup.state
        BY <2>1, ExceptHead
      <4>2. backup.state.audit = Audit(s) /\ backup.auditHead = AuditHead(Audit(s))
        BY <2>1, BackupFields
      <4> QED
        BY <4>1, <4>2, Zenon
    <3>2. Audit(s) # <<>>
      BY <2>4, <3>1 DEF AuditHead
    <3>3. ~ValidateBackup(d)
      <4> HIDE DEF d
      <4> QED
        BY <2>4, <3>1, <3>2 DEF ValidateBackup
    <3> QED
      BY <3>3
  <2> QED
    BY <2>2, <2>3, <2>4
<1> QED
  BY <1>1, BackupsInOrder, PTL

----------------------------------------------------------------------------
(* Walks through the pages of a listing.                                   *)

\* What a client that follows the cursors has got, once and in order: all it
\* is owed up to the cursor, and of an audit all there is up to what it got.
WalkOK ==
  /\ walk.phase \in {"none", "next", "done"} /\ walk.cursor \in Nat
  /\ walk.got \subseteq Listing(walk.lot, promised)
  /\ walk.since \subseteq Listing(walk.lot, promised)
  /\ walk.twice = {}
  /\ walk.phase = "none" => walk.cursor = 0 /\ walk.got = {} /\ walk.since = {}
  /\ walk.phase = "next" =>
       /\ \E e \in walk.got : e.key = walk.cursor
       /\ \A e \in walk.got : e.key <= walk.cursor
       /\ \A e \in walk.since : e.key <= walk.cursor => e \in walk.got
  /\ walk.phase = "done" => walk.since \subseteq walk.got
  /\ walk.lot # NoLot =>
       \A e \in Listing(walk.lot, promised), d \in walk.got :
         e.key <= d.key => e \in walk.got

\* Between its pages the state goes on.
LEMMA WalkWaits ==
  ASSUME NEW p \in State, promised \in State, p = promised', Agree(promised, p),
         walk' = walk, WalkOK
  PROVE  WalkOK'
<1>1. /\ Listing(walk.lot, promised) \subseteq Listing(walk.lot, p)
      /\ walk.lot # NoLot =>
           \A e \in Listing(walk.lot, p) :
             e.key <= Len(promised) => e \in Listing(walk.lot, promised)
  BY ListingGrows
<1>2. ASSUME walk.lot # NoLot, NEW e \in Listing(walk.lot, p), NEW d \in walk.got,
             e.key <= d.key
      PROVE  e \in walk.got
  <2>1. d.key <= Len(promised) /\ d.key \in Nat
    BY <1>2, ListingFacts DEF WalkOK
  <2>2. e.key \in Nat /\ Len(promised) \in Nat
    BY ListingFacts, StateLen
  <2>3. e \in Listing(walk.lot, promised)
    BY <1>1, <1>2, <2>1, <2>2
  <2> QED
    BY <1>2, <2>3 DEF WalkOK
<1>3. walk.got \subseteq Listing(walk.lot, p) /\ walk.since \subseteq Listing(walk.lot, p)
  BY <1>1 DEF WalkOK
<1> QED
  BY <1>2, <1>3 DEF WalkOK

\* A page adds what comes after the cursor, as far as the next one.
LEMMA PageKeeps ==
  ASSUME NEW lot, NEW p \in State, ReadPage(lot), promised = p, promised' = p, mem = p, WalkOK
  PROVE  WalkOK'
<1> DEFINE L == Listing(lot, p)
           page == Page(L, walk.cursor)
<1>1. /\ IsFiniteSet(L) /\ \A e \in L : e.key \in Nat \ {0}
      /\ \A d, e \in L : d.key = e.key => d = e
  BY ListingFacts
<1>2. /\ page.out \subseteq L /\ \A e \in page.out : e.key > walk.cursor
      /\ \A d \in L, e \in page.out : d.key > walk.cursor /\ d.key <= e.key => d \in page.out
      /\ page.next \in Nat
      /\ page.next = 0 => \A d \in L : d.key > walk.cursor => d \in page.out
      /\ page.next # 0 =>
           /\ \E e \in page.out : e.key = page.next
           /\ \A e \in page.out : e.key <= page.next
  <2>1. walk.cursor \in Nat
    BY DEF WalkOK
  <2>2. \A e \in L : e.key \in Nat
    BY <1>1
  <2> HIDE DEF L
  <2> QED
    BY <1>1, <2>1, <2>2, PageFacts
<1>3. walk' = [phase  |-> IF page.next = 0 THEN "done" ELSE "next",
               lot    |-> lot, cursor |-> page.next,
               got    |-> walk.got \cup page.out,
               twice  |-> walk.twice \cup (walk.got \cap page.out),
               since  |-> IF walk.phase = "none" THEN L ELSE walk.since]
  BY DEF ReadPage
<1> HIDE DEF L, page
<1>4. /\ walk'.phase = (IF page.next = 0 THEN "done" ELSE "next")
      /\ walk'.lot = lot /\ walk'.cursor = page.next
      /\ walk'.got = walk.got \cup page.out
      /\ walk'.twice = walk.twice \cup (walk.got \cap page.out)
      /\ walk'.since = (IF walk.phase = "none" THEN L ELSE walk.since)
  BY <1>3
<1>5. walk.phase = "none" \/ (walk.phase = "next" /\ lot = walk.lot)
  BY DEF ReadPage, NoReader
<1>6. /\ walk.cursor \in Nat /\ walk.got \subseteq L /\ walk.twice = {}
      /\ \A e \in walk.got : e.key <= walk.cursor /\ e.key \in Nat
      /\ walk'.since \subseteq L
      /\ \A e \in walk'.since : e.key <= walk.cursor => e \in walk.got
      /\ walk.got # {} => \E e \in walk.got : e.key = walk.cursor
  <2>1. CASE walk.phase = "none"
    BY <1>1, <1>4, <2>1 DEF WalkOK
  <2>2. CASE walk.phase = "next" /\ lot = walk.lot
    BY <1>1, <1>4, <2>2 DEF WalkOK, L
  <2> QED
    BY <1>5, <2>1, <2>2
<1>7. walk'.got \subseteq L /\ walk'.twice = {} /\ walk'.cursor \in Nat
  <2>1. ASSUME NEW e \in walk.got, e \in page.out PROVE FALSE
    BY <1>2, <1>6, <2>1
  <2> QED
    BY <1>2, <1>4, <1>6, <2>1
<1>8. ASSUME page.next # 0
      PROVE  /\ \E e \in walk'.got : e.key = walk'.cursor
             /\ \A e \in walk'.got : e.key <= walk'.cursor
             /\ \A e \in walk'.since : e.key <= walk'.cursor => e \in walk'.got
  <2>1. PICK f \in page.out : f.key = page.next
    BY <1>2, <1>8
  <2>2. f.key \in Nat /\ f.key > walk.cursor /\ f \in L
    BY <1>1, <1>2
  <2>3. \A e \in walk'.got : e.key <= walk'.cursor
    BY <1>2, <1>4, <1>6, <1>8, <2>1, <2>2
  <2>4. ASSUME NEW e \in walk'.since, e.key <= walk'.cursor PROVE e \in walk'.got
    <3>1. e \in L /\ e.key \in Nat
      BY <1>1, <1>6
    <3>2. CASE e.key <= walk.cursor
      BY <1>4, <1>6, <3>2
    <3>3. CASE e.key > walk.cursor
      BY <1>2, <1>4, <2>1, <2>4, <3>1, <3>3
    <3> QED
      BY <1>6, <3>1, <3>2, <3>3
  <2> QED
    BY <1>4, <2>1, <2>3, <2>4
<1>9. ASSUME page.next = 0, NEW e \in walk'.since
      PROVE  e \in walk'.got
  <2>1. e \in L /\ e.key \in Nat
    BY <1>1, <1>6
  <2> QED
    BY <1>2, <1>4, <1>6, <1>9, <2>1
<1>10. ASSUME lot # NoLot, NEW e \in L, NEW d \in walk'.got, e.key <= d.key
       PROVE  e \in walk'.got
  <2>1. e.key \in Nat /\ d.key \in Nat
    BY <1>1, <1>7
  <2>2. CASE e.key > walk.cursor
    <3>1. d \in page.out
      BY <1>4, <1>6, <1>10, <2>1, <2>2
    <3> QED
      BY <1>2, <1>4, <1>10, <2>2, <3>1
  <2>3. CASE e.key <= walk.cursor
    <3>1. CASE walk.phase = "none"
      <4>1. walk.cursor = 0
        BY <3>1 DEF WalkOK
      <4> QED
        BY <1>1, <2>3, <4>1
    <3>2. CASE walk.phase = "next" /\ lot = walk.lot
      <4>1. PICK f \in walk.got : f.key = walk.cursor
        BY <3>2 DEF WalkOK
      <4>2. e \in walk.got
        BY <1>10, <2>3, <3>2, <4>1 DEF WalkOK, L
      <4> QED
        BY <1>4, <4>2
    <3> QED
      BY <1>5, <3>1, <3>2
  <2> QED
    BY <1>6, <2>1, <2>2, <2>3
<1>11. walk'.phase \in {"next", "done"} /\ (walk'.phase = "next" <=> page.next # 0)
  BY <1>4
<1>12. Listing(walk'.lot, promised') = L /\ walk'.lot = lot
  BY <1>4 DEF L
<1> QED
  BY <1>6, <1>7, <1>8, <1>9, <1>10, <1>11, <1>12 DEF WalkOK

\* A client that follows the cursors misses nothing that was there when it
\* began, gets nothing twice and nothing that is not there; of an audit, which
\* grows at its end only, it also gets all that was added before what it got
\* last (ListLots and Audit beside Update, load and Compact).
THEOREM WalksSeeAll ==
  ASSUME "power" \notin Faults
  PROVE  ReadersSpec => []WalkSeesAll
<1>1. ReadersInit => WalkOK
  BY DEF ReadersInit, WalkOK
<1>2. TypeOK /\ TypeOK' /\ IInv /\ WalkOK /\ [ReadersNext]_allVars => WalkOK'
  <2> SUFFICES ASSUME TypeOK, TypeOK', IInv, WalkOK, [ReadersNext]_allVars
               PROVE  WalkOK'
    OBVIOUS
  <2>1. promised \in State /\ promised' \in State /\ Agree(promised, promised')
    BY PromiseGrows
  <2>2. CASE walk' = walk
    BY <2>1, <2>2, WalkWaits
  <2>3. ASSUME NEW lot \in {NoLot} \cup {LotOf[t] : t \in Tx}, ReadPage(lot)
        PROVE  WalkOK'
    <3>1. mem = promised /\ mem \in State /\ promised' = promised
      BY <2>3, WhatIsRead DEF ReadPage, vars
    <3> QED
      BY <2>3, <3>1, PageKeeps
  <2> QED
    BY <2>2, <2>3 DEF ReadersNext, WriteBackup, readers, allVars
<1>3. WalkOK => WalkSeesAll
  BY DEF WalkOK, WalkSeesAll
<1> QED
  BY <1>1, <1>2, <1>3, ReadersRunTheStore, TypeCorrect, FilesInOrder, PTL DEF ReadersSpec

=============================================================================

--------------------------- MODULE SymTableProofs ---------------------------
(***************************************************************************)
(* Proofs about SymTable for tables of every length, every hash function   *)
(* and every number of buckets.                                            *)
(***************************************************************************)
EXTENDS SymTable, TLAPS

\* Where the loops over a chain are: the walk to the end of a chain stays among the
\* entries of the new entry's bucket, and a search has passed no match.
Walk ==
  /\ pc \in {"load", "append"} => searches = 0
  /\ \A i \in Index : i > len => chain[i] = NoIndex
  /\ pc = "append" => n \in 1 .. len /\ Bucket(keys[n]) = Bucket(keys[len + 1])
  /\ pc = "search" /\ n # NoIndex =>
       n \in 1 .. len /\ Bucket(keys[n]) = Bucket(key) /\ \A m \in 1 .. n - 1 : ~Matches(m, key)
  /\ pc = "search" /\ n = NoIndex => \A m \in 1 .. len : ~Matches(m, key)

IInv == TypeOK /\ ChainsComplete /\ Walk /\ SearchFinds

\* A name's bucket is one of the buckets.
LEMMA BucketType == \A k \in Key : Bucket(k) \in 0 .. Buckets - 1
  BY SymAssumption DEF Bucket

\* Names that match are in the same bucket.
LEMMA MatchBucket ==
  ASSUME TypeOK, NEW i \in Index, NEW k \in Key, Matches(i, k)
  PROVE  Bucket(keys[i]) = Bucket(k)
  BY DEF Matches, Bucket

\* The indices of a table are 1 .. Len(keys).
LEMMA Indices ==
  ASSUME TypeOK
  PROVE  /\ Index = 1 .. Len(keys) /\ Len(keys) \in Nat
         /\ keys \in [Index -> Key]
  BY SymAssumption DEF TypeOK, Index

\* An empty table has complete chains.
LEMMA InitIInv == Init => IInv
<1> SUFFICES ASSUME Init PROVE IInv
  OBVIOUS
<1>1. Index = 1 .. Len(keys) /\ Len(keys) \in Nat
  BY SymAssumption DEF Init, Index
<1>2. TypeOK
  BY <1>1, SymAssumption DEF Init, TypeOK, Link, NoIndex
<1>3. ChainsComplete
  BY DEF Init, ChainsComplete, Follows
<1>4. Walk
  BY DEF Init, Walk
<1>5. SearchFinds
  BY DEF Init, SearchFinds
<1> QED BY <1>2, <1>3, <1>4, <1>5 DEF IInv

\* An entry that opens its bucket, or starts the walk to the chain's end.
LEMMA InsertIInv == ASSUME IInv, Insert PROVE IInv'
<1> DEFINE b == Bucket(keys[len + 1])
<1> USE DEF IInv
<1>1. /\ Index = 1 .. Len(keys) /\ Len(keys) \in Nat /\ keys \in [Index -> Key]
      /\ len \in Nat /\ len + 1 \in Index /\ UNCHANGED <<keys, chain, key, result, searches>>
      /\ pc = "load"
  BY Indices DEF Insert, TypeOK
<1>2. b \in 0 .. Buckets - 1
  BY <1>1, BucketType
<1>3. CASE buckets[b] = NoIndex
  <2>1. /\ buckets' = [buckets EXCEPT ![b] = len + 1]
        /\ len' = len + 1 /\ UNCHANGED <<n, pc>>
    BY <1>3, <1>1 DEF Insert
  <2>2. TypeOK'
    BY <2>1, <1>1, <1>2 DEF TypeOK, Link, Index
  <2>3. \A m \in 1 .. len : Bucket(keys[m]) # b
    BY <1>1, <1>2, <1>3, SymAssumption DEF ChainsComplete, Follows, NoIndex
  <2>4. ASSUME NEW c \in 0 .. Buckets - 1 PROVE Follows(0, buckets[c], c)'
    <3>1. Follows(0, buckets[c], c)
      BY DEF ChainsComplete
    <3>2. CASE c = b
      <4>1. buckets'[c] = len + 1
        BY <2>1, <1>2, <3>2 DEF TypeOK
      <4> QED BY <4>1, <3>2, <2>1, <2>3, <1>1 DEF Follows
    <3>3. CASE c # b
      <4>1. buckets'[c] = buckets[c]
        BY <2>1, <3>3 DEF TypeOK
      <4> HIDE DEF b
      <4>2. Bucket(keys[len + 1]) # c
        BY <3>3 DEF b
      <4> QED BY <4>1, <4>2, <3>1, <2>1, <1>1 DEF Follows
    <3> QED BY <3>2, <3>3
  <2>5. ASSUME NEW i \in 1 .. len' PROVE Follows(i, chain[i], Bucket(keys[i]))'
    <3>1. CASE i = len + 1
      <4>1. chain'[i] = NoIndex
        BY <3>1, <1>1 DEF Walk
      <4> QED BY <4>1, <3>1, <2>1, <1>1 DEF Follows
    <3>2. CASE i # len + 1
      <4>1. i \in 1 .. len
        BY <3>2, <2>1, <1>1
      <4>2. Follows(i, chain[i], Bucket(keys[i]))
        BY <4>1 DEF ChainsComplete
      <4>3. Bucket(keys[len + 1]) # Bucket(keys[i])
        BY <2>3, <4>1
      <4> QED BY <4>1, <4>2, <4>3, <2>1, <1>1 DEF Follows
    <3> QED BY <3>1, <3>2
  <2>6. ChainsComplete'
    BY <2>4, <2>5, <1>1 DEF ChainsComplete
  <2>7. Walk' /\ SearchFinds'
    BY <2>1, <1>1 DEF Walk, SearchFinds, Index
  <2> QED BY <2>2, <2>6, <2>7
<1>4. CASE buckets[b] # NoIndex
  <2>1. /\ n' = buckets[b] /\ pc' = "append" /\ UNCHANGED <<buckets, len>>
        /\ len < Len(keys)
    BY <1>4, <1>1 DEF Insert
  <2>2. n' \in 1 .. len /\ Bucket(keys[n']) = b
    BY <2>1, <1>1, <1>2, <1>4 DEF ChainsComplete, Follows
  <2>3. TypeOK'
    BY <2>1, <2>2, <1>1 DEF TypeOK, Link, Index, NoIndex
  <2>4. ChainsComplete' /\ SearchFinds'
    BY <2>1, <1>1 DEF ChainsComplete, Follows, SearchFinds
  <2>5. Walk'
    BY <2>1, <2>2, <1>1 DEF Walk, Index
  <2> QED BY <2>3, <2>4, <2>5
<1> QED BY <1>3, <1>4

\* A step of the walk, and the entry put at the chain's end.
LEMMA AppendIInv == ASSUME IInv, AppendStep PROVE IInv'
<1> USE DEF IInv
<1>1. /\ Index = 1 .. Len(keys) /\ Len(keys) \in Nat /\ keys \in [Index -> Key]
      /\ len \in Nat /\ len + 1 \in Index /\ UNCHANGED <<keys, buckets, key, result, searches>>
      /\ n \in 1 .. len /\ n \in Index /\ Bucket(keys[n]) = Bucket(keys[len + 1])
      /\ pc = "append"
  BY Indices DEF AppendStep, TypeOK, Walk
<1>2. Follows(n, chain[n], Bucket(keys[len + 1]))
  BY <1>1 DEF ChainsComplete
<1>3. CASE chain[n] # NoIndex
  <2>1. n' = chain[n] /\ UNCHANGED <<chain, len, pc>>
    BY <1>1, <1>3 DEF AppendStep
  <2>2. n' \in n + 1 .. len /\ Bucket(keys[n']) = Bucket(keys[len + 1])
    BY <1>2, <1>3, <2>1 DEF Follows
  <2>3. TypeOK'
    BY <2>1, <2>2, <1>1 DEF TypeOK, Link, Index, NoIndex
  <2>4. ChainsComplete' /\ SearchFinds'
    BY <2>1, <1>1 DEF ChainsComplete, Follows, SearchFinds
  <2>5. Walk'
    BY <2>1, <2>2, <1>1 DEF Walk, Index
  <2> QED BY <2>3, <2>4, <2>5
<1>4. CASE chain[n] = NoIndex
  <2>1. /\ chain' = [chain EXCEPT ![n] = len + 1] /\ len' = len + 1
        /\ pc' = "load" /\ UNCHANGED n
    BY <1>1, <1>4 DEF AppendStep
  <2>2. \A m \in n + 1 .. len : Bucket(keys[m]) # Bucket(keys[len + 1])
    BY <1>2, <1>4, <1>1 DEF Follows, NoIndex
  <2>3. TypeOK'
    BY <2>1, <1>1 DEF TypeOK, Link, Index
  <2>4. ASSUME NEW c \in 0 .. Buckets - 1 PROVE Follows(0, buckets[c], c)'
    <3>1. Follows(0, buckets[c], c)
      BY DEF ChainsComplete
    <3>2. buckets[c] = NoIndex => c # Bucket(keys[len + 1])
      BY <3>1, <1>1 DEF Follows, NoIndex
    <3> QED BY <3>1, <3>2, <2>1, <1>1 DEF Follows
  <2>5. ASSUME NEW i \in 1 .. len' PROVE Follows(i, chain[i], Bucket(keys[i]))'
    <3>1. CASE i = len + 1
      <4>1. chain'[i] = NoIndex
        BY <3>1, <2>1, <1>1 DEF Walk, TypeOK
      <4> QED BY <4>1, <3>1, <2>1, <1>1 DEF Follows
    <3>2. CASE i = n
      <4>1. chain'[i] = len + 1
        BY <3>2, <2>1, <1>1 DEF TypeOK
      <4> QED BY <4>1, <3>2, <2>1, <2>2, <1>1 DEF Follows
    <3>3. CASE i # len + 1 /\ i # n
      <4>1. i \in 1 .. len /\ chain'[i] = chain[i]
        BY <3>3, <2>1, <1>1 DEF TypeOK
      <4>2. Follows(i, chain[i], Bucket(keys[i]))
        BY <4>1 DEF ChainsComplete
      <4>3. chain[i] = NoIndex => Bucket(keys[len + 1]) # Bucket(keys[i])
        <5>1. SUFFICES ASSUME chain[i] = NoIndex, Bucket(keys[len + 1]) = Bucket(keys[i])
                       PROVE  FALSE
          OBVIOUS
        <5>2. \A m \in i + 1 .. len : Bucket(keys[m]) # Bucket(keys[i])
          BY <5>1, <4>2, <4>1, <1>1 DEF Follows, NoIndex
        <5>3. i < n \/ n < i
          BY <3>3, <4>1, <1>1
        <5> QED BY <5>1, <5>2, <5>3, <2>2, <4>1, <1>1
      <4> QED BY <4>1, <4>2, <4>3, <2>1, <1>1 DEF Follows
    <3> QED BY <3>1, <3>2, <3>3
  <2>6. ChainsComplete'
    BY <2>4, <2>5, <1>1 DEF ChainsComplete
  <2>7. Walk' /\ SearchFinds'
    BY <2>1, <1>1 DEF Walk, SearchFinds, Index, TypeOK
  <2> QED BY <2>3, <2>6, <2>7
<1> QED BY <1>3, <1>4

\* A search starts at the head of the bucket of its name.
LEMMA SearchIInv == ASSUME IInv, Search PROVE IInv'
<1> USE DEF IInv
<1>1. /\ Index = 1 .. Len(keys) /\ Len(keys) \in Nat /\ keys \in [Index -> Key]
      /\ len \in Nat /\ UNCHANGED <<keys, len, buckets, chain>>
      /\ key' \in Key /\ searches' = searches + 1 /\ pc = "ready"
  BY Indices DEF Search, TypeOK
<1>2. ChainsComplete'
  BY <1>1 DEF ChainsComplete, Follows
<1>3. CASE len = 0 /\ result' = NoIndex /\ UNCHANGED <<n, pc>>
  <2>1. TypeOK'
    BY <1>1, <1>3, SymAssumption DEF TypeOK, Search, Link, Index
  <2>2. Walk'
    BY <1>1, <1>3 DEF Walk, Index
  <2>3. SearchFinds'
    BY <1>1, <1>3 DEF SearchFinds, IsFirst
  <2> QED BY <1>2, <2>1, <2>2, <2>3
<1>4. CASE /\ len # 0 /\ n' = buckets[Bucket(key')] /\ pc' = "search" /\ UNCHANGED result
  <2>1. Bucket(key') \in 0 .. Buckets - 1
    BY <1>1, BucketType
  <2>2. Follows(0, n', Bucket(key'))
    BY <2>1, <1>4 DEF ChainsComplete
  <2>3. TypeOK'
    BY <1>1, <1>4, <2>1, SymAssumption DEF TypeOK, Search, Link, Index
  <2>4. \A m \in Index : Matches(m, key') => Bucket(keys[m]) = Bucket(key')
    BY <1>1, MatchBucket
  <2>5. \A m \in 1 .. len : m \in Index
    BY <1>1 DEF TypeOK
  <2>6. Walk'
    <3>1. n' # NoIndex => n' \in 1 .. len /\ Bucket(keys[n']) = Bucket(key')
                          /\ \A m \in 1 .. n' - 1 : ~Matches(m, key')
      BY <2>2, <2>4, <2>5, <1>1 DEF Follows
    <3>2. n' = NoIndex => \A m \in 1 .. len : ~Matches(m, key')
      BY <2>2, <2>4, <2>5, <1>1 DEF Follows, NoIndex
    <3> QED BY <3>1, <3>2, <1>1, <1>4 DEF Walk, Matches, Index
  <2>7. SearchFinds'
    BY <1>4 DEF SearchFinds
  <2> QED BY <1>2, <2>3, <2>6, <2>7
<1> QED BY <1>3, <1>4 DEF Search

\* A step of a search, or its result.
LEMMA SearchStepIInv == ASSUME IInv, SearchStep PROVE IInv'
<1> USE DEF IInv
<1>1. /\ Index = 1 .. Len(keys) /\ Len(keys) \in Nat /\ keys \in [Index -> Key]
      /\ len \in Nat /\ len <= Len(keys) /\ key \in Key /\ pc = "search"
      /\ UNCHANGED <<keys, len, buckets, chain, key, searches>>
  BY Indices DEF SearchStep, TypeOK
<1>2. ChainsComplete'
  BY <1>1 DEF ChainsComplete, Follows
<1>3. CASE (n # NoIndex => Matches(n, key)) /\ result' = n /\ pc' = "ready" /\ UNCHANGED n
  <2>1. TypeOK' /\ Walk'
    BY <1>1, <1>3 DEF TypeOK, Walk, Link, Index
  <2>2. IsFirst(n, key)
    BY <1>1, <1>3 DEF Walk, IsFirst
  <2>3. SearchFinds'
    BY <2>2, <1>1, <1>3 DEF SearchFinds, IsFirst, Matches
  <2> QED BY <1>2, <2>1, <2>3
<1>4. CASE n # NoIndex /\ ~Matches(n, key) /\ n' = chain[n] /\ UNCHANGED <<pc, result>>
  <2>1. /\ n \in 1 .. len /\ n \in Index /\ Bucket(keys[n]) = Bucket(key)
        /\ \A m \in 1 .. n - 1 : ~Matches(m, key)
    BY <1>1, <1>4 DEF Walk
  <2>2. Follows(n, n', Bucket(key))
    BY <2>1, <1>4 DEF ChainsComplete
  <2>3. TypeOK'
    BY <2>1, <1>1, <1>4 DEF TypeOK, Link, Index
  <2>4. \A m \in 1 .. len : Matches(m, key) => Bucket(keys[m]) = Bucket(key)
    BY <1>1, MatchBucket
  <2>5. \A m \in 1 .. n : ~Matches(m, key)
    BY <2>1, <1>4
  <2>6. Walk'
    <3>1. n' # NoIndex => n' \in 1 .. len /\ Bucket(keys[n']) = Bucket(key)
                          /\ \A m \in 1 .. n' - 1 : ~Matches(m, key)
      BY <2>1, <2>2, <2>4, <2>5, <1>1 DEF Follows
    <3>2. n' = NoIndex => \A m \in 1 .. len : ~Matches(m, key)
      BY <2>1, <2>2, <2>4, <2>5, <1>1 DEF Follows, NoIndex
    <3> QED BY <3>1, <3>2, <1>1, <1>4 DEF Walk, Matches, Index
  <2>7. SearchFinds'
    BY <1>1, <1>4 DEF SearchFinds
  <2> QED BY <1>2, <2>3, <2>6, <2>7
<1> QED BY <1>3, <1>4 DEF SearchStep

\* The end of the entries, and steps that change nothing.
LEMMA OtherIInv == ASSUME IInv, Loaded \/ UNCHANGED vars PROVE IInv'
<1>1. UNCHANGED <<keys, len, buckets, chain, n, key, result, searches>>
  BY DEF Loaded, vars
<1>2. Index' = Index /\ ChainsComplete'
  BY <1>1 DEF IInv, Index, ChainsComplete, Follows
<1>3. TypeOK'
  BY <1>1 DEF IInv, TypeOK, Loaded, vars, Link, Index
<1>4. Walk'
  BY <1>1, <1>2 DEF IInv, Walk, Loaded, vars, Matches
<1>5. SearchFinds'
  BY <1>1 DEF IInv, Walk, SearchFinds, IsFirst, Loaded, vars, Matches
<1> QED BY <1>2, <1>3, <1>4, <1>5 DEF IInv

\* The invariant: type, complete chains, and what the loops over a chain know.
THEOREM Invariance == Spec => []IInv
<1>1. Init => IInv
  BY InitIInv
<1>2. IInv /\ [Next]_vars => IInv'
  BY InsertIInv, AppendIInv, SearchIInv, SearchStepIInv, OtherIInv
     DEF Next, Step, Finished
<1> QED BY <1>1, <1>2, PTL DEF Spec

\* The indices that the loops and the links of the chains use stay in the table.
THEOREM TypeCorrect == Spec => []TypeOK
<1>1. IInv => TypeOK
  BY DEF IInv
<1> QED BY <1>1, Invariance, PTL

\* However the names hash, no entry is lost from the chain of its bucket, while the
\* table is built or after.
THEOREM NoEntryLost == Spec => []ChainsComplete
<1>1. IInv => ChainsComplete
  BY DEF IInv
<1> QED BY <1>1, Invariance, PTL

\* _tagha_key_get_item finds the first entry that matches the name, and none only if
\* no entry does.
THEOREM SearchCorrect == Spec => []SearchFinds
<1>1. IInv => SearchFinds
  BY DEF IInv
<1> QED BY <1>1, Invariance, PTL
=============================================================================

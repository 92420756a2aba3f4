------------------------------ MODULE SymTable ------------------------------
(***************************************************************************)
(* The symbol table of a module (struct TaghaSymTable): built once, entry   *)
(* by entry, when the module is loaded, and searched by name afterwards.    *)
(* Entries are hashed into buckets; a bucket holds the index of its first   *)
(* entry and chain[i] the index of the entry after i, in the order of       *)
(* loading.  _setup_func_table and _setup_var_table build it alike.         *)
(* The loops over a chain are modelled one iteration at a time.             *)
(***************************************************************************)
EXTENDS Integers, Sequences

CONSTANTS
  Key,      \* symbol names
  Hash,     \* Hash[k]: string_hash of the name k
  Buckets,  \* TAGHA_SYM_BUCKETS
  Tables,   \* possible contents: the names of a module's entries, in order
  Searches  \* bound: lookups made

ASSUME SymAssumption ==
  /\ Hash \in [Key -> Nat]
  /\ Buckets \in Nat \ {0}
  /\ Tables \subseteq Seq(Key)
  /\ Searches \in Nat

NoIndex == -1    \* SIZE_MAX

VARIABLES
  keys,     \* keys[i]: name of entry i, fixed
  len,      \* entries inserted so far
  buckets,  \* first entry of each bucket
  chain,    \* next entry of the same bucket
  n,        \* index the loop over a chain has reached
  pc,       \* "load", "append" (walk to the end of a chain), "ready", "search"
  key,      \* name searched for
  result,   \* index found by the last search
  searches  \* searches made

vars == <<keys, len, buckets, chain, n, pc, key, result, searches>>

Index == DOMAIN keys
Link  == Index \cup {NoIndex}
Bucket(k) == Hash[k] % Buckets

Init ==
  /\ keys \in Tables
  /\ len = 0
  /\ buckets = [b \in 0 .. Buckets - 1 |-> NoIndex]
  /\ chain = [i \in Index |-> NoIndex]
  /\ n = NoIndex
  /\ pc = "load"
  /\ key \in Key
  /\ result = NoIndex
  /\ searches = 0
----------------------------------------------------------------------------
(* _setup_func_table, _setup_var_table.                                    *)

\* The next entry opens its bucket, or starts down the chain of the bucket.
Insert ==
  /\ pc = "load" /\ len < Len(keys)
  /\ LET b == Bucket(keys[len + 1]) IN
       \/ /\ buckets[b] = NoIndex
          /\ buckets' = [buckets EXCEPT ![b] = len + 1]
          /\ len' = len + 1
          /\ UNCHANGED <<n, pc>>
       \/ /\ buckets[b] # NoIndex
          /\ n' = buckets[b]
          /\ pc' = "append"
          /\ UNCHANGED <<buckets, len>>
  /\ UNCHANGED <<keys, chain, key, result, searches>>

\* Faulty: the walk is left out, the entry follows the first one of its bucket.
AppendAtHead ==
  /\ pc = "append"
  /\ chain' = [chain EXCEPT ![n] = len + 1]
  /\ len' = len + 1
  /\ pc' = "load"
  /\ UNCHANGED <<keys, buckets, n, key, result, searches>>

\* Faulty: the walk goes on past the end of the chain.
AppendPast ==
  /\ pc = "append"
  /\ n' = chain[n]
  /\ UNCHANGED <<keys, len, buckets, chain, pc, key, result, searches>>

\* Down the chain to its end, where the entry is put.
AppendStep ==
  /\ pc = "append"
  /\ \/ /\ chain[n] # NoIndex
        /\ n' = chain[n]
        /\ UNCHANGED <<chain, len, pc>>
     \/ /\ chain[n] = NoIndex
        /\ chain' = [chain EXCEPT ![n] = len + 1]
        /\ len' = len + 1
        /\ pc' = "load"
        /\ UNCHANGED n
  /\ UNCHANGED <<keys, buckets, key, result, searches>>

Loaded ==
  /\ pc = "load" /\ len = Len(keys)
  /\ pc' = "ready"
  /\ UNCHANGED <<keys, len, buckets, chain, n, key, result, searches>>
----------------------------------------------------------------------------
(* _tagha_key_get_item.                                                    *)

\* The comparison of the loop: hashes alike are taken for names alike.
Matches(i, k) == Hash[keys[i]] = Hash[k] \/ keys[i] = k

\* An empty table is not looked into.
Search ==
  /\ pc = "ready" /\ searches < Searches
  /\ searches' = searches + 1
  /\ \E k \in Key :
       /\ key' = k
       /\ \/ len = 0 /\ result' = NoIndex /\ UNCHANGED <<n, pc>>
          \/ len # 0 /\ n' = buckets[Bucket(k)] /\ pc' = "search" /\ UNCHANGED result
  /\ UNCHANGED <<keys, len, buckets, chain>>

\* Faulty: a search gives up at the first entry of another name.
SearchStepOnce ==
  /\ pc = "search"
  /\ result' = IF n # NoIndex /\ Matches(n, key) THEN n ELSE NoIndex
  /\ pc' = "ready"
  /\ UNCHANGED <<keys, len, buckets, chain, n, key, searches>>

\* Faulty: the search starts over at the head of the bucket.
SearchStepBack ==
  /\ pc = "search"
  /\ \/ /\ n # NoIndex => Matches(n, key)
        /\ result' = n
        /\ pc' = "ready"
        /\ UNCHANGED n
     \/ /\ n # NoIndex /\ ~Matches(n, key)
        /\ n' = buckets[Bucket(key)]
        /\ UNCHANGED <<pc, result>>
  /\ UNCHANGED <<keys, len, buckets, chain, key, searches>>

SearchStep ==
  /\ pc = "search"
  /\ \/ /\ n # NoIndex => Matches(n, key)
        /\ result' = n
        /\ pc' = "ready"
        /\ UNCHANGED n
     \/ /\ n # NoIndex /\ ~Matches(n, key)
        /\ n' = chain[n]
        /\ UNCHANGED <<pc, result>>
  /\ UNCHANGED <<keys, len, buckets, chain, key, searches>>

\* A state of the model: the bound on searches is reached.
Finished == pc = "ready" /\ searches = Searches /\ UNCHANGED vars

Step == Insert \/ AppendStep \/ Loaded \/ SearchStep
Next == Step \/ Search \/ Finished

Spec     == Init /\ [][Next]_vars
\* The loops run in one thread, without waiting for anything.
FairSpec == Spec /\ WF_vars(Step)
----------------------------------------------------------------------------
(* Properties.                                                             *)

TypeOK ==
  /\ keys \in Tables
  /\ len \in 0 .. Len(keys)
  /\ buckets \in [0 .. Buckets - 1 -> Link]
  /\ chain \in [Index -> Link]
  /\ n \in Link /\ (pc = "append" => n # NoIndex /\ len < Len(keys))
  /\ pc \in {"load", "append", "ready", "search"}
  /\ key \in Key
  /\ result \in Link
  /\ searches \in 0 .. Searches

\* What the searches rely on: j is the entry of bucket b that follows index i, 0 for
\* the head of the bucket, among the entries that have been inserted.
Follows(i, j, b) ==
  \/ /\ j \in i + 1 .. len /\ Bucket(keys[j]) = b
     /\ \A m \in i + 1 .. j - 1 : Bucket(keys[m]) # b
  \/ j = NoIndex /\ \A m \in i + 1 .. len : Bucket(keys[m]) # b

\* Every entry is on the chain of its bucket, once and in the order of loading, while
\* the table is being built as well: none is lost when buckets collide.
ChainsComplete ==
  /\ \A b \in 0 .. Buckets - 1 : Follows(0, buckets[b], b)
  /\ \A i \in 1 .. len : Follows(i, chain[i], Bucket(keys[i]))

\* The entry that a search for k is to find: the first one that matches.
IsFirst(i, k) ==
  \/ i \in 1 .. len /\ Matches(i, k) /\ \A m \in 1 .. i - 1 : ~Matches(m, k)
  \/ i = NoIndex /\ \A m \in 1 .. len : ~Matches(m, k)

\* A search finds the first entry of that name and reports none only if there is none.
SearchFinds == pc = "ready" /\ searches > 0 => IsFirst(result, key)

\* Loading and every search come to an end: no chain runs into itself.
Terminates == (pc # "ready") ~> (pc = "ready")
=============================================================================

------------------------------- MODULE KVHash -------------------------------
(***************************************************************************)
(* The hash table of kv_hash.c: chained buckets and a resize that doubles  *)
(* them.  Every operation takes the table's lock, but kv_ht_get reads the  *)
(* value of the element it has found after it has released it, and         *)
(* kv_ht_del chooses the bucket before it takes it.                        *)
(*                                                                         *)
(* An element is its key and its value; at most one element has a key, so  *)
(* the key also stands for the pointer to the element.                     *)
(***************************************************************************)
EXTENDS Integers, SequencesExt

CONSTANTS
  Caller,   \* the threads that call
  Key, Value,
  None,     \* NULL
  NoKey,    \* the key of a caller that is in no call
  Hash      \* hash_func, djb2 of the key's bytes

VARIABLES
  size,     \* the number of buckets
  count,    \* the number of elements the table counts
  table,    \* each bucket's chain
  call,     \* the key of a caller's get or deletion, NoKey outside one
  asked,    \* the size a deletion has read, 0 for a get
  reply     \* what a caller's last call returned

hashVars == <<size, count, table, call, asked, reply>>

\* kv_ht_create (2, ...)
HashInit ==
  /\ size = 2 /\ count = 0
  /\ table = [b \in 0 .. 1 |-> <<>>]
  /\ call = [t \in Caller |-> NoKey]
  /\ asked = [t \in Caller |-> 0]
  /\ reply = [t \in Caller |-> None]

(***************************************************************************)
(* Helpers.                                                                *)
(***************************************************************************)
HasKey(chain, k) == \E i \in DOMAIN chain : chain[i].key = k
IndexOf(chain, k) == CHOOSE i \in DOMAIN chain : chain[i].key = k

BucketOf(k, n) == Hash[k] % n
Chain(k) == table[BucketOf(k, size)]

\* kv_ht_foreach: the buckets one after the other.
Elements == FlattenSeq([i \in 1 .. size |-> table[i - 1]])

\* kv_ht_resize: the elements, in this order, to the ends of the new chains.
Resized(n) ==
  LET elems == Elements
      moved[i \in 0 .. Len(elems)] ==
        IF i = 0 THEN [b \in 0 .. n - 1 |-> <<>>]
        ELSE [moved[i - 1] EXCEPT ![BucketOf(elems[i].key, n)] = Append(@, elems[i])]
  IN  moved[Len(elems)]

Returns(t, v) ==
  /\ reply' = [reply EXCEPT ![t] = v]
  /\ call' = [call EXCEPT ![t] = NoKey]
  /\ asked' = [asked EXCEPT ![t] = 0]

(***************************************************************************)
(* kv_ht_get.                                                              *)
(***************************************************************************)
GetElem(t, k) ==
  /\ call[t] = NoKey
  /\ \/ /\ HasKey(Chain(k), k)
        /\ call' = [call EXCEPT ![t] = k]
        /\ UNCHANGED <<asked, reply>>
     \/ ~HasKey(Chain(k), k) /\ Returns(t, None)
  /\ UNCHANGED <<size, count, table>>

\* The value is read outside the lock; of a freed element it is anything.
GetValue(t) ==
  /\ call[t] # NoKey /\ asked[t] = 0
  /\ LET chain == Chain(call[t])
     IN  \/ HasKey(chain, call[t]) /\ Returns(t, chain[IndexOf(chain, call[t])].val)
         \/ ~HasKey(chain, call[t]) /\ \E v \in Value : Returns(t, v)
  /\ UNCHANGED <<size, count, table>>

(***************************************************************************)
(* kv_ht_set.                                                              *)
(***************************************************************************)
Replace(t, k, v) ==
  LET i == IndexOf(Chain(k), k)
  IN  /\ HasKey(Chain(k), k)
      /\ table' = [table EXCEPT ![BucketOf(k, size)][i].val = v]
      /\ Returns(t, Chain(k)[i].val)
      /\ UNCHANGED <<size, count>>

InsertStale(t, k, v) ==   \* mutant: the bucket is that of the old size
  LET n     == IF count > size THEN 2 * size ELSE size
      grown == IF count > size THEN Resized(n) ELSE table
  IN  /\ ~HasKey(Chain(k), k)
      /\ table' = [grown EXCEPT ![BucketOf(k, size)] = Append(@, [key |-> k, val |-> v])]
      /\ size' = n /\ count' = count + 1
      /\ Returns(t, None)

\* A new element goes to the end of its chain, when need be of a larger table.
Insert(t, k, v) ==
  LET n     == IF count > size THEN 2 * size ELSE size
      grown == IF count > size THEN Resized(n) ELSE table
  IN  /\ ~HasKey(Chain(k), k)
      /\ table' = [grown EXCEPT ![BucketOf(k, n)] = Append(@, [key |-> k, val |-> v])]
      /\ size' = n /\ count' = count + 1
      /\ Returns(t, None)

SetElem(t, k, v) == call[t] = NoKey /\ (Replace(t, k, v) \/ Insert(t, k, v))

(***************************************************************************)
(* kv_ht_del: the bucket, then the lock and the search.                    *)
(***************************************************************************)
ChooseBucket(t, k) ==
  /\ call[t] = NoKey
  /\ call' = [call EXCEPT ![t] = k]
  /\ asked' = [asked EXCEPT ![t] = size]
  /\ UNCHANGED <<size, count, table, reply>>

DeleteUncounted(t) ==   \* mutant: --count is only in one of the two branches
  LET b == BucketOf(call[t], asked[t]) IN
  /\ asked[t] # 0
  /\ HasKey(table[b], call[t])
  /\ LET i == IndexOf(table[b], call[t])
     IN  /\ table' = [table EXCEPT ![b] = RemoveAt(@, i)]
         /\ count' = IF i = 1 THEN count - 1 ELSE count
         /\ Returns(t, table[b][i].val)
  /\ UNCHANGED size

Delete(t) ==
  LET b == BucketOf(call[t], asked[t]) IN
  /\ asked[t] # 0
  /\ HasKey(table[b], call[t])
  /\ LET i == IndexOf(table[b], call[t])
     IN  /\ table' = [table EXCEPT ![b] = RemoveAt(@, i)]
         /\ count' = count - 1
         /\ Returns(t, table[b][i].val)
  /\ UNCHANGED size

NotFound(t) ==
  /\ asked[t] # 0
  /\ ~HasKey(table[BucketOf(call[t], asked[t])], call[t])
  /\ Returns(t, None)
  /\ UNCHANGED <<size, count, table>>

\* The steps of a call that has begun, and the first steps of one on key k.
Continue(t) == GetValue(t) \/ Delete(t) \/ NotFound(t)

Begin(t, k) ==
  GetElem(t, k) \/ ChooseBucket(t, k) \/ \E v \in Value : SetElem(t, k, v)

(***************************************************************************)
(* Properties.                                                             *)
(***************************************************************************)
Elem == [key : Key, val : Value]

\* Every key is at most once in the table and in the bucket it is looked for,
\* through every resize; and the elements are counted, so that the table never
\* holds more than one element more than it has buckets.
WellFormed ==
  /\ DOMAIN table = 0 .. size - 1
  /\ \A b \in 0 .. size - 1 :
       /\ table[b] \in Seq(Elem)
       /\ \A i, j \in DOMAIN table[b] :
            /\ BucketOf(table[b][i].key, size) = b
            /\ table[b][i].key = table[b][j].key => i = j
  /\ count = Len(Elements) /\ count <= size + 1

\* An element that a get has found stays in the table until its value is read,
\* outside the lock: nobody frees it.
FoundIsThere ==
  \A t \in Caller : call[t] # NoKey /\ asked[t] = 0 => HasKey(Chain(call[t]), call[t])

Deleting == {t \in Caller : asked[t] # 0}

Map == INSTANCE KVMap WITH
  map      <- [k \in Key |-> IF HasKey(Chain(k), k)
                             THEN Chain(k)[IndexOf(Chain(k), k)].val ELSE None],
  deleting <- Deleting,
  outgrown <- {t \in Deleting : asked[t] # size},
  answer   <- reply

\* Every call is one step on a map, but for a deletion whose bucket was chosen
\* before the table grew.
ImplementsMap == Map!Spec

\* kv_hash.h: of a deletion, "0: key not found, 1: deleted".  A key that is in
\* the table when it is searched is deleted.
DeletesWhatIsThere ==
  [][\A t \in Caller :
       asked[t] # 0 /\ asked'[t] = 0 /\ HasKey(Chain(call[t]), call[t])
         => reply'[t] # None]_hashVars
=============================================================================

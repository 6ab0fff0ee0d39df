--------------------------- MODULE EpisodicStore ---------------------------
(***************************************************************************)
(* The two stores of L2 memories, SimpleEpisodicStore (lists, near         *)
(* duplicates merged) and FaissEpisodicStore (an index nothing can be      *)
(* removed from).  A vector is known by the content it was computed from.  *)
(* What embedder, importance and access counts make of a query is left     *)
(* open: a retrieval may rank the entries in any order.  It changes only   *)
(* the access counts, so it is an operator here and not a step.            *)
(*                                                                         *)
(* The embedder may raise at any call.  That changes nothing except in     *)
(* SimpleEpisodicStore.add, which has appended the entry by then: the      *)
(* entry stays without a vector, and the vectors of all later entries lie  *)
(* one place too early.  The entries before it are still whole.            *)
(***************************************************************************)
EXTENDS Selection, SequencesExt, FiniteSets, FiniteSetsExt

CONSTANTS
    Branch,
    Id,             \* identifiers callers provide
    None,           \* none provided
    Content,
    Length,         \* the length of each content
    SimilarPairs,   \* the pairs of contents whose vectors are similar; a zero vector
                    \* is not even similar to itself
    MaxK,           \* bound: top_k is at most this
    MaxAdds         \* bound: calls of add on a branch

Similar(c, d) == <<c, d>> \in SimilarPairs \/ <<d, c>> \in SimilarPairs

ASSUME StoreAssumption ==
    /\ None \notin Id
    /\ Length \in [Content -> Nat]
    /\ SimilarPairs \subseteq Content \X Content
    /\ MaxK \in Nat

VARIABLES
    backend,    \* "simple" or "faiss"
    entries,    \* _entries: for each branch a sequence of [id, content]
    vectors,    \* _vectors or the index: for each branch a sequence of contents
    deleted,    \* _deleted_indices of "faiss"
    counter,    \* _counter of "simple"
    adds,       \* number of calls of add on each branch
    whole,      \* ghost: how many of the first entries were added before any failure
    failures,   \* ghost: number of calls of add that left an entry without vector
    told        \* ghost: <<id, content, w>> acknowledged by add and not deleted since,
                \* w if the entry was then among the whole ones

storeVars == <<backend, entries, vectors, deleted, counter, adds, whole, failures, told>>

StoreInit ==
    /\ backend \in {"simple", "faiss"}
    /\ entries = [b \in Branch |-> <<>>]
    /\ vectors = [b \in Branch |-> <<>>]
    /\ deleted = [b \in Branch |-> {}]
    /\ counter = 0
    /\ adds = [b \in Branch |-> 0]
    /\ whole = [b \in Branch |-> 0]
    /\ failures = [b \in Branch |-> 0]
    /\ told = [b \in Branch |-> {}]
-----------------------------------------------------------------------------
\* The indices of b whose entries have not been deleted.
Live(b) == DOMAIN entries[b] \ deleted[b]

\* Fault: the new vector is compared with those of the contents now held.
FaultyNearDuplicates(b, content) ==
    {i \in DOMAIN vectors[b] : Similar(content, entries[b][i].content)}

\* _find_near_duplicate returns the first of these entries.
NearDuplicates(b, content) ==
    {i \in DOMAIN vectors[b] : Similar(content, vectors[b][i])}

Counted(b) == adds[b] < MaxAdds /\ adds' = [adds EXCEPT ![b] = @ + 1] /\ UNCHANGED backend

Acknowledge(b, id, content, w) == told' = [told EXCEPT ![b] = @ \union {<<id, content, w>>}]

\* SimpleEpisodicStore.add: a near duplicate is merged into the entry it is like,
\* which keeps its id and its vector and takes the longer text.
MergeDuplicate(b, content) ==
    /\ backend = "simple" /\ NearDuplicates(b, content) # {}
    /\ LET i == Min(NearDuplicates(b, content))
           existing == entries[b][i]
       IN  /\ entries' = [entries EXCEPT ![b][i].content =
                              IF Length[content] > Length[@] THEN content ELSE @]
           /\ Acknowledge(b, existing.id, content, i <= whole[b])
    /\ Counted(b)
    /\ UNCHANGED <<vectors, deleted, counter, whole, failures>>

\* An id that is not provided is generated, from the counter of "simple" or from
\* the place in the index.
Given(b, id) ==
    IF id # None THEN id
    ELSE IF backend = "simple" THEN <<"l2-simple", counter'>>
    ELSE <<"faiss", b, Len(entries[b])>>

\* What add of either store does to the list of entries.
ListEntry(b, id, content) ==
    /\ backend = "simple" => NearDuplicates(b, content) = {}
    /\ counter' = IF backend = "simple" /\ id = None THEN counter + 1 ELSE counter
    /\ entries' = [entries EXCEPT ![b] = Append(@, [id |-> Given(b, id), content |-> content])]
    /\ Counted(b)
    /\ UNCHANGED deleted

\* add of either store: a new entry and its vector.
AppendEntry(b, id, content) ==
    /\ ListEntry(b, id, content)
    /\ vectors' = [vectors EXCEPT ![b] = Append(@, content)]
    /\ LET w == whole[b] = Len(entries[b])
       IN  /\ whole' = [whole EXCEPT ![b] = IF w THEN @ + 1 ELSE @]
           /\ Acknowledge(b, Given(b, id), content, w)
    /\ UNCHANGED failures

\* SimpleEpisodicStore.add whose last call of the embedder raises: the entry is
\* there and its vector is not, and the caller sees the exception.
EmbedderRaises(b, id, content) ==
    /\ backend = "simple"
    /\ ListEntry(b, id, content)
    /\ failures' = [failures EXCEPT ![b] = @ + 1]
    /\ UNCHANGED <<vectors, whole, told>>

Forget(b, id) ==
    /\ told' = [told EXCEPT ![b] = {m \in @ : m[1] # id}]
    /\ UNCHANGED <<backend, counter, adds, failures>>

Places(b, id) == {i \in DOMAIN entries[b] : entries[b][i].id = id}

\* Fault: the vector stays.
FaultyRemoveEntry(b, id) ==
    /\ backend = "simple" /\ Places(b, id) # {}
    /\ LET i == Min(Places(b, id))
       IN  /\ entries' = [entries EXCEPT ![b] = RemoveAt(@, i)]
           /\ whole' = [whole EXCEPT ![b] = IF i <= @ THEN @ - 1 ELSE @]
    /\ Forget(b, id)
    /\ UNCHANGED <<vectors, deleted>>

\* SimpleEpisodicStore.delete: the first entry with the id goes, and the vector at
\* its place; if there is none, the caller sees an exception, and the entry is gone.
RemoveEntry(b, id) ==
    /\ backend = "simple" /\ Places(b, id) # {}
    /\ LET i == Min(Places(b, id))
       IN  /\ entries' = [entries EXCEPT ![b] = RemoveAt(@, i)]
           /\ vectors' = [vectors EXCEPT ![b] =
                              IF i <= Len(@) THEN RemoveAt(@, i) ELSE @]
           /\ whole' = [whole EXCEPT ![b] = IF i <= @ THEN @ - 1 ELSE @]
    /\ Forget(b, id)
    /\ UNCHANGED deleted

\* FaissEpisodicStore.delete: the first entry with the id, which may have been
\* deleted before, is emptied and marked.
MarkDeleted(b, id) ==
    /\ backend = "faiss" /\ Places(b, id) # {}
    /\ LET i == Min(Places(b, id))
       IN  /\ entries' = [entries EXCEPT ![b][i].content = None]
           /\ deleted' = [deleted EXCEPT ![b] = @ \union {i}]
    /\ Forget(b, id)
    /\ UNCHANGED <<vectors, whole>>

\* Fault: entries marked deleted are returned.
FaultyHits(b, ranking, k) == SubSeq(ranking, 1, Min({k, Len(ranking)}))

\* The entries found: the best k of the ranking, of which "faiss" then leaves
\* out those that are deleted.
Hits(b, ranking, k) ==
    Kept(SubSeq(ranking, 1, Min({k, Len(ranking)})), Live(b))

\* Entries are ranked with the vectors beside them (zip): the last ones are left
\* out when vectors are missing.
Rankings(b) ==
    LET all == 1 .. Min({Len(entries[b]), Len(vectors[b])})
    IN  {r \in [all -> all] : IsInjective(r)}

\* retrieve of either store: the indices found.
retrieve(b, k) == {Hits(b, ranking, k) : ranking \in Rankings(b)}

StoreNext ==
    \E b \in Branch :
        \/ \E c \in Content : MergeDuplicate(b, c)
        \/ \E c \in Content, id \in Id \union {None} :
                AppendEntry(b, id, c) \/ EmbedderRaises(b, id, c)
        \/ \E id \in {entries[b][i].id : i \in DOMAIN entries[b]} :
                RemoveEntry(b, id) \/ MarkDeleted(b, id)
-----------------------------------------------------------------------------
\* What an entry says and what its vector was computed from are one or similar.
SaysTheSame(c, d) == c = d \/ Similar(c, d)

\* Every whole entry that has not been deleted can be found by what it says: the
\* vector at its place is that of its content or of a similar one, through any
\* merges and deletions and whatever the embedder failed at later.  As long as it
\* has not failed on a branch, all entries are whole and there is no other vector.
VectorsMatchEntries ==
    \A b \in Branch :
        /\ whole[b] <= Len(vectors[b]) /\ Len(vectors[b]) <= Len(entries[b])
        /\ failures[b] = 0 => whole[b] = Len(entries[b])
        /\ \A i \in Live(b) : i <= whole[b] => SaysTheSame(entries[b][i].content, vectors[b][i])

\* What add has acknowledged under an id and nobody has asked to delete under that
\* id is still there: an entry with the id, and if the entry was whole, a vector
\* like that of the content.
NothingToldIsLost ==
    \A b \in Branch : \A m \in told[b] :
        \E i \in Live(b) :
            /\ entries[b][i].id = m[1]
            /\ m[3] => i <= Len(vectors[b]) /\ SaysTheSame(m[2], vectors[b][i])

\* More than the code promises: also the entries acknowledged after a failure of
\* the embedder can be found by what they say.  They lie beside the vector of
\* another entry, or of none.
EverythingToldIsFound ==
    \A b \in Branch : \A m \in told[b] :
        \E i \in Live(b) :
            entries[b][i].id = m[1] /\ i <= Len(vectors[b]) /\ SaysTheSame(m[2], vectors[b][i])

\* A retrieval returns entries that are not deleted, and as many as were asked
\* for or there are; "faiss" may miss one for each entry that was deleted, because
\* deleted entries still take places among the best, and "simple" one for each
\* vector that is missing.
RetrievalIsFull ==
    \A b \in Branch, k \in 1 .. MaxK : \A hits \in retrieve(b, k) :
        /\ ToSet(hits) \subseteq Live(b)
        /\ Len(hits) + Cardinality(deleted[b]) + (Len(entries[b]) - Len(vectors[b]))
                >= Min({k, Cardinality(Live(b))})
=============================================================================

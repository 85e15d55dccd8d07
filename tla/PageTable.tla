----------------------------- MODULE PageTable -----------------------------
(***************************************************************************)
(* The page table of a KV cache, src/rfsn_kv/page_table.py: entries that   *)
(* map ranges of logical token positions to pages, sorted by position, and *)
(* the binary search over them.  Hashes, layers, offsets within a page and *)
(* provenance are left out.                                                *)
(***************************************************************************)
EXTENDS Integers, Sequences, FiniteSets, SequencesExt, Subsequences

CONSTANTS
    Pages,       \* page ids
    Positions,   \* logical positions
    MaxCount,    \* bound on token_count
    MaxEntries   \* bound on the size of the table

PageTableAssumption ==
    /\ Positions \subseteq Nat
    /\ MaxCount \in Nat
    /\ MaxEntries \in Nat

\* PageTableEntry; __post_init__ wants token_count > 0.
Entry == [position : Positions, page : Pages, count : 1..MaxCount]

VARIABLE entries

\* What PageTable.__post_init__ accepts.
Sorted(table) ==
    \A i \in 1..Len(table) - 1 : table[i].position < table[i + 1].position

TypeOK == entries \in Seq(Entry) /\ Sorted(entries)

Init == entries = <<>>

-----------------------------------------------------------------------------

\* logical_end, exclusive
End(e) == e.position + e.count

Covers(e, position) == e.position <= position /\ position < End(e)

Overlap(e, f) == e.position < End(f) /\ f.position < End(e)

\* with_entry inserts before the first entry that lies further.
InsertionPoint(e) ==
    Cardinality({i \in DOMAIN entries : entries[i].position <= e.position}) + 1

\* with_entry; a ValueError leaves the client with the table it had.
WithEntry(e) ==
    LET table == InsertAt(entries, InsertionPoint(e), e) IN
    /\ Len(entries) < MaxEntries
    /\ entries' = IF Sorted(table) THEN table ELSE entries

WithoutEntries(pages) == entries' = Kept(entries, {e \in Entry : e.page \notin pages})

Next ==
    \/ \E e \in Entry : WithEntry(e)
    \/ \E pages \in SUBSET Pages : WithoutEntries(pages)

Spec == Init /\ [][Next]_entries

-----------------------------------------------------------------------------
(* The two queries.                                                        *)

Mutant_Upper_Skips(mid) == mid - 2

\* hi, when the position lies before the entry in the middle
Upper(mid) == mid - 1

\* lookup: the page of the entry that contains the position, {} for None.
\* lo and hi are one more than in the code.
Lookup(position) ==
    LET search[range \in (1..MaxEntries + 1) \X (-1..MaxEntries)] ==
            LET lo == range[1]
                hi == range[2]
                mid == (lo + hi) \div 2
                e == entries[mid]
            IN IF lo > hi THEN {}
               ELSE IF Covers(e, position) THEN {e.page}
               ELSE IF position < e.position THEN search[<<lo, Upper(mid)>>]
               ELSE search[<<mid + 1, hi>>]
    IN search[<<1, Len(entries)>>]

Mutant_InRange_Closed(e, from, to) == from <= End(e) /\ e.position < to

\* range_query skips the entries that end too early and stops at the first that
\* starts too late.
InRange(e, from, to) == from < End(e) /\ e.position < to

RangeQuery(from, to) ==
    LET tooLate == {i \in DOMAIN entries : entries[i].position >= to}
        stop == CHOOSE n \in 0..Len(entries) :
                    /\ \A i \in 1..n : i \notin tooLate
                    /\ n < Len(entries) => n + 1 \in tooLate
        hits == Kept(SubSeq(entries, 1, stop), {e \in Entry : InRange(e, from, to)})
    IN [i \in DOMAIN hits |-> hits[i].page]

-----------------------------------------------------------------------------
(* Properties.                                                             *)

Tokens == {p + n : p \in Positions, n \in 0..MaxCount}

\* What the class comment wants of a table (page_table.py 67), and nothing checks.
EntriesDoNotOverlap ==
    \A i, j \in DOMAIN entries : i # j => ~Overlap(entries[i], entries[j])

\* The binary search finds the page of a position whenever some entry covers it,
\* whatever insertions and removals led to a table without overlaps, overlaps on
\* the way included (lookup).
LookupIsExact ==
    EntriesDoNotOverlap => \A position \in Tokens :
        Lookup(position) = {e.page : e \in {f \in ToSet(entries) : Covers(f, position)}}

\* The early exit of range_query loses no page that holds a token of the range,
\* and no other page is returned, even if entries overlap.
RangeQueryIsExact ==
    \A from, to \in Tokens :
        from < to =>
            ToSet(RangeQuery(from, to)) =
                {e.page : e \in {f \in ToSet(entries) :
                                    \E t \in from..to - 1 : Covers(f, t)}}
=============================================================================

----------------------------- MODULE HPackTable -----------------------------
(***************************************************************************)
(* HPackTable: the static table, and a dynamic one of bounded size with    *)
(* the youngest entry first.  An encoder also keeps, for the key name \o   *)
(* value of each entry, the sequence number the entry was added with, from *)
(* which its present place follows.                                        *)
(*                                                                         *)
(* A table is a record: entries is dynamicTable_, size tableSize_, limit   *)
(* limitSize_, max maxSize_, encoder isEncoder_, seq indexSequence_, and   *)
(* numbers the first part of indexMap_, whose second part, the place in    *)
(* the static table, never changes.                                        *)
(***************************************************************************)
EXTENDS Integers, Sequences, SequencesExt, FiniteSetsExt, Functions

CONSTANT InitialLimit      \* the initial value of limitSize_ and maxSize_

ASSUME LimitAssumption == InitialLimit \in Nat

hpackStaticTable ==
    <<
      <<":authority", "">>, <<":method", "GET">>, <<":method", "POST">>, <<":path", "/">>,
      <<":path", "/index.html">>, <<":scheme", "http">>, <<":scheme", "https">>,
      <<":status", "200">>, <<":status", "204">>, <<":status", "206">>,
      <<":status", "304">>, <<":status", "400">>, <<":status", "404">>,
      <<":status", "500">>, <<"accept-charset", "">>,
      <<"accept-encoding", "gzip, deflate">>, <<"accept-language", "">>,
      <<"accept-ranges", "">>, <<"accept", "">>, <<"access-control-allow-origin", "">>,
      <<"age", "">>, <<"allow", "">>, <<"authorization", "">>, <<"cache-control", "">>,
      <<"content-disposition", "">>, <<"content-encoding", "">>,
      <<"content-language", "">>, <<"content-length", "">>, <<"content-location", "">>,
      <<"content-range", "">>, <<"content-type", "">>, <<"cookie", "">>, <<"date", "">>,
      <<"etag", "">>, <<"expect", "">>, <<"expires", "">>, <<"from", "">>, <<"host", "">>,
      <<"if-match", "">>, <<"if-modified-since", "">>, <<"if-none-match", "">>,
      <<"if-range", "">>, <<"if-unmodified-since", "">>, <<"last-modified", "">>,
      <<"link", "">>, <<"location", "">>, <<"max-forwards", "">>,
      <<"proxy-authenticate", "">>, <<"proxy-authorization", "">>, <<"range", "">>,
      <<"referer", "">>, <<"refresh", "">>, <<"retry-after", "">>, <<"server", "">>,
      <<"set-cookie", "">>, <<"strict-transport-security", "">>,
      <<"transfer-encoding", "">>, <<"user-agent", "">>, <<"vary", "">>, <<"via", "">>,
      <<"www-authenticate", "">>
    >>

TABLE_ENTRY_SIZE_EXTRA == 32
HPACK_DYNAMIC_START_INDEX == 62

EntrySize(e) == Len(e[1]) + Len(e[2]) + TABLE_ENTRY_SIZE_EXTRA

\* what the entries make up
SizeOf(entries) ==
    LET sum[i \in 0..Len(entries)] == IF i = 0 THEN 0 ELSE sum[i - 1] + EntrySize(entries[i])
    IN  sum[Len(entries)]

Key(e) == e[1] \o e[2]

StaticKeys == {Key(hpackStaticTable[i]) : i \in DOMAIN hpackStaticTable}

\* The constructor: emplace keeps the first of two equal keys.
StaticIndexOf ==
    [k \in StaticKeys |-> CHOOSE i \in DOMAIN hpackStaticTable :
        /\ Key(hpackStaticTable[i]) = k
        /\ \A j \in 1..(i - 1) : Key(hpackStaticTable[j]) # k]

NewTable ==
    [entries |-> <<>>, size |-> 0, limit |-> InitialLimit, max |-> InitialLimit,
     encoder |-> FALSE, seq |-> 0, numbers |-> [k \in {} |-> 0]]

-----------------------------------------------------------------------------
(* Eviction.                                                               *)

\* mutant of NumbersAfter: the key is erased whichever entry it names
NumbersAfterBlind(t, kept) ==
    LET gone == {Key(t.entries[i]) : i \in (kept + 1)..Len(t.entries)}
    IN  RestrictDomain(t.numbers, LAMBDA k : k \notin gone)

\* removeIndex for each evicted entry, called while it is the last one: a key
\* that names a younger entry stays.
NumbersAfter(t, kept) ==
    LET gone == {Key(t.entries[i]) : i \in {j \in (kept + 1)..Len(t.entries) :
                    /\ Key(t.entries[j]) \in DOMAIN t.numbers
                    /\ t.seq - t.numbers[Key(t.entries[j])] = j - 1}}
    IN  RestrictDomain(t.numbers, LAMBDA k : k \notin gone)

\* evictTableBySize: the oldest go until they make up `size', or all are gone.
EvictTableBySize(t, size) ==
    LET n == Len(t.entries)
        kept == Max({k \in 0..n : k = 0 \/ SizeOf(SubSeq(t.entries, k + 1, n)) >= size})
    IN  [t EXCEPT !.entries = SubSeq(@, 1, kept),
                  !.size = Max({0, @ - SizeOf(SubSeq(t.entries, kept + 1, n))}),
                  !.numbers = IF t.encoder THEN NumbersAfter(t, kept) ELSE @]

UpdateLimitSize(t, limit) ==
    [(IF t.size > limit THEN EvictTableBySize(t, t.size - limit) ELSE t)
        EXCEPT !.limit = limit]

SetMaxSize(t, max) ==
    LET u == [t EXCEPT !.max = max]
    IN  IF t.limit > max THEN UpdateLimitSize(u, max) ELSE u

-----------------------------------------------------------------------------
(* addHeader, the lookups by index and by header.                          *)

\* Room is made even for an entry that is then found too large.
AddHeader(t, e) ==
    LET size == EntrySize(e)
        room == IF size + t.size > t.limit
                THEN EvictTableBySize(t, size + t.size - t.limit) ELSE t
        added == [room EXCEPT !.entries = <<e>> \o @, !.size = @ + size]
    IN  IF size > t.limit THEN room
        ELSE IF ~t.encoder THEN added
        ELSE [added EXCEPT !.seq = t.seq + 1,
                           !.numbers = [k \in DOMAIN @ \cup {Key(e)} |->
                                          IF k = Key(e) THEN t.seq + 1 ELSE @[k]]]

\* getIndexedName and getIndexedValue succeed for the same indexes.
HasIndex(t, index) == index > 0 /\ index < HPACK_DYNAMIC_START_INDEX + Len(t.entries)

Indexed(t, index) ==
    IF index < HPACK_DYNAMIC_START_INDEX
    THEN hpackStaticTable[index]
    ELSE t.entries[index - HPACK_DYNAMIC_START_INDEX + 1]

\* getDynamicIndex, and the second part of indexMap_: 0 for none
DynamicIndex(t, key) == IF key \in DOMAIN t.numbers THEN t.seq - t.numbers[key] + 1 ELSE 0
StaticIndex(key) == IF key \in StaticKeys THEN StaticIndexOf[key] ELSE 0

\* since keys are name and value run together, what is there may be another header
PlaceOf(t, name, dynamic, static) ==
    IF dynamic \in 1..Len(t.entries) /\ t.entries[dynamic][1] = name
    THEN HPACK_DYNAMIC_START_INDEX + dynamic - 1
    ELSE IF static # 0 /\ hpackStaticTable[static][1] = name THEN static
    ELSE 0

FoundAt(t, e, index) ==
    [index |-> index, valueIndexed |-> index # 0 /\ Indexed(t, index)[2] = e[2]]

\* getIndex(name, value, valueIndexed): the place of the entry, or of one of
\* that name, or 0 (the code's -1), and whether the value is the same.  The name
\* alone is looked for only when the whole header is not in the map.
GetIndex(t, e) ==
    LET key == IF Key(e) \in DOMAIN t.numbers \cup StaticKeys THEN Key(e) ELSE e[1]
    IN  FoundAt(t, e, PlaceOf(t, e[1], DynamicIndex(t, key), StaticIndex(key)))

-----------------------------------------------------------------------------
(* Properties of a table.                                                  *)

\* tableSize_ is the size of the entries, and within the limits.
SizeKept(t) == t.size = SizeOf(t.entries) /\ t.size <= t.limit /\ t.limit <= t.max

\* indexMap_ holds "<key(header name[ + value]), <dynamic index sequence, static
\* index>>": the sequence of a key is that of the youngest entry with the key,
\* also when the same key was added twice and the older entry is evicted first.
KeysNameYoungest(t) ==
    /\ {Key(t.entries[i]) : i \in DOMAIN t.entries} = DOMAIN t.numbers
    /\ \A k \in DOMAIN t.numbers :
          t.seq - t.numbers[k] + 1 = Min({i \in DOMAIN t.entries : Key(t.entries[i]) = k})

=============================================================================

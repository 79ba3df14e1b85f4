----------------------------- MODULE ReaderCore -----------------------------
(***************************************************************************)
(* SessionReader::open (crates/dtj/src/reader.rs): one scan over the cells *)
(* of a file, a chunk at a time.  The MCP server's own reader              *)
(* (dtj_native.py, open_session) runs the same loop.  A read of a session  *)
(* that is still being written looks only at the length seen at the start. *)
(***************************************************************************)
EXTENDS DtjFormat

\* What the cells of a file may hold, damaged or not: the header may declare
\* any type, number and length; a payload of type Dictionary decodes to
\* entries, one of type Event to events, and of another type to anything.
\* Chunks with an empty payload, which no writer makes, are left out.
FileChunks ==
    {c \in [chunk_type : Nat, sequence : Nat, payload_len : Nat \ {0},
            payload : Seq(DictEntry) \cup Seq(Events)] :
        /\ c.chunk_type = DictType => c.payload \in Seq(DictEntry)
        /\ c.chunk_type = EventType => c.payload \in Seq(Events)}

FileCells == [part : 0..3, chunk : FileChunks]

\* A reader is scanning, done (with or without a torn tail), or has failed.
\* The file header is decoded and the file length taken; a short file fails.
OpenReader(header, len) ==
    [pc |-> IF header THEN "scan" ELSE "error", file_len |-> len, offset |-> 0,
     expected_chunk_seq |-> 1, expected_event_seq |-> 1,
     dictionary |-> EmptyDictionary, events |-> <<>>, torn_tail |-> FALSE]

Fail(r) == [r EXCEPT !.pc = "error"]

\* Leaving the loop, with prior chunks recovered.
Stop(r, torn) == [r EXCEPT !.pc = "done", !.torn_tail = torn]

\* decode_entries and one Dictionary::insert for each: legal ids and names,
\* no key twice.
EntriesLegal(dict, entries) ==
    /\ Len(entries) <= MaxDictEntries
    /\ \A i \in DOMAIN entries :
          /\ CanInsert(dict, entries[i])
          /\ \A j \in DOMAIN entries : Key(entries[i]) = Key(entries[j]) => i = j

\* Mutant of EventsLegal: references are not validated.
EventsLegalNoRefs(r, events) ==
    /\ Len(events) <= MaxEventsPerChunk
    /\ \A i \in DOMAIN events : events[i].event_sequence = r.expected_event_seq + i - 1

\* decode_many, the sequence check and validate_event_refs for each event.
EventsLegal(r, events) ==
    /\ Len(events) <= MaxEventsPerChunk
    /\ \A i \in DOMAIN events :
          /\ events[i].size <= MaxEventPayload
          /\ events[i].event_sequence = r.expected_event_seq + i - 1
          /\ RefsResolve(r.dictionary, events[i])

\* Mutant of TakePayload: the events of a chunk replace the ones before.
TakePayloadReplaces(r, type, body) ==
    CASE type = DictType /\ body.chunk_type = DictType /\ EntriesLegal(r.dictionary, body.payload)
            -> [r EXCEPT !.dictionary.entries = @ \cup RangeOf(body.payload)]
      [] type = EventType /\ body.chunk_type = EventType /\ EventsLegal(r, body.payload)
            -> [r EXCEPT !.events = body.payload,
                         !.expected_event_seq = @ + Len(body.payload)]
      [] type \notin {DictType, EventType} -> r
      [] OTHER -> Fail(r)

\* The payload of a chunk whose CRC and sequence number are right; types
\* other than Dictionary and Event are skipped.
TakePayload(r, type, body) ==
    CASE type = DictType /\ body.chunk_type = DictType /\ EntriesLegal(r.dictionary, body.payload)
            -> [r EXCEPT !.dictionary.entries = @ \cup RangeOf(body.payload)]
      [] type = EventType /\ body.chunk_type = EventType /\ EventsLegal(r, body.payload)
            -> [r EXCEPT !.events = @ \o body.payload,
                         !.expected_event_seq = @ + Len(body.payload)]
      [] type \notin {DictType, EventType} -> r
      [] OTHER -> Fail(r)

\* Mutants of ReadChunk: a chunk that is cut short is an error; a chunk of an
\* unknown type is skipped without advancing.
ReadChunkStrict(r, file) ==
    LET head  == file[r.offset + 1]
        need  == 2 + head.chunk.payload_len
        body  == file[r.offset + 2]
        taken == TakePayload(r, head.chunk.chunk_type, body.chunk)
    IN  IF head.part # 1 \/ need > r.file_len - r.offset \/ body.part # 2
           \/ head.chunk.sequence # r.expected_chunk_seq THEN Fail(r)
        ELSE [taken EXCEPT !.offset = @ + need, !.expected_chunk_seq = @ + 1]

ReadChunkStuck(r, file) ==
    LET head  == file[r.offset + 1]
        taken == TakePayload(r, head.chunk.chunk_type, file[r.offset + 2].chunk)
    IN  IF head.chunk.chunk_type \notin {DictType, EventType} THEN r
        ELSE IF 3 > r.file_len - r.offset THEN Stop(r, TRUE)
        ELSE [taken EXCEPT !.offset = @ + 3, !.expected_chunk_seq = @ + 1]

\* One iteration of the loop, at a chunk header with `remaining' cells left.
ReadChunk(r, file) ==
    LET remaining == r.file_len - r.offset
        head  == file[r.offset + 1]
        need  == 2 + head.chunk.payload_len
        body  == file[r.offset + 2]
        trail == file[r.offset + need]
        taken == TakePayload(r, head.chunk.chunk_type, body.chunk)
    IN  IF head.part # 1 THEN IF r.offset = 0 THEN Fail(r) ELSE Stop(r, TRUE)
        ELSE IF need > remaining THEN Stop(r, TRUE)
        ELSE IF head.chunk.payload_len > 1 THEN Fail(r)
        ELSE IF trail.part # 3 THEN Stop(r, TRUE)
        ELSE IF body.part # 2 \/ trail.chunk.payload # body.chunk.payload THEN Fail(r)
        ELSE IF head.chunk.sequence # r.expected_chunk_seq THEN Fail(r)
        ELSE [taken EXCEPT !.offset = @ + need, !.expected_chunk_seq = @ + 1]

\* Mutant of ReadStep: a rest too short for a chunk is not reported.
ReadStepSilent(r, file) ==
    IF r.file_len - r.offset >= 2 THEN ReadChunk(r, file) ELSE Stop(r, FALSE)

\* The loop runs while a header and a trailer still fit.
ReadStep(r, file) ==
    IF r.file_len - r.offset >= 2 THEN ReadChunk(r, file)
    ELSE Stop(r, r.file_len > r.offset)
=============================================================================

---------------------------- MODULE MCDtjCodec ----------------------------
(* Small inputs for DtjCodec. *)
EXTENDS DtjCodec, SequencesExt

MCEntry == [kind : {1, 4}, id : {1, 300}, name : {<<65>>, <<65, 66>>, <<67, 0, 0>>}]
MCLongEntry == [kind |-> 2, id |-> 1, name |-> <<68, 69, 70, 71>>]

\* Up to two entries, and lists over the two limits of encode_entries.
MCEntries == BoundedSeq(MCEntry, 2) \cup {<<MCLongEntry>>} \cup {<<e, e, e>> : e \in MCEntry}

\* One scalar of each width, and BYTES values up to one over the limit.
MCField ==
    [name_id : {1, 259}, tag : {1}, data : {<<1>>}]
    \cup [name_id : {1}, tag : {2}, data : {<<1, 0, 0, 255>>}]
    \cup [name_id : {1}, tag : {10}, data : {[i \in 1..12 |-> i]}]
    \cup [name_id : {1}, tag : {12}, data : {<<>>, <<7>>, <<0, 0>>, <<1, 2, 3>>}]
MCPayloads == BoundedSeq(MCField, 2) \cup {<<f, f, f>> : f \in MCField}
=============================================================================

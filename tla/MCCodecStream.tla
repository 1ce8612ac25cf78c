--------------------------- MODULE MCCodecStream ---------------------------
EXTENDS CodecStream

MCTypes == {0, 2, 1024, MAX_VARINT, MAX_VARINT + 1}
MCPayloads == {<<>>, <<1, 7>>, [i \in 1 .. 16 |-> 5]}
MCStreams == {0, 2, 4, 8, MAX_VARINT - 3, MAX_VARINT + 1}

Boundary == InvalidVarInt("ValueTooLarge", <<"value exceeds 2^62 - 1", MAX_VARINT + 1>>)

MCOtherErrors ==
  { map_varint_err(Boundary),
    h3_datagram_error("InvalidVarint", <<"malformed capsule varint">>),
    h3_datagram_error("Generic", <<"capsule value truncated">>),
    map_varint_err(h3_datagram_error("Truncated", <<"capsule value truncated">>)),
    h3_datagram_error_with_source("Truncated", <<"capsule value truncated">>, Boundary) }
=============================================================================

----------------------------- MODULE MCChecksum -----------------------------
(* Files of up to three bytes, and digests of them and of their prefixes,   *)
(* written in every way parse tells apart.                                  *)
EXTENDS Checksum

MCByte == {0, 1}

MCSources == {<<>>, <<0>>, <<0, 1>>, <<0, 0>>, <<0, 1, 1>>}

MCTexts ==
    {None} \cup
    [prefix : {"", "md5", "sha1", "other"}, of : {"md5", "sha1"},
     bytes : {<<>>, <<0>>, <<0, 1>>, <<0, 1, 1>>}, capitals : BOOLEAN,
     damage : {"none", "length", "digit"}]
=============================================================================
